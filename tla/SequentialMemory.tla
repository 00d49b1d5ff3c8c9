-------------------------- MODULE SequentialMemory --------------------------
(***************************************************************************)
(* What a cache promises the pipeline, and what the rest of the system may *)
(* rely on: one memory, in which each accepted write replaces exactly the  *)
(* bytes it names and each accepted read returns the current words.  The   *)
(* backing memory may lag behind it; only a block's current contents are   *)
(* ever written back, and when a flush is accepted nothing lags.           *)
(***************************************************************************)
EXTENDS CacheGeometry, Sequences

CONSTANT HOLDS   \* whether the client keeps a request until it is accepted

VARIABLES
  store,      \* the memory the program sees
  backing,    \* the memory behind the cache
  turn,       \* "cache" while a request is being looked at, then "client"
  request, accepted, words,   \* the request, and its answer if it has one
  SYS         \* the processor has stopped for a system call

vars == <<store, backing, turn, request, accepted, words, SYS>>

Init ==
  /\ store \in Images /\ backing = store
  /\ turn = "cache" /\ request = NoRequest
  /\ accepted = FALSE /\ words = <<>> /\ SYS = FALSE

\* The words a read returns: the requested one and, unless it is the last
\* of its line, the one after it.
WordsAt(r) ==
  LET line == store[BlockOf(r)] IN
  IF r.word < LINEWORDS - 1 THEN <<line[r.word], line[r.word + 1]>>
                            ELSE <<line[r.word]>>

Answer(newAccepted, newWords) ==
  /\ turn = "cache" /\ turn' = "client"
  /\ accepted' = newAccepted /\ words' = newWords
  /\ UNCHANGED <<backing, request, SYS>>

Refuse == Answer(FALSE, <<>>) /\ UNCHANGED store

AcceptRead ==
  /\ request.op = "read"
  /\ Answer(TRUE, WordsAt(request)) /\ UNCHANGED store

AcceptWrite ==
  /\ request.op = "write"
  /\ Answer(TRUE, <<>>)
  /\ store' = [store EXCEPT ![BlockOf(request)] = Stored(@, request)]

AcceptFlush ==
  /\ request.op = "flush" /\ backing = store
  /\ Answer(TRUE, <<>>) /\ UNCHANGED store

WriteBack(a) ==
  /\ turn = "cache"
  /\ backing' = [backing EXCEPT ![a] = store[a]]
  /\ UNCHANGED <<store, turn, request, accepted, words, SYS>>

Syscall(r) ==
  /\ turn = "cache" /\ SYS /\ r.op = "write"
  /\ store' = [store EXCEPT ![BlockOf(r)] = Stored(@, r)]
  /\ backing' = [backing EXCEPT ![BlockOf(r)] = Stored(@, r)]
  /\ UNCHANGED <<turn, request, accepted, words, SYS>>

Client ==
  /\ turn = "client" /\ turn' = "cache"
  /\ request' \in IF HOLDS /\ request.op # "none" /\ ~accepted
                  THEN {request} ELSE Requests
  /\ SYS' \in BOOLEAN
  /\ accepted' = FALSE /\ words' = <<>>
  /\ UNCHANGED <<store, backing>>

Next ==
  \/ Refuse \/ AcceptRead \/ AcceptWrite \/ AcceptFlush
  \/ \E a \in Address : WriteBack(a)
  \/ \E r \in Requests : Syscall(r)
  \/ Client

Spec == Init /\ [][Next]_vars

=============================================================================
