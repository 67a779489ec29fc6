------------------------------ MODULE Semaphore ------------------------------
(***************************************************************************)
(* What counting semaphores promise: a call that takes one returns with    *)
(* success exactly when a token was set aside for that call, tokens go to  *)
(* the callers in the order they arrived, and a call that gave up has not  *)
(* consumed one.                                                           *)
(***************************************************************************)
EXTENDS Naturals, Sequences, SequencesExt

CONSTANTS Sema, Proc, MaxTokens

VARIABLES
  open,     \* the semaphores that exist
  tokens,   \* tokens[s]: the tokens of s nobody has been given
  max,      \* max[s]: the most s holds
  queue,    \* queue[s]: the callers without a token, oldest first
  state     \* state[p]: what became of the call of p

semVars == <<open, tokens, max, queue, state>>

Init == /\ open = {}
        /\ tokens = [s \in Sema |-> 0]
        /\ max = [s \in Sema |-> 1]
        /\ queue = [s \in Sema |-> <<>>]
        /\ state = [p \in Proc |-> "idle"]

Create(s, n, m) ==
  /\ s \notin open /\ n <= m /\ m > 0
  /\ open' = open \cup {s}
  /\ tokens' = [tokens EXCEPT ![s] = n]
  /\ max' = [max EXCEPT ![s] = m]
  /\ UNCHANGED <<queue, state>>

Destroy(s) ==
  /\ s \in open /\ queue[s] = <<>>
  /\ open' = open \ {s}
  /\ UNCHANGED <<tokens, max, queue, state>>

Take(s) ==
  /\ s \in open /\ tokens[s] > 0
  /\ tokens' = [tokens EXCEPT ![s] = @ - 1]
  /\ UNCHANGED <<open, max, queue, state>>

Block(p, s) ==
  /\ s \in open /\ tokens[s] = 0 /\ state[p] = "idle"
  /\ queue' = [queue EXCEPT ![s] = Append(@, p)]
  /\ state' = [state EXCEPT ![p] = "waiting"]
  /\ UNCHANGED <<open, tokens, max>>

Post(s) ==
  /\ s \in open /\ tokens[s] < max[s]
  /\ IF queue[s] = <<>>
     THEN tokens' = [tokens EXCEPT ![s] = @ + 1] /\ UNCHANGED <<queue, state>>
     ELSE /\ queue' = [queue EXCEPT ![s] = Tail(@)]
          /\ state' = [state EXCEPT ![Head(queue[s])] = "granted"]
          /\ UNCHANGED tokens
  /\ UNCHANGED <<open, max>>

Without(s, p) ==
  IF p \in ToSet(s) THEN RemoveAt(s, CHOOSE i \in DOMAIN s : s[i] = p) ELSE s

\* A caller leaves the queue because its time is up, or for good because the
\* task is deleted; a token it has been given is then lost.
Leave(p, how) ==
  /\ queue' = [s \in Sema |-> Without(queue[s], p)]
  /\ state' = [state EXCEPT ![p] = how]
  /\ UNCHANGED <<open, tokens, max>>

GiveUp(p) == state[p] = "waiting" /\ Leave(p, "expired")
Abort(p)  == state[p] # "idle" /\ Leave(p, "idle")

\* The call returns: LOS_OK from "granted", a timeout from "expired".
Return(p) ==
  /\ state[p] \in {"granted", "expired"}
  /\ state' = [state EXCEPT ![p] = "idle"]
  /\ UNCHANGED <<open, tokens, max, queue>>

Next ==
  \/ \E s \in Sema :
       \/ \E n, m \in 0 .. MaxTokens : Create(s, n, m)
       \/ Destroy(s)
       \/ Take(s)
       \/ Post(s)
       \/ \E p \in Proc : Block(p, s)
  \/ \E p \in Proc : GiveUp(p) \/ Abort(p) \/ Return(p)

Spec == Init /\ [][Next]_semVars
=============================================================================
