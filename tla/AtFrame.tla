------------------------------ MODULE AtFrame ------------------------------
(***************************************************************************)
(* The AT command framework (components/net/at_frame/at_main.c).  Clients  *)
(* send commands to a modem and wait for the answer; the receive task, of  *)
(* the highest priority, takes what the modem says from a queue, gives it  *)
(* to the listener at the head of a list, and may itself send commands     *)
(* whose answer a callback handles.  trx_mux lets one command at a time    *)
(* use the modem; it is the kernel's mutex: recursive, with waiters in the *)
(* order they came, and handed over by LOS_MuxPost.  resp_sem, a counting  *)
(* semaphore, tells a client that its answer has come.                     *)
(*                                                                         *)
(* The list of listeners is used under cmd_mux only and nothing waits      *)
(* while it is held, so that such a section is one action.  The listener   *)
(* of a client is a variable on its stack; that of a callback comes from   *)
(* at_malloc, which may fail: the command has been sent and trx_mux taken  *)
(* by then, and trx_mux is not given back (at_main.c:252-257).             *)
(*                                                                         *)
(* The modem is external: it answers a command once, late, or not, and     *)
(* says other things as well, such as that data have come, which the       *)
(* receive task then fetches.  It need not say anything at all.            *)
(***************************************************************************)
EXTENDS Naturals, Sequences, SequencesExt, FiniteSets

CONSTANTS
  Client,
  Recv,            \* at_recv_task
  NoOne,
  SemCountMax,     \* bound: OS_SEM_COUNT_MAX, 0xFFFE in the code
  QueueLen,        \* bound: messages of at.rid, 32 in the code
  MaxIndications,  \* bound: how often the modem announces data
  MaxAllocFailures \* bound: how often at_malloc fails

ASSUME AtAssumption ==
  /\ Recv \notin Client /\ NoOne \notin Client \cup {Recv} /\ NoOne # Recv
  /\ SemCountMax \in Nat \ {0} /\ QueueLen \in Nat \ {0} /\ MaxIndications \in Nat
  /\ MaxAllocFailures \in Nat

VARIABLES
  pc,         \* where a client is in its call
  call,       \* which call: at_cmd_multi_suffix ("CMD") or at_write ("WRITE")
  ok,         \* whether its last LOS_SemPend succeeded
  trx,        \* at.trx_mux: owner, count and waiters
  list,       \* at.head: the listeners
  tokens,     \* at.resp_sem: its count
  rid,        \* at.rid: the messages for the receive task
  hand,       \* the message the receive task has read, if any
  step,       \* where the receive task is
  failed,     \* how many callbacks have got no listener from at_malloc
  owed,       \* answers the modem has still to give
  data,       \* g_data_ind_info.valid_flag: the modem has announced data
  said        \* how often it has

clientVars == <<pc, call, ok>>
modemVars  == <<owed, said>>
recvVars   == <<hand, step, data, failed>>
vars == <<clientVars, trx, list, tokens, rid, recvVars, modemVars>>

\* Listeners: a client waits for the text, the callback for DATA until its time is up.
Listener(c, text) == [who |-> c, text |-> text, expired |-> FALSE]

Init ==
  /\ pc = [c \in Client |-> "idle"] /\ call = [c \in Client |-> "CMD"]
  /\ ok = [c \in Client |-> FALSE]
  /\ trx = [owner |-> NoOne, count |-> 0, waiters |-> <<>>]
  /\ list = <<>> /\ tokens = 0 /\ rid = <<>>
  /\ hand = "NOTHING" /\ step = "read" /\ data = FALSE /\ failed = 0
  /\ owed = {} /\ said = 0
-----------------------------------------------------------------------------
(* The kernel's calls *)

\* LOS_MuxPost, n times by its owner; pcs are the clients' places but for a hand-over.
Release(n, pcs) ==
  LET left == trx.count - n
      next == Head(trx.waiters)
  IN  IF left > 0 \/ n = 0
      THEN trx' = [trx EXCEPT !.count = left] /\ pc' = pcs
      ELSE IF trx.waiters = <<>>
      THEN trx' = [trx EXCEPT !.owner = NoOne, !.count = 0] /\ pc' = pcs
      ELSE trx' = [owner |-> next, count |-> 1, waiters |-> Tail(trx.waiters)]
           /\ pc' = [pcs EXCEPT ![next] = "send"]

\* A write to at.rid that finds it full is lost.
Put(msg) == rid' = IF Len(rid) < QueueLen THEN Append(rid, msg) ELSE rid

Goto(c, at) == pc' = [pc EXCEPT ![c] = at]
-----------------------------------------------------------------------------
(* at_cmd_multi_suffix and at_write *)

\* The call up to LOS_MuxPend of trx_mux.
Begin(c, what) ==
  /\ pc[c] = "idle"
  /\ call' = [call EXCEPT ![c] = what]
  /\ IF trx.owner = NoOne
     THEN trx' = [trx EXCEPT !.owner = c, !.count = 1] /\ Goto(c, "send")
     ELSE trx' = [trx EXCEPT !.waiters = Append(@, c)] /\ Goto(c, "wait_trx")
  /\ UNCHANGED <<ok, list, tokens, rid, recvVars, modemVars>>

FirstText(c) == IF call[c] = "WRITE" THEN "PROMPT" ELSE "RESULT"

CmdMuxFree == step # "handle"

Send(c) ==
  /\ pc[c] = "send" /\ CmdMuxFree
  /\ list' = Append(list, Listener(c, FirstText(c)))
  /\ owed' = owed \cup {FirstText(c)}
  /\ Goto(c, "pend")
  /\ UNCHANGED <<call, ok, trx, tokens, rid, recvVars, said>>

\* After the first LOS_SemPend of at_write, whose result is not looked at.
Next1(c) == IF call[c] = "WRITE" /\ pc[c] \in {"pend", "wait"} THEN "write" ELSE "delist"

SemPend(c) ==
  /\ pc[c] \in {"pend", "pend2"}
  /\ IF tokens > 0
     THEN /\ tokens' = tokens - 1 /\ ok' = [ok EXCEPT ![c] = TRUE] /\ Goto(c, Next1(c))
     ELSE /\ Goto(c, IF pc[c] = "pend" THEN "wait" ELSE "wait2")
          /\ UNCHANGED <<tokens, ok>>
  /\ UNCHANGED <<call, trx, list, rid, recvVars, modemVars>>

SemTimeout(c) ==
  /\ pc[c] \in {"wait", "wait2"}
  /\ ok' = [ok EXCEPT ![c] = FALSE] /\ Goto(c, Next1(c))
  /\ UNCHANGED <<call, trx, list, tokens, rid, recvVars, modemVars>>

\* at_listner_list_del: it finds the first and the second listener only.
Removed(c) ==
  LET n == SelectInSeq(list, LAMBDA l : l.who = c) IN RemoveAt(list, n)

\* at_write sends the data and listens for the text of its caller.
WriteData(c) ==
  /\ pc[c] = "write" /\ CmdMuxFree
  /\ list' = Append(Removed(c), Listener(c, "RESULT"))
  /\ owed' = owed \cup {"RESULT"}
  /\ Goto(c, "pend2")
  /\ UNCHANGED <<call, ok, trx, tokens, rid, recvVars, said>>

\* Mutant: a client whose time is up leaves its listener behind.
Delist_OnlyIfOk(c) ==
  /\ pc[c] = "delist" /\ CmdMuxFree
  /\ list' = IF ok[c] THEN Removed(c) ELSE list
  /\ Goto(c, "return")
  /\ UNCHANGED <<call, ok, trx, tokens, rid, recvVars, modemVars>>

Delist(c) ==
  /\ pc[c] = "delist" /\ CmdMuxFree
  /\ list' = Removed(c)
  /\ Goto(c, "return")
  /\ UNCHANGED <<call, ok, trx, tokens, rid, recvVars, modemVars>>

\* LOS_MuxPost of trx_mux and the message that makes the receive task look again.  What the
\* call knew is forgotten; what the modem has still to say it may still say.
Return(c) ==
  /\ pc[c] = "return"
  /\ Release(1, [pc EXCEPT ![c] = "idle"])
  /\ Put("SENT_DONE")
  /\ call' = [call EXCEPT ![c] = "CMD"] /\ ok' = [ok EXCEPT ![c] = FALSE]
  /\ UNCHANGED <<list, tokens, recvVars, modemVars>>
-----------------------------------------------------------------------------
(* at_recv_task *)

MayAsk == trx.owner \in {NoOne, Recv}

\* at_cmd_in_callback, from nb_cmd_rcv_data: it does not wait for trx_mux, and sends the
\* command before it knows whether there is memory for the listener.  asked: AT_OK.
at_cmd_in_callback(asked) ==
  IF ~MayAsk THEN ~asked /\ UNCHANGED <<trx, list, owed, failed>>
  ELSE /\ trx' = [trx EXCEPT !.owner = Recv, !.count = @ + 1]
       /\ owed' = owed \cup {"DATA"}
       /\ IF asked THEN list' = Append(list, Listener(Recv, "DATA")) /\ UNCHANGED failed
          ELSE /\ failed < MaxAllocFailures /\ failed' = failed + 1
               /\ UNCHANGED list

\* nb_cmd_rcv_data: what could not be asked for is asked for again, by nb_step.
Fetch == \E asked \in BOOLEAN : at_cmd_in_callback(asked) /\ data' = ~asked

\* What at_rm_timeout_nodes keeps of the first n listeners.
Kept[n \in 0 .. Len(list)] ==
  IF n = 0 THEN <<>> ELSE IF list[n].expired THEN Kept[n - 1] ELSE Append(Kept[n - 1], list[n])

\* Mutant: the expired listeners are removed without LOS_MuxPost.
RmTimeoutNodes_NoPost ==
  /\ list' = Kept[Len(list)]
  /\ UNCHANGED <<trx, pc>>

\* at_rm_timeout_nodes: every expired listener of a callback, and at_rm_node for each.
at_rm_timeout_nodes ==
  /\ list' = Kept[Len(list)]
  /\ Release(Len(list) - Len(list'), pc)

\* LOS_QueueReadCopy and what follows it.  Its limit, the time at which the first listener
\* expires, ends in another round of the loop and removes nothing (at_main.c:508-511).
RecvRead ==
  /\ step = "read" /\ rid # <<>>
  /\ hand' = Head(rid) /\ rid' = Tail(rid)
  /\ at_rm_timeout_nodes
  /\ step' = "step"
  /\ UNCHANGED <<call, ok, tokens, data, failed, modemVars>>

\* step_callback, which is nb_step: it forgets nothing while the socket is not in use.
RecvStep ==
  /\ step = "step"
  /\ step' = IF hand = "SENT_DONE" THEN "read" ELSE "match"
  /\ hand' = IF hand = "SENT_DONE" THEN "NOTHING" ELSE hand
  /\ \E used \in BOOLEAN :
       IF data /\ used THEN Fetch ELSE UNCHANGED <<trx, list, owed, data, failed>>
  /\ UNCHANGED <<clientVars, tokens, rid, said>>

\* cloud_cmd_matching: nb_cmd_match asks for the data the modem has announced, and lets the
\* announcement pass on to at_handle_resp; data for a socket that is not in use are ignored.
RecvMatch ==
  /\ step = "match" /\ step' = "prune"
  /\ \E used \in BOOLEAN :
       IF hand = "DATA_IND" /\ used THEN Fetch
       ELSE UNCHANGED <<trx, list, owed, data, failed>>
  /\ UNCHANGED <<clientVars, tokens, rid, hand, said>>

\* The receive task has cmd_mux from here until RecvHandle.
RecvPrune ==
  /\ step = "prune" /\ step' = "handle"
  /\ at_rm_timeout_nodes
  /\ UNCHANGED <<call, ok, tokens, rid, hand, data, failed, modemVars>>

\* LOS_SemPost of resp_sem.
PostResp ==
  LET waiting == {c \in Client : pc[c] \in {"wait", "wait2"}}
  IN IF waiting = {}
     THEN tokens' = (IF tokens < SemCountMax THEN tokens + 1 ELSE tokens) /\ UNCHANGED <<pc, ok>>
     ELSE \E c \in waiting :
            ok' = [ok EXCEPT ![c] = TRUE] /\ Goto(c, Next1(c)) /\ UNCHANGED tokens

\* at_handle_resp.  The listener of a callback has no suffix: what its callback does not want
\* posts resp_sem.
at_handle_resp ==
  IF list = <<>> THEN UNCHANGED <<clientVars, trx, list, tokens>>
  ELSE LET head == Head(list) IN
       IF head.who = Recv /\ head.text = hand
       THEN list' = Tail(list) /\ Release(1, pc) /\ UNCHANGED <<call, ok, tokens>>
       ELSE IF head.who = Recv \/ head.text = hand
       THEN PostResp /\ UNCHANGED <<call, trx, list>>
       ELSE UNCHANGED <<clientVars, trx, list, tokens>>

RecvHandle ==
  /\ step = "handle" /\ step' = "read" /\ hand' = "NOTHING"
  /\ at_handle_resp
  /\ UNCHANGED <<rid, data, failed, modemVars>>
-----------------------------------------------------------------------------
(* The modem, and time *)

ModemAnswers == \E m \in owed :
  /\ Put(m) /\ owed' = owed \ {m}
  /\ UNCHANGED <<clientVars, trx, list, tokens, recvVars, said>>

ModemSilent == \E m \in owed :
  /\ owed' = owed \ {m}
  /\ UNCHANGED <<clientVars, trx, list, tokens, rid, recvVars, said>>

ModemSays ==
  /\ Put("OTHER")
  /\ UNCHANGED <<clientVars, trx, list, tokens, recvVars, modemVars>>

ModemAnnounces ==
  /\ said < MaxIndications /\ said' = said + 1
  /\ Put("DATA_IND")
  /\ UNCHANGED <<clientVars, trx, list, tokens, recvVars, owed>>

\* expire_time of a callback's listener is reached.
Expire == \E n \in DOMAIN list :
  /\ list[n].who = Recv /\ ~list[n].expired
  /\ list' = [list EXCEPT ![n].expired = TRUE]
  /\ UNCHANGED <<clientVars, trx, tokens, rid, recvVars, modemVars>>
-----------------------------------------------------------------------------
ClientStep(c) ==
  \/ Send(c) \/ SemPend(c) \/ SemTimeout(c) \/ WriteData(c) \/ Delist(c) \/ Return(c)
RecvTask == RecvRead \/ RecvStep \/ RecvMatch \/ RecvPrune \/ RecvHandle

Next ==
  \/ \E c \in Client, what \in {"CMD", "WRITE"} : Begin(c, what)
  \/ \E c \in Client : ClientStep(c)
  \/ RecvTask
  \/ ModemAnswers \/ ModemSilent \/ ModemSays \/ ModemAnnounces \/ Expire

Spec == Init /\ [][Next]_vars

\* The scheduler runs every task that is ready, and cmd_mux is handed to the client that waits
\* for it.  Time passes: a wait with a limit ends and a listener expires.  Nothing is assumed of
\* the modem.
FairSpec ==
  /\ Spec
  /\ \A c \in Client : SF_vars(ClientStep(c))
  /\ WF_vars(RecvTask)
  /\ WF_vars(Expire)
-----------------------------------------------------------------------------
InCall(c) == pc[c] \in {"pend", "wait", "write", "pend2", "wait2", "delist"}

\* The modem is spoken to by one at a time: a client that has a listener on the list owns
\* trx_mux, is in its call, which has it on its stack, and is alone on the list.  The receive
\* task has locked trx_mux once for each callback that waits for its answer, and once more, for
\* ever, for each that at_malloc gave no listener (at_main.c:252-257).
OneCommandAtATime ==
  /\ \A n \in DOMAIN list : list[n].who # Recv =>
       trx.owner = list[n].who /\ InCall(list[n].who) /\ Len(list) = 1
  /\ trx.owner = Recv => trx.count = Len(list) + failed
  /\ trx.owner # Recv => \A n \in DOMAIN list : list[n].who # Recv

\* Every call comes back, answered or not, even one that waits for trx_mux behind a callback
\* that is never answered, as long as messages of some kind keep reaching the receive task and
\* at_malloc has not failed: only a message makes it remove the listeners that have expired
\* (at_main.c:508-520), and nothing gives back trx_mux for a listener it did not get.
CommandReturns == \A c \in Client :
  []<>(step = "step") => (pc[c] # "idle" ~> (pc[c] = "idle" \/ failed > 0))
=============================================================================
