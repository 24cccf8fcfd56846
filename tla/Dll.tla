--------------------------------- MODULE Dll ---------------------------------
(***************************************************************************)
(* src/dll: shared libraries as processes.  A program that loads a DLL     *)
(* looks for the DLL's public message port, launches the DLL if there is   *)
(* none, and sends it an open message; it closes it with a close message   *)
(* and asks it for addresses with symbol queries.  The DLL is a process    *)
(* that counts its opens and ends when the count has come back to zero.    *)
(* One port name; several programs, and several processes of the DLL, for  *)
(* it is launched anew after it has ended (or by two programs at once).    *)
(*                                                                         *)
(* Control points of a program:                                            *)
(*   out                  in its own code                                  *)
(*   find  poll           in dllInternalLoadLibrary, before FindPort and   *)
(*                        in the loop that waits for the launched DLL      *)
(*   put_open  opening    before PutMsg, and in WaitPort behind it         *)
(*   query  querying      dllGetProcAddress, before PutMsg and behind it   *)
(*   close  put_close  closing                                             *)
(*                        dllInternalFreeLibrary: before CreateMsgPort,    *)
(*                        between FindPort and PutMsg, in the loop behind  *)
(*   ended                                                                 *)
(* and of a process of the DLL:                                            *)
(*   unborn  start        not launched yet; before CreatePort              *)
(*   get  reply  wait     before GetMsg, ReplyMsg and in WaitPort          *)
(*   delete  deinit       behind the loop; behind DeletePort               *)
(*   gone                                                                  *)
(***************************************************************************)
EXTENDS Integers, SequencesExt

CONSTANTS Client,       \* the programs
          Dll,          \* a bound: the processes of the DLL, as many as it is launched
          NoDll,
          MaxUse,       \* 127, the limit of the use count
          Tries,        \* 20, how often a loader looks for the port
          MaxLeaks,     \* a bound: the closes of a process that fail
          Portable      \* programs that are surely built for the DLL's stack type

ASSUME DllAssumption ==
  /\ IsFiniteSet(Client)
  /\ NoDll \notin Dll
  /\ MaxUse \in Nat \ {0}
  /\ Tries \in Nat \ {0}
  /\ MaxLeaks \in Nat
  /\ Portable \subseteq Client

VARIABLES
  foreign,    \* the programs whose StackType the DLL does not support
  ports,      \* exec's list of public ports, the oldest first
  dpc, opencount, expunge,
  queue,      \* messages in the port of a process
  hand,       \* the message it has taken and not replied to
  cpc,
  call,       \* the call it is in: "load", "import", "query", "free", "exit", "none"
  use,        \* ln_Pri of its node in dllOpenedDLLs, 0 without a node
  handles,    \* results of dllLoadLibrary that it has not freed
  bound,      \* dllPort: the process its node belongs to
  tries, reply,
  leaks       \* nodes that were taken from the list and never closed

clientVars == <<cpc, call, use, handles, bound, tries, reply>>
dllVars == <<dpc, opencount, expunge, queue, hand>>
vars == <<foreign, ports, dllVars, clientVars, leaks>>

Message == [type : {"open", "close", "query"}, from : Client]
NoMessage == [type |-> "none"]

Loop == {"get", "reply", "wait"}

-----------------------------------------------------------------------------
Init ==
  /\ foreign \in SUBSET (Client \ Portable)
  /\ ports = <<>>
  /\ dpc = [d \in Dll |-> "unborn"]
  /\ opencount = [d \in Dll |-> 0]
  /\ expunge = [d \in Dll |-> FALSE]
  /\ queue = [d \in Dll |-> <<>>]
  /\ hand = [d \in Dll |-> NoMessage]
  /\ cpc = [c \in Client |-> "out"]
  /\ call = [c \in Client |-> "none"]
  /\ use = [c \in Client |-> 0]
  /\ handles = [c \in Client |-> 0]
  /\ bound = [c \in Client |-> NoDll]
  /\ tries = [c \in Client |-> 0]
  /\ reply = [c \in Client |-> "none"]
  /\ leaks = [d \in Dll |-> 0]

-----------------------------------------------------------------------------
\* exec.library

FindPort == IF ports = <<>> THEN NoDll ELSE Head(ports)

\* A message to the port that c is bound to.  What is sent to a port that has
\* been deleted is lost.
PutMsg(c, type) ==
  queue' = IF dpc[bound[c]] \in {"deinit", "gone"}
             THEN queue
             ELSE [queue EXCEPT ![bound[c]] = Append(@, [type |-> type, from |-> c])]

-----------------------------------------------------------------------------
\* The programs

At(c, pc) == cpc[c] = pc
Goto(c, pc) == cpc' = [cpc EXCEPT ![c] = pc]
Enter(c, why, pc) == Goto(c, pc) /\ call' = [call EXCEPT ![c] = why]

\* The locals of a call end with it, and a reply that was taken is gone.
Return(c, pc) ==
  /\ Enter(c, "none", pc)
  /\ reply' = [reply EXCEPT ![c] = "none"]
  /\ tries' = [tries EXCEPT ![c] = 0]

Unbind(c) == bound' = [bound EXCEPT ![c] = NoDll]

RaisesAtLimit(c) == use[c] > 0

MayRaise(c) == use[c] > 0 /\ use[c] < MaxUse

\* dllLoadLibrary of a DLL that the program has open: a node whose use count
\* is at its limit changes nothing.
LoadAgain(c) ==
  /\ At(c, "out") /\ MayRaise(c)
  /\ use' = [use EXCEPT ![c] = @ + 1]
  /\ handles' = [handles EXCEPT ![c] = @ + 1]
  /\ UNCHANGED <<foreign, ports, dllVars, cpc, call, bound, tries, reply, leaks>>

\* dllLoadLibrary and dllImportSymbols without a node.
Load(c) ==
  /\ At(c, "out") /\ use[c] = 0
  /\ \E why \in {"load", "import"} : Enter(c, why, "find")
  /\ UNCHANGED <<foreign, ports, dllVars, use, handles, bound, tries, reply, leaks>>

\* dllGetProcAddress, and dllImportSymbols with a node, whose use count it
\* does not raise.
Query(c) ==
  /\ At(c, "out") /\ use[c] > 0
  /\ \/ handles[c] > 0 /\ Enter(c, "query", "query")
     \/ Enter(c, "import", "query")
  /\ UNCHANGED <<foreign, ports, dllVars, use, handles, bound, tries, reply, leaks>>

\* Whatever fails before the open message is sent leaves the program as it was.
LoadFails(c) ==
  /\ \/ At(c, "find")
     \/ (At(c, "poll") /\ tries[c] = Tries)
  /\ Return(c, "out")
  /\ UNCHANGED <<foreign, ports, dllVars, use, handles, bound, leaks>>

PortFound(c) ==
  /\ At(c, "find") \/ (At(c, "poll") /\ tries[c] < Tries)
  /\ ports # <<>>
  /\ bound' = [bound EXCEPT ![c] = FindPort]
  /\ Goto(c, "put_open")
  /\ UNCHANGED <<foreign, ports, dllVars, call, use, handles, tries, reply, leaks>>

\* SystemTags
Launch(c) ==
  /\ At(c, "find") /\ ports = <<>>
  /\ \E d \in Dll : dpc[d] = "unborn" /\ dpc' = [dpc EXCEPT ![d] = "start"]
  /\ Goto(c, "poll")
  /\ UNCHANGED <<foreign, ports, opencount, expunge, queue, hand,
                 call, use, handles, bound, tries, reply, leaks>>

PollAgain(c) ==
  /\ At(c, "poll") /\ tries[c] < Tries /\ ports = <<>>
  /\ tries' = [tries EXCEPT ![c] = @ + 1]
  /\ UNCHANGED <<foreign, ports, dllVars, cpc, call, use, handles, bound, reply, leaks>>

Send(c, from, type, to) ==
  /\ At(c, from)
  /\ PutMsg(c, type)
  /\ Goto(c, to)
  /\ UNCHANGED <<foreign, ports, dpc, opencount, expunge, hand,
                 call, use, handles, bound, tries, reply, leaks>>

\* Between FindPort and PutMsg nothing holds the port.
SendOpen(c) == Send(c, "put_open", "open", "opening")

Opened(c) ==
  /\ At(c, "opening") /\ reply[c] = "ok"
  /\ use' = [use EXCEPT ![c] = 1]
  /\ \/ /\ call[c] = "load"
        /\ handles' = [handles EXCEPT ![c] = 1]
        /\ Return(c, "out")
     \/ /\ call[c] = "import"
        /\ Goto(c, "query")
        /\ reply' = [reply EXCEPT ![c] = "none"]
        /\ UNCHANGED <<call, handles, tries>>
  /\ UNCHANGED <<foreign, ports, dllVars, bound, leaks>>

OpenRefused(c) ==
  /\ At(c, "opening") /\ reply[c] = "refused"
  /\ Return(c, "out") /\ Unbind(c)
  /\ UNCHANGED <<foreign, ports, dllVars, use, handles, leaks>>

SendQuery(c) == Send(c, "query", "query", "querying")

\* CreateMsgPort in dllGetProcAddress fails, or the answer is there.
QueryReturns(c) ==
  /\ \/ At(c, "query")
     \/ At(c, "querying") /\ reply[c] # "none"
  /\ Return(c, "out")
  /\ UNCHANGED <<foreign, ports, dllVars, use, handles, bound, leaks>>

\* dllFreeLibrary: the last use takes the node from the list.
Free(c) ==
  /\ At(c, "out") /\ handles[c] > 0
  /\ handles' = [handles EXCEPT ![c] = @ - 1]
  /\ use' = [use EXCEPT ![c] = @ - 1]
  /\ \/ use[c] = 1 /\ Enter(c, "free", "close")
     \/ use[c] > 1 /\ UNCHANGED <<cpc, call>>
  /\ UNCHANGED <<foreign, ports, dllVars, bound, tries, reply, leaks>>

\* exit runs dllCleanup, which closes a node whatever its use count is.
Exit(c) ==
  /\ At(c, "out")
  /\ handles' = [handles EXCEPT ![c] = 0]
  /\ use' = [use EXCEPT ![c] = 0]
  /\ Enter(c, "exit", IF use[c] > 0 THEN "close" ELSE "ended")
  /\ UNCHANGED <<foreign, ports, dllVars, bound, tries, reply, leaks>>

AfterClose(c) == IF call[c] = "exit" THEN "ended" ELSE "out"

\* dllInternalFreeLibrary gives up, without a reply port or without the DLL's
\* port, and nothing remembers the node any more.
CloseFails(c) ==
  /\ Return(c, AfterClose(c)) /\ Unbind(c)
  /\ leaks' = [leaks EXCEPT ![bound[c]] = @ + 1]
  /\ UNCHANGED <<foreign, ports, dllVars, use, handles>>

CloseFindsPort(c) ==
  /\ Goto(c, "put_close")
  /\ UNCHANGED <<foreign, ports, dllVars, call, use, handles, bound, tries, reply, leaks>>

StartClose(c) ==
  /\ At(c, "close")
  /\ \/ leaks[bound[c]] < MaxLeaks /\ CloseFails(c)
     \/ IF FindPort = bound[c] THEN CloseFindsPort(c) ELSE CloseFails(c)

SendClose(c) == Send(c, "put_close", "close", "closing")

NotAwaited(c) == TRUE

CloseOver(c) == reply[c] # "none" \/ FindPort # bound[c]

\* The loop around Delay ends with the answer, or when the port has gone.
Closed(c) ==
  /\ At(c, "closing")
  /\ CloseOver(c)
  /\ Return(c, AfterClose(c)) /\ Unbind(c)
  /\ UNCHANGED <<foreign, ports, dllVars, use, handles, leaks>>

-----------------------------------------------------------------------------
\* main of a DLL

DllGoto(d, pc) == dpc' = [dpc EXCEPT ![d] = pc]

CreatePort(d) ==
  /\ dpc[d] = "start"
  /\ ports' = Append(ports, d)
  /\ DllGoto(d, "get")
  /\ UNCHANGED <<foreign, opencount, expunge, queue, hand, clientVars, leaks>>

\* dllImportSymbols, DLL_Init or CreatePort fails.
StartFails(d) ==
  /\ dpc[d] = "start"
  /\ DllGoto(d, "gone")
  /\ UNCHANGED <<foreign, ports, opencount, expunge, queue, hand, clientVars, leaks>>

CountUnchecked(d, c) ==
  /\ opencount' = [opencount EXCEPT ![d] = @ + 1]
  /\ expunge' = [expunge EXCEPT ![d] = FALSE]

CountOnly(d, c) ==
  /\ opencount' = [opencount EXCEPT ![d] = @ + 1]
  /\ UNCHANGED expunge

\* What the switch does to the count and the flag.
HandleOpen(d, c) ==
  IF c \in foreign
    THEN /\ expunge' = [expunge EXCEPT ![d] = @ \/ opencount[d] = 0]
         /\ UNCHANGED opencount
    ELSE /\ opencount' = [opencount EXCEPT ![d] = @ + 1]
         /\ expunge' = [expunge EXCEPT ![d] = FALSE]

AnyClose(d) == TRUE

LastClose(d) == opencount[d] <= 1

HandleClose(d) ==
  /\ opencount' = [opencount EXCEPT ![d] = @ - 1]
  /\ expunge' = [expunge EXCEPT ![d] = @ \/ LastClose(d)]

GetMsg(d) ==
  /\ dpc[d] = "get" /\ queue[d] # <<>>
  /\ LET msg == Head(queue[d])
     IN  /\ hand' = [hand EXCEPT ![d] = msg]
         /\ \/ msg.type = "open" /\ HandleOpen(d, msg.from)
            \/ msg.type = "close" /\ HandleClose(d)
            \/ msg.type = "query" /\ UNCHANGED <<opencount, expunge>>
  /\ queue' = [queue EXCEPT ![d] = Tail(@)]
  /\ DllGoto(d, "reply")
  /\ UNCHANGED <<foreign, ports, clientVars, leaks>>

Answer(msg) ==
  IF msg.type = "open" /\ msg.from \in foreign THEN "refused" ELSE "ok"

AlwaysWait(d) == "wait"

AfterReply(d) == IF expunge[d] THEN "get" ELSE "wait"

ReplyMsg(d) ==
  /\ dpc[d] = "reply"
  /\ reply' = [reply EXCEPT ![hand[d].from] = Answer(hand[d])]
  /\ hand' = [hand EXCEPT ![d] = NoMessage]
  /\ DllGoto(d, AfterReply(d))
  /\ UNCHANGED <<foreign, ports, opencount, expunge, queue,
                 cpc, call, use, handles, bound, tries, leaks>>

\* GetMsg finds nothing: the loop ends, or waits.
NoMsg(d) ==
  /\ dpc[d] = "get" /\ queue[d] = <<>>
  /\ DllGoto(d, IF expunge[d] THEN "delete" ELSE "wait")
  /\ UNCHANGED <<foreign, ports, opencount, expunge, queue, hand, clientVars, leaks>>

WaitPort(d) ==
  /\ dpc[d] = "wait" /\ queue[d] # <<>>
  /\ DllGoto(d, "get")
  /\ UNCHANGED <<foreign, ports, opencount, expunge, queue, hand, clientVars, leaks>>

DeletePort(d) ==
  /\ dpc[d] = "delete"
  /\ \E i \in 1 .. Len(ports) : ports[i] = d /\ ports' = RemoveAt(ports, i)
  /\ queue' = [queue EXCEPT ![d] = <<>>]
  /\ DllGoto(d, "deinit")
  /\ UNCHANGED <<foreign, opencount, expunge, hand, clientVars, leaks>>

\* DLL_DeInit, and the process ends.
DeInit(d) ==
  /\ dpc[d] = "deinit"
  /\ DllGoto(d, "gone")
  /\ UNCHANGED <<foreign, ports, opencount, expunge, queue, hand, clientVars, leaks>>

-----------------------------------------------------------------------------
\* What a program does once it has entered a call.
InCall(c) ==
  \/ LoadFails(c) \/ PortFound(c) \/ Launch(c) \/ PollAgain(c)
  \/ SendOpen(c) \/ Opened(c) \/ OpenRefused(c)
  \/ SendQuery(c) \/ QueryReturns(c)
  \/ StartClose(c) \/ SendClose(c) \/ Closed(c)

ClientStep(c) ==
  LoadAgain(c) \/ Load(c) \/ Query(c) \/ Free(c) \/ Exit(c) \/ InCall(c)

DllStep(d) ==
  \/ CreatePort(d) \/ StartFails(d) \/ GetMsg(d) \/ ReplyMsg(d)
  \/ NoMsg(d) \/ WaitPort(d) \/ DeletePort(d) \/ DeInit(d)

Next ==
  \/ \E c \in Client : ClientStep(c)
  \/ \E d \in Dll : DllStep(d)

Spec == Init /\ [][Next]_vars

\* exec runs every process that is ready.
Fairness ==
  /\ \A c \in Client : WF_vars(InCall(c))
  /\ \A d \in Dll : WF_vars(DllStep(d))

FairSpec == Spec /\ Fairness

-----------------------------------------------------------------------------
TypeOK ==
  /\ foreign \subseteq Client
  /\ ports \in Seq(Dll)
  /\ dpc \in [Dll -> {"unborn", "start", "delete", "deinit", "gone"} \cup Loop]
  /\ opencount \in [Dll -> Nat]
  /\ expunge \in [Dll -> BOOLEAN]
  /\ queue \in [Dll -> Seq(Message)]
  /\ hand \in [Dll -> Message \cup {NoMessage}]
  /\ cpc \in [Client -> {"out", "find", "poll", "put_open", "opening", "query",
                         "querying", "close", "put_close", "closing", "ended"}]
  /\ call \in [Client -> {"none", "load", "import", "query", "free", "exit"}]
  /\ use \in [Client -> 0 .. MaxUse]
  /\ handles \in [Client -> 0 .. MaxUse]
  /\ bound \in [Client -> Dll \cup {NoDll}]
  /\ tries \in [Client -> 0 .. Tries]
  /\ reply \in [Client -> {"none", "ok", "refused"}]
  /\ leaks \in [Dll -> Nat]

\* A message of c waits in the port of d, or is in the hands of d.
Waiting(d, c) == \E i \in 1 .. Len(queue[d]) : queue[d][i].from = c
Taken(d, c) == dpc[d] = "reply" /\ hand[d].from = c

\* Process d has counted the open message of c, and the close message, if c
\* has sent one, it has not.
HasOpen(c, d) ==
  /\ bound[c] = d
  /\ \/ use[c] > 0
     \/ cpc[c] \in {"close", "put_close"}
     \/ cpc[c] = "opening" /\ c \notin foreign /\ (reply[c] = "ok" \/ Taken(d, c))
     \/ cpc[c] = "closing" /\ Waiting(d, c)

Holders(d) == {c \in Client : HasOpen(c, d)}

\* The open count of a process is what the programs, each with a use count of
\* its own, owe it: no open or close is counted twice or not at all.
OpensCounted ==
  \A d \in Dll : dpc[d] \in Loop => opencount[d] = Cardinality(Holders(d)) + leaks[d]

\* A program that has the DLL open (or is about to close it) finds the process
\* it opened in its message loop, with the port that FindPort answers: its
\* symbols stay in memory, a query is taken, and a close finds the port.
LoadedStays ==
  \A c \in Client :
    use[c] > 0 \/ cpc[c] \in {"query", "querying", "close", "put_close"}
      => /\ bound[c] \in Dll
         /\ dpc[bound[c]] \in Loop
         /\ ~expunge[bound[c]]
         /\ FindPort = bound[c]

\* The sender of a message is in the call that sent it.
Awaited(m) ==
  /\ reply[m.from] = "none"
  /\ \/ m.type = "open" /\ cpc[m.from] = "opening"
     \/ m.type = "query" /\ cpc[m.from] = "querying"
     \/ m.type = "close" /\ cpc[m.from] = "closing"

Messages(d) ==
  {queue[d][i] : i \in 1 .. Len(queue[d])} \cup {m \in {hand[d]} : dpc[d] = "reply"}

\* Messages lie on the stack of their sender, which must be in the call that
\* sent them as long as a process that still takes messages has them.
MessagesAlive ==
  \A d \in Dll : dpc[d] \in Loop =>
    \A m \in Messages(d) : bound[m.from] = d /\ Awaited(m)

\* dllGetProcAddress and dllFreeLibrary return.
QueryAndFreeReturn ==
  \A c \in Client : cpc[c] \in {"querying", "close", "closing"} ~> cpc[c] \in {"out", "ended"}

\* A process that has been closed for the last time ends, unless somebody
\* opens it before, or foreign programs keep asking.
ClosedDllEnds ==
  \A d \in Dll :
    expunge[d] /\ [](\A c \in foreign : cpc[c] # "put_open")
      ~> dpc[d] = "gone" \/ ~expunge[d]

\* dllLoadLibrary returns: the open message is answered.
OpenReturns ==
  \A c \in Client : cpc[c] = "opening" ~> cpc[c] # "opening"

=============================================================================
