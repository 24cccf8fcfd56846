------------------------------ MODULE DllProofs ------------------------------
(***************************************************************************)
(* Proofs about Dll, for every number of programs and of processes, every  *)
(* limit of the use count and every choice of foreign programs.            *)
(***************************************************************************)
EXTENDS Dll, SequencesExt, SequenceTheorems, FiniteSetTheorems, TLAPS

\* The variables have their types, but the open count may be any integer.
Types ==
  /\ foreign \subseteq Client
  /\ ports \in Seq(Dll)
  /\ dpc \in [Dll -> {"unborn", "start", "delete", "deinit", "gone"} \cup Loop]
  /\ opencount \in [Dll -> Int]
  /\ expunge \in [Dll -> BOOLEAN]
  /\ queue \in [Dll -> Seq(Message)]
  /\ hand \in [Dll -> Message \cup {NoMessage}]
  /\ cpc \in [Client -> {"out", "find", "poll", "put_open", "opening", "query",
                         "querying", "close", "put_close", "closing", "ended"}]
  /\ call \in [Client -> {"none", "load", "import", "query", "free", "exit"}]
  /\ use \in [Client -> 0 .. MaxUse]
  /\ handles \in [Client -> 0 .. MaxUse]
  /\ bound \in [Client -> Dll \cup {NoDll}]
  /\ tries \in [Client -> 0 .. Tries]
  /\ reply \in [Client -> {"none", "ok", "refused"}]
  /\ leaks \in [Dll -> Nat]

Open == Loop \cup {"delete"}

\* A process has its port in exec's list, and once, from CreatePort to DeletePort.
PortInv ==
  /\ \A i, j \in 1 .. Len(ports) : ports[i] = ports[j] => i = j
  /\ \A d \in Dll : (\E i \in 1 .. Len(ports) : ports[i] = d) <=> dpc[d] \in Open

\* A program is bound to the first port of the list, which stays the first
\* one until it is deleted: ports are added at the end.
BoundInv ==
  \A c \in Client : bound[c] # NoDll =>
    /\ dpc[bound[c]] \notin {"unborn", "start"}
    /\ dpc[bound[c]] \in Open => FindPort = bound[c]

\* What the control point of a program says about its node and its call.
ClientInv(c) ==
  /\ use[c] > 0 => cpc[c] \in {"out", "query", "querying"}
  /\ cpc[c] \in {"query", "querying"} => use[c] > 0
  /\ use[c] > 0 \/ cpc[c] \in {"put_open", "opening", "close", "put_close", "closing"}
       => bound[c] # NoDll
  /\ handles[c] <= use[c]
  /\ reply[c] # "none" => cpc[c] \in {"opening", "querying", "closing"}
  /\ cpc[c] = "opening" /\ reply[c] = "ok" => c \notin foreign

\* Every message has its sender waiting for it, and no sender has two.
MsgInv ==
  \A d \in Dll :
    /\ \A i \in 1 .. Len(queue[d]) : bound[queue[d][i].from] = d /\ Awaited(queue[d][i])
    /\ \A i, j \in 1 .. Len(queue[d]) : queue[d][i].from = queue[d][j].from => i = j
    /\ dpc[d] = "reply" =>
         /\ hand[d] \in Message
         /\ bound[hand[d].from] = d /\ Awaited(hand[d])
         /\ ~Waiting(d, hand[d].from)
    /\ queue[d] # <<>> => dpc[d] \in Open

\* The open count, and that a process only leaves its loop, or means to, when
\* nobody has it open.
CountInv ==
  \A d \in Dll :
    /\ opencount[d] = Cardinality(Holders(d)) + leaks[d]
    /\ expunge[d] \/ dpc[d] \notin Loop => opencount[d] = 0

Inv ==
  Types /\ PortInv /\ BoundInv /\ (\A c \in Client : ClientInv(c)) /\ MsgInv /\ CountInv

-----------------------------------------------------------------------------
\* How many programs have a process open is a number.
LEMMA HoldersFinite ==
  ASSUME NEW d \in Dll
  PROVE  IsFiniteSet(Holders(d)) /\ Cardinality(Holders(d)) \in Nat
<1>1. Holders(d) \subseteq Client
  BY DEF Holders
<1> QED
  BY <1>1, DllAssumption, FS_Subset, FS_CardinalityType

\* The invariant holds at the start.
LEMMA InitInv == Init => Inv
<1> SUFFICES ASSUME Init PROVE Inv
  OBVIOUS
<1> USE DllAssumption DEF Init
<1>1. Types
  <2>1. /\ ports \in Seq(Dll)
        /\ queue \in [Dll -> Seq(Message)]
    OBVIOUS
  <2>2. /\ opencount \in [Dll -> Int] /\ leaks \in [Dll -> Nat]
        /\ use \in [Client -> 0 .. MaxUse] /\ handles \in [Client -> 0 .. MaxUse]
        /\ tries \in [Client -> 0 .. Tries]
    OBVIOUS
  <2>3. foreign \subseteq Client
    OBVIOUS
  <2> QED
    BY <2>1, <2>2, <2>3 DEF Types
<1>2. PortInv /\ BoundInv
  BY DEF PortInv, BoundInv, Open, Loop
<1>3. \A c \in Client : ClientInv(c)
  BY DEF ClientInv
<1>4. MsgInv
  BY DEF MsgInv
<1>5. CountInv
  <2> SUFFICES ASSUME NEW d \in Dll
               PROVE  opencount[d] = Cardinality(Holders(d)) + leaks[d] /\ opencount[d] = 0
    BY DEF CountInv
  <2>1. Holders(d) = {}
    BY DEF Holders, HasOpen
  <2>2. Cardinality(Holders(d)) = 0
    BY <2>1, FS_EmptySet
  <2> QED
    BY <2>2
<1> QED
  BY <1>1, <1>2, <1>3, <1>4, <1>5 DEF Inv

-----------------------------------------------------------------------------
(***************************************************************************)
(* What the invariant says about a program                                 *)
(***************************************************************************)
\* A process that somebody has open is in its loop, does not mean to leave
\* it, and FindPort answers its port.
LEMMA HeldStays ==
  ASSUME Inv, NEW c \in Client, NEW d \in Dll, HasOpen(c, d)
  PROVE  /\ dpc[d] \in Loop /\ ~expunge[d] /\ opencount[d] > 0
         /\ FindPort = d
<1>1. c \in Holders(d)
  BY DEF Holders
<1>2. Cardinality(Holders(d)) # 0 /\ Cardinality(Holders(d)) \in Nat
  BY <1>1, HoldersFinite, FS_EmptySet
<1>3. opencount[d] > 0
  BY <1>2 DEF Inv, CountInv, Types
<1>4. dpc[d] \in Loop /\ ~expunge[d]
  BY <1>3 DEF Inv, CountInv
<1>5. bound[c] = d
  BY DEF HasOpen
<1> QED
  BY <1>3, <1>4, <1>5, DllAssumption DEF Inv, BoundInv, Open

\* Messages come from programs.
LEMMA SenderIsClient ==
  ASSUME Types, NEW d \in Dll, NEW i \in 1 .. Len(queue[d])
  PROVE  queue[d][i] \in Message /\ queue[d][i].from \in Client
<1>1. queue[d] \in Seq(Message)
  BY DEF Types
<1>2. queue[d][i] \in Message
  BY <1>1, ElementOfSeq
<1> QED
  BY <1>2 DEF Message

\* A program that has got its answer, or is not in a call that sends a
\* message, has no message anywhere.
LEMMA NoMessageOf ==
  ASSUME Inv, NEW c \in Client,
         reply[c] # "none" \/ cpc[c] \notin {"opening", "querying", "closing"},
         NEW d \in Dll
  PROVE  ~Waiting(d, c) /\ ~Taken(d, c)
<1>1. ~Waiting(d, c)
  BY DEF Inv, MsgInv, Awaited, Waiting
<1>2. ~Taken(d, c)
  BY DEF Inv, MsgInv, Awaited, Taken
<1> QED
  BY <1>1, <1>2

\* A close that the program stops waiting for has been taken from the port,
\* and has no message anywhere else.
LEMMA CloseIsOver ==
  ASSUME Inv, NEW c \in Client, cpc[c] = "closing", CloseOver(c), NEW d \in Dll
  PROVE  ~Waiting(d, c) /\ ~Taken(d, c)
<1>1. CASE reply[c] # "none"
  BY <1>1, NoMessageOf
<1>2. CASE FindPort # bound[c]
  <2>1. bound[c] \in Dll /\ dpc[bound[c]] \notin Open
    BY <1>2 DEF Inv, ClientInv, BoundInv, Types
  <2>2. ~Waiting(d, c)
    <3>1. ASSUME Waiting(d, c) PROVE FALSE
      <4>1. PICK i \in 1 .. Len(queue[d]) : queue[d][i].from = c
        BY <3>1 DEF Waiting
      <4>2. bound[c] = d /\ queue[d] # <<>>
        BY <4>1 DEF Inv, MsgInv
      <4> QED
        BY <2>1, <4>2 DEF Inv, MsgInv
    <3> QED
      BY <3>1
  <2>3. ~Taken(d, c)
    BY <2>1 DEF Inv, MsgInv, Taken, Open, Loop
  <2> QED
    BY <2>2, <2>3
<1> QED
  BY <1>1, <1>2 DEF CloseOver

-----------------------------------------------------------------------------
(***************************************************************************)
(* Steps of a program that touch nothing but its own state                 *)
(***************************************************************************)
\* A step of c says nothing about the other programs.
OthersKeep(c) ==
  \A b \in Client \ {c} :
    /\ cpc'[b] = cpc[b] /\ use'[b] = use[b] /\ handles'[b] = handles[b]
    /\ bound'[b] = bound[b] /\ reply'[b] = reply[b]

\* What a message or a process can tell of the program c stays as it is.
MessageSees(c) ==
  \/ cpc'[c] = cpc[c] /\ bound'[c] = bound[c] /\ reply'[c] = reply[c]
  \/ \A d \in Dll : ~Waiting(d, c) /\ ~Taken(d, c)

Own(c) ==
  /\ UNCHANGED <<foreign, ports, dllVars>>
  /\ OthersKeep(c)
  /\ MessageSees(c)
  /\ bound'[c] \in {bound[c], NoDll, FindPort}
  /\ ClientInv(c)'

Alone(c) ==
  /\ Own(c)
  /\ UNCHANGED leaks
  /\ \A d \in Dll : HasOpen(c, d)' <=> HasOpen(c, d)

\* The holders of a process are those that have it open.
LEMMA SameHolders ==
  ASSUME NEW d \in Dll, \A b \in Client : HasOpen(b, d)' <=> HasOpen(b, d)
  PROVE  Holders(d)' = Holders(d)
BY DEF Holders

\* Such a step keeps what is known of ports, programs and messages.
LEMMA OwnInv ==
  ASSUME Inv, NEW c \in Client, Own(c)
  PROVE  /\ PortInv' /\ BoundInv' /\ (\A b \in Client : ClientInv(b)') /\ MsgInv'
         /\ \A d \in Dll, b \in Client \ {c} : HasOpen(b, d)' <=> HasOpen(b, d)
<1>a. /\ foreign' = foreign /\ ports' = ports
      /\ dpc' = dpc /\ opencount' = opencount /\ expunge' = expunge
      /\ queue' = queue /\ hand' = hand
  BY DEF Own, dllVars
<1>b. OthersKeep(c) /\ MessageSees(c)
  BY DEF Own
<1>1. PortInv'
  BY <1>a DEF Inv, PortInv
<1>2. BoundInv'
  <2>1. FindPort' = FindPort
    BY <1>a DEF FindPort
  <2>2. FindPort # NoDll => dpc[FindPort] \in Open
    <3>1. ASSUME ports # <<>> PROVE \E i \in 1 .. Len(ports) : ports[i] = Head(ports)
      <4>1. ports \in Seq(Dll)
        BY DEF Inv, Types
      <4>2. Len(ports) \in Nat \ {0} /\ Head(ports) = ports[1]
        BY <3>1, <4>1
      <4> QED
        BY <4>2
    <3>2. ports # <<>> => Head(ports) \in Dll
      BY DEF Inv, Types
    <3> QED
      BY <3>1, <3>2 DEF FindPort, Inv, PortInv
  <2>3. ASSUME NEW b \in Client, bound'[b] # NoDll
        PROVE  /\ dpc[bound'[b]] \notin {"unborn", "start"}
               /\ dpc[bound'[b]] \in Open => FindPort = bound'[b]
    <3>1. CASE bound'[b] = bound[b]
      BY <2>3, <3>1 DEF Inv, BoundInv
    <3>2. CASE bound'[b] = FindPort
      BY <2>2, <2>3, <3>2 DEF Open, Loop
    <3> QED
      BY <1>b, <2>3, <3>1, <3>2 DEF OthersKeep, Own
  <2> QED
    BY <1>a, <2>1, <2>3 DEF BoundInv
<1>3. \A b \in Client : ClientInv(b)'
  BY <1>a, <1>b DEF Own, OthersKeep, Inv, ClientInv
<1>4. ASSUME NEW b \in Client, NEW d \in Dll, Waiting(d, b) \/ Taken(d, b)
      PROVE  bound'[b] = bound[b] /\ cpc'[b] = cpc[b] /\ reply'[b] = reply[b]
  BY <1>b, <1>4 DEF OthersKeep, MessageSees
<1>5. MsgInv'
  <2> SUFFICES ASSUME NEW d \in Dll
               PROVE  /\ \A i \in 1 .. Len(queue[d]) :
                           bound'[queue[d][i].from] = d /\ Awaited(queue[d][i])'
                      /\ dpc[d] = "reply" => bound'[hand[d].from] = d /\ Awaited(hand[d])'
    BY <1>a DEF Inv, MsgInv, Awaited, Waiting
  <2>1. ASSUME NEW i \in 1 .. Len(queue[d])
        PROVE  bound'[queue[d][i].from] = d /\ Awaited(queue[d][i])'
    <3>1. queue[d][i].from \in Client
      BY SenderIsClient DEF Inv
    <3>2. bound[queue[d][i].from] = d /\ Awaited(queue[d][i])
      BY DEF Inv, MsgInv
    <3>3. Waiting(d, queue[d][i].from)
      BY DEF Waiting
    <3>4. queue' = queue
      BY <1>a
    <3> QED
      BY <1>4, <3>1, <3>2, <3>3, <3>4 DEF Awaited
  <2>2. ASSUME dpc[d] = "reply"
        PROVE  bound'[hand[d].from] = d /\ Awaited(hand[d])'
    <3>1. hand[d].from \in Client /\ Taken(d, hand[d].from)
      BY <2>2 DEF Inv, MsgInv, Taken, Message
    <3>2. bound[hand[d].from] = d /\ Awaited(hand[d]) /\ hand' = hand
      BY <1>a, <2>2 DEF Inv, MsgInv
    <3> QED
      BY <1>4, <3>1, <3>2 DEF Awaited
  <2> QED
    BY <2>1, <2>2
<1>6. \A d \in Dll, b \in Client \ {c} : HasOpen(b, d)' <=> HasOpen(b, d)
  BY <1>a, <1>b DEF OthersKeep, HasOpen, Waiting, Taken
<1> QED
  BY <1>1, <1>2, <1>3, <1>5, <1>6

\* If the holders stay, too, the step keeps the invariant.
LEMMA AloneInv ==
  ASSUME Inv, NEW c \in Client, Alone(c), Types'
  PROVE  Inv'
<1>1. /\ PortInv' /\ BoundInv' /\ (\A b \in Client : ClientInv(b)') /\ MsgInv'
      /\ \A d \in Dll, b \in Client \ {c} : HasOpen(b, d)' <=> HasOpen(b, d)
  BY OwnInv DEF Alone
<1>2. \A d \in Dll, b \in Client : HasOpen(b, d)' <=> HasOpen(b, d)
  BY <1>1 DEF Alone
<1>3. \A d \in Dll : Holders(d)' = Holders(d)
  BY <1>2, SameHolders
<1>4. leaks' = leaks /\ dpc' = dpc /\ opencount' = opencount /\ expunge' = expunge
  BY DEF Alone, Own, dllVars
<1>5. CountInv'
  BY <1>3, <1>4 DEF Inv, CountInv
<1> QED
  BY <1>1, <1>5 DEF Inv


ClientPoints == {"out", "find", "poll", "put_open", "opening", "query",
                 "querying", "close", "put_close", "closing", "ended"}

\* The types of what a program has of its own.
ClientTypes ==
  /\ cpc \in [Client -> ClientPoints]
  /\ call \in [Client -> {"none", "load", "import", "query", "free", "exit"}]
  /\ use \in [Client -> 0 .. MaxUse]
  /\ handles \in [Client -> 0 .. MaxUse]
  /\ bound \in [Client -> Dll \cup {NoDll}]
  /\ tries \in [Client -> 0 .. Tries]
  /\ reply \in [Client -> {"none", "ok", "refused"}]

DllTypes ==
  /\ dpc \in [Dll -> {"unborn", "start", "delete", "deinit", "gone"} \cup Loop]
  /\ opencount \in [Dll -> Int]
  /\ expunge \in [Dll -> BOOLEAN]
  /\ queue \in [Dll -> Seq(Message)]
  /\ hand \in [Dll -> Message \cup {NoMessage}]

\* What FindPort answers, and what it says about the port.
LEMMA FindPortType ==
  ASSUME Types
  PROVE  /\ FindPort \in Dll \cup {NoDll}
         /\ ports # <<>> => FindPort # NoDll
<1>1. ports # <<>> => Head(ports) \in Dll
  BY DEF Types
<1> QED
  BY <1>1, DllAssumption DEF FindPort

\* The types, by the actors they belong to.
LEMMA TypeParts ==
  Types <=> /\ foreign \subseteq Client /\ ports \in Seq(Dll) /\ leaks \in [Dll -> Nat]
            /\ ClientTypes /\ DllTypes
BY DEF Types, ClientTypes, DllTypes, ClientPoints

\* The steps of a program that are its own affair.
OwnStep(c) ==
  \/ LoadAgain(c) \/ Load(c) \/ Query(c) \/ Free(c) \/ Exit(c)
  \/ LoadFails(c) \/ PortFound(c) \/ PollAgain(c) \/ Opened(c) \/ OpenRefused(c)
  \/ QueryReturns(c) \/ (At(c, "close") /\ FindPort = bound[c] /\ CloseFindsPort(c)) \/ Closed(c)

\* Such a step keeps the types.
LEMMA OwnTypes ==
  ASSUME Inv, NEW c \in Client, OwnStep(c)
  PROVE  Types'
<1>a. ClientTypes /\ FindPort \in Dll \cup {NoDll} /\ ClientInv(c)
  BY TypeParts, FindPortType DEF Inv
<1>b. ClientTypes' /\ UNCHANGED <<foreign, ports, dllVars, leaks>> => Types'
  BY DEF Inv, Types, ClientTypes, ClientPoints, dllVars
<1> USE DllAssumption DEF ClientTypes, ClientPoints, Goto, Enter, Return, Unbind
<1>1. LoadAgain(c) => ClientTypes'
  BY <1>a DEF LoadAgain, MayRaise, ClientInv
<1>2. Load(c) \/ Query(c) => ClientTypes'
  BY <1>a DEF Load, Query
<1>3. Free(c) => ClientTypes'
  BY <1>a DEF Free, ClientInv
<1>4. Exit(c) => ClientTypes'
  BY <1>a DEF Exit
<1>5. LoadFails(c) \/ OpenRefused(c) \/ QueryReturns(c) => ClientTypes'
  BY <1>a DEF LoadFails, OpenRefused, QueryReturns
<1>6. PortFound(c) => ClientTypes'
  BY <1>a DEF PortFound
<1>7. PollAgain(c) => ClientTypes'
  BY <1>a DEF PollAgain
<1>8. Opened(c) => ClientTypes'
  BY <1>a DEF Opened
<1>9. CloseFindsPort(c) => ClientTypes'
  BY <1>a DEF CloseFindsPort
<1>10. Closed(c) => ClientTypes'
  BY <1>a DEF Closed, AfterClose
<1>11. UNCHANGED <<foreign, ports, dllVars, leaks>>
  BY Zenon DEF OwnStep, LoadAgain, Load, Query, Free, Exit, LoadFails, PortFound, PollAgain,
               Opened, OpenRefused, QueryReturns, CloseFindsPort, Closed
<1>12. ClientTypes'
  BY <1>1, <1>2, <1>3, <1>4, <1>5, <1>6, <1>7, <1>8, <1>9, <1>10, Zenon DEF OwnStep
<1> QED
  BY <1>b, <1>11, <1>12

\* Such a step changes nothing that the others see, and no holder.
LEMMA OwnAlone ==
  ASSUME Inv, NEW c \in Client, OwnStep(c)
  PROVE  Alone(c)
<1>a. /\ ClientTypes /\ ClientInv(c)
      /\ FindPort \in Dll \cup {NoDll} /\ (ports # <<>> => FindPort # NoDll)
  BY TypeParts, FindPortType DEF Inv
<1>b. UNCHANGED <<foreign, ports, dllVars, leaks>>
  BY Zenon DEF OwnStep, LoadAgain, Load, Query, Free, Exit, LoadFails, PortFound, PollAgain,
               Opened, OpenRefused, QueryReturns, CloseFindsPort, Closed
<1>c. \A d \in Dll : (Waiting(d, c)' <=> Waiting(d, c)) /\ (Taken(d, c)' <=> Taken(d, c))
  BY <1>b DEF dllVars, Waiting, Taken
<1>d. ASSUME NEW d \in Dll, HasOpen(c, d), cpc[c] = "closing", CloseOver(c) PROVE FALSE
  BY <1>d, CloseIsOver, <1>a DEF HasOpen, ClientInv
<1>e. \A d \in Dll : reply[c] # "none" \/ cpc[c] \notin {"opening", "querying", "closing"}
                       => ~Waiting(d, c) /\ ~Taken(d, c)
  BY NoMessageOf
<1>f. foreign' = foreign
  BY <1>b
<1> USE DllAssumption DEF ClientTypes, ClientPoints, Goto, Enter, Return, Unbind, At
<1>1. CASE LoadAgain(c)
  <2>1. /\ cpc' = cpc /\ bound' = bound /\ reply' = reply
        /\ use'[c] = use[c] + 1 /\ handles'[c] = handles[c] + 1 /\ use[c] > 0
        /\ OthersKeep(c)
    BY <1>a, <1>1 DEF LoadAgain, MayRaise, OthersKeep
  <2> QED
    BY <1>a, <1>b, <1>c, <1>f, <2>1 DEF Alone, Own, MessageSees, ClientInv, HasOpen
<1>2. CASE Load(c) \/ Query(c)
  <2>1. /\ use' = use /\ handles' = handles /\ bound' = bound /\ reply' = reply
        /\ cpc[c] = "out"
        /\ \/ use[c] = 0 /\ cpc'[c] = "find"
           \/ use[c] > 0 /\ cpc'[c] = "query"
        /\ OthersKeep(c)
    BY <1>a, <1>2 DEF Load, Query, OthersKeep
  <2> QED
    BY <1>a, <1>b, <1>c, <1>e, <1>f, <2>1 DEF Alone, Own, MessageSees, ClientInv, HasOpen
<1>3. CASE Free(c)
  <2>1. /\ bound' = bound /\ reply' = reply
        /\ cpc[c] = "out" /\ handles[c] > 0
        /\ handles'[c] = handles[c] - 1 /\ use'[c] = use[c] - 1
        /\ \/ use[c] = 1 /\ cpc'[c] = "close"
           \/ use[c] > 1 /\ cpc'[c] = "out"
        /\ OthersKeep(c)
    BY <1>a, <1>3 DEF Free, OthersKeep
  <2>2. use[c] > 0
    BY <1>a, <2>1 DEF ClientInv
  <2> QED
    BY <1>a, <1>b, <1>c, <1>e, <1>f, <2>1, <2>2 DEF Alone, Own, MessageSees, ClientInv, HasOpen
<1>4. CASE Exit(c)
  <2>1. /\ bound' = bound /\ reply' = reply
        /\ cpc[c] = "out" /\ handles'[c] = 0 /\ use'[c] = 0
        /\ \/ use[c] > 0 /\ cpc'[c] = "close"
           \/ use[c] = 0 /\ cpc'[c] = "ended"
        /\ OthersKeep(c)
    BY <1>a, <1>4 DEF Exit, OthersKeep
  <2> QED
    BY <1>a, <1>b, <1>c, <1>e, <1>f, <2>1 DEF Alone, Own, MessageSees, ClientInv, HasOpen
<1>5. CASE LoadFails(c) \/ QueryReturns(c)
  <2>1. /\ use' = use /\ handles' = handles /\ bound' = bound
        /\ cpc[c] \in {"find", "poll", "query"} \/ (cpc[c] = "querying" /\ reply[c] # "none")
        /\ cpc'[c] = "out" /\ reply'[c] = "none"
        /\ OthersKeep(c)
    BY <1>a, <1>5 DEF LoadFails, QueryReturns, OthersKeep
  <2> QED
    BY <1>a, <1>b, <1>c, <1>e, <1>f, <2>1 DEF Alone, Own, MessageSees, ClientInv, HasOpen
<1>6. CASE OpenRefused(c)
  <2>1. /\ use' = use /\ handles' = handles /\ bound'[c] = NoDll
        /\ cpc[c] = "opening" /\ reply[c] = "refused"
        /\ cpc'[c] = "out" /\ reply'[c] = "none"
        /\ OthersKeep(c)
    BY <1>a, <1>6 DEF OpenRefused, OthersKeep
  <2> QED
    BY <1>a, <1>b, <1>c, <1>e, <1>f, <2>1 DEF Alone, Own, MessageSees, ClientInv, HasOpen
<1>7. CASE PortFound(c)
  <2>1. /\ use' = use /\ handles' = handles /\ bound'[c] = FindPort /\ reply' = reply
        /\ cpc[c] \in {"find", "poll"} /\ cpc'[c] = "put_open" /\ FindPort # NoDll
        /\ OthersKeep(c)
    BY <1>a, <1>7 DEF PortFound, OthersKeep
  <2> QED
    BY <1>a, <1>b, <1>c, <1>e, <1>f, <2>1 DEF Alone, Own, MessageSees, ClientInv, HasOpen
<1>8. CASE PollAgain(c)
  <2>1. UNCHANGED <<cpc, use, handles, bound, reply>> /\ OthersKeep(c)
    BY <1>8 DEF PollAgain, OthersKeep
  <2> QED
    BY <1>a, <1>b, <1>c, <1>f, <2>1 DEF Alone, Own, MessageSees, ClientInv, HasOpen
<1>9. CASE Opened(c)
  <2>1. /\ bound' = bound /\ cpc[c] = "opening" /\ reply[c] = "ok" /\ use'[c] = 1
        /\ reply'[c] = "none" /\ cpc'[c] \in {"out", "query"}
        /\ handles'[c] = 1 \/ handles'[c] = handles[c]
        /\ OthersKeep(c)
    BY <1>a, <1>9 DEF Opened, OthersKeep
  <2> QED
    BY <1>a, <1>b, <1>c, <1>e, <1>f, <2>1 DEF Alone, Own, MessageSees, ClientInv, HasOpen
<1>10. CASE At(c, "close") /\ CloseFindsPort(c)
  <2>1. /\ UNCHANGED <<use, handles, bound, reply>>
        /\ cpc[c] = "close" /\ cpc'[c] = "put_close"
        /\ OthersKeep(c)
    BY <1>a, <1>10 DEF CloseFindsPort, OthersKeep
  <2> QED
    BY <1>a, <1>b, <1>c, <1>e, <1>f, <2>1 DEF Alone, Own, MessageSees, ClientInv, HasOpen
<1>11. CASE Closed(c)
  <2>1. /\ UNCHANGED <<use, handles>> /\ bound'[c] = NoDll
        /\ cpc[c] = "closing" /\ CloseOver(c)
        /\ cpc'[c] \in {"out", "ended"} /\ reply'[c] = "none"
        /\ OthersKeep(c)
    BY <1>a, <1>11 DEF Closed, AfterClose, OthersKeep
  <2>2. \A d \in Dll : ~Waiting(d, c) /\ ~Taken(d, c)
    BY <2>1, CloseIsOver
  <2>3. use[c] = 0
    BY <1>a, <2>1 DEF ClientInv
  <2>4. \A d \in Dll : ~HasOpen(c, d) /\ ~HasOpen(c, d)'
    BY <2>1, <2>2, <2>3 DEF HasOpen
  <2> QED
    BY <1>a, <1>b, <1>f, <2>1, <2>2, <2>3, <2>4 DEF Alone, Own, MessageSees, ClientInv
<1> QED
  BY <1>1, <1>2, <1>3, <1>4, <1>5, <1>6, <1>7, <1>8, <1>9, <1>10, <1>11, Zenon DEF OwnStep

\* Such a step keeps the invariant.
LEMMA OwnStepInv ==
  ASSUME Inv, NEW c \in Client, OwnStep(c)
  PROVE  Inv'
BY OwnTypes, OwnAlone, AloneInv

-----------------------------------------------------------------------------
(***************************************************************************)
(* Steps of a program that others see                                      *)
(***************************************************************************)
\* A counter that goes up, and the open that is given up with it.
LEMMA CloseFailsInv ==
  ASSUME Inv, NEW c \in Client, At(c, "close"), CloseFails(c)
  PROVE  Inv'
<1>a. ClientTypes /\ ClientInv(c) /\ leaks \in [Dll -> Nat]
  BY TypeParts DEF Inv
<1>p. PICK d \in Dll : bound[c] = d
  BY <1>a DEF At, ClientInv, ClientTypes
<1>b. /\ use[c] = 0 /\ cpc[c] = "close" /\ reply[c] = "none"
  BY <1>a DEF At, ClientInv, ClientTypes
<1>c. /\ UNCHANGED <<foreign, ports, dllVars, use, handles>>
      /\ bound'[c] = NoDll /\ cpc'[c] \in {"out", "ended"} /\ reply'[c] = "none"
      /\ leaks' = [leaks EXCEPT ![d] = leaks[d] + 1]
      /\ OthersKeep(c)
  BY <1>a, <1>p DEF CloseFails, Return, Enter, Goto, Unbind, AfterClose, OthersKeep, ClientTypes, ClientPoints
<1>1. Types'
  <2>1. leaks' \in [Dll -> Nat]
    BY <1>a, <1>b, <1>c
  <2>2. ClientTypes'
    BY <1>a, DllAssumption DEF CloseFails, Return, Enter, Goto, Unbind, AfterClose, ClientTypes, ClientPoints
  <2> QED
    BY <1>c, <2>1, <2>2 DEF Inv, Types, ClientTypes, ClientPoints, dllVars
<1>2. Own(c)
  <2>1. MessageSees(c)
    BY <1>b, NoMessageOf DEF MessageSees
  <2> QED
    BY <1>a, <1>b, <1>c, <2>1 DEF Own, ClientInv
<1>3. /\ PortInv' /\ BoundInv' /\ (\A b \in Client : ClientInv(b)') /\ MsgInv'
      /\ \A e \in Dll, b \in Client \ {c} : HasOpen(b, e)' <=> HasOpen(b, e)
  BY <1>2, OwnInv
<1>4. /\ HasOpen(c, d)
      /\ \A e \in Dll \ {d} : ~HasOpen(c, e)
      /\ \A e \in Dll : ~HasOpen(c, e)'
  BY <1>b, <1>c, <1>p, DllAssumption DEF HasOpen
<1>5. /\ Holders(d)' = Holders(d) \ {c} /\ c \in Holders(d)
      /\ \A e \in Dll \ {d} : Holders(e)' = Holders(e)
  BY <1>b, <1>3, <1>4 DEF Holders
<1>6. Cardinality(Holders(d)') = Cardinality(Holders(d)) - 1
  BY <1>b, <1>5, HoldersFinite, FS_RemoveElement
<1>7. CountInv'
  <2>1. opencount' = opencount /\ expunge' = expunge /\ dpc' = dpc
    BY <1>c DEF dllVars
  <2>2. opencount[d] = Cardinality(Holders(d)') + leaks'[d]
    <3>1. opencount[d] = Cardinality(Holders(d)) + leaks[d] /\ leaks'[d] = leaks[d] + 1
      BY <1>a, <1>b, <1>c DEF Inv, CountInv
    <3>2. Cardinality(Holders(d)) \in Nat /\ leaks[d] \in Nat
      BY <1>a, <1>b, HoldersFinite
    <3> QED
      BY <1>6, <3>1, <3>2
  <2>3. \A e \in Dll \ {d} : leaks'[e] = leaks[e]
    BY <1>a, <1>b, <1>c
  <2>4. \A e \in Dll : opencount[e] = Cardinality(Holders(e)') + leaks'[e]
    BY <1>5, <2>2, <2>3 DEF Inv, CountInv
  <2> QED
    BY <2>1, <2>4 DEF Inv, CountInv
<1> QED
  BY <1>1, <1>3, <1>7 DEF Inv

\* SystemTags starts a process that nobody is bound to.
LEMMA LaunchInv ==
  ASSUME Inv, NEW c \in Client, Launch(c)
  PROVE  Inv'
<1>a. ClientTypes /\ ClientInv(c) /\ DllTypes
  BY TypeParts DEF Inv
<1>1. PICK d \in Dll : dpc[d] = "unborn" /\ dpc' = [dpc EXCEPT ![d] = "start"]
  BY DEF Launch
<1>b. /\ UNCHANGED <<foreign, ports, opencount, expunge, queue, hand,
                     call, use, handles, bound, tries, reply, leaks>>
      /\ cpc' = [cpc EXCEPT ![c] = "poll"] /\ cpc[c] = "find"
  BY DEF Launch, At, Goto
<1>c. /\ \A e \in Dll \ {d} : dpc'[e] = dpc[e]
      /\ dpc'[d] = "start" /\ dpc[d] = "unborn"
      /\ \A b \in Client \ {c} : cpc'[b] = cpc[b]
      /\ cpc'[c] = "poll" /\ cpc[c] = "find"
  BY <1>a, <1>1, <1>b DEF DllTypes, ClientTypes
<1>2. Types'
  BY <1>a, <1>1, <1>b DEF Inv, Types, ClientTypes, ClientPoints, DllTypes
<1>3. PortInv'
  BY <1>b, <1>c DEF Inv, PortInv, Open, Loop
<1>4. BoundInv'
  BY <1>a, <1>b, <1>c DEF Inv, BoundInv, FindPort, Open, Loop, ClientTypes
<1>5. \A b \in Client : ClientInv(b)'
  BY <1>b, <1>c DEF Inv, ClientInv
<1>6. MsgInv'
  <2>1. ASSUME NEW m, reply[m.from] = "none", m.from \in Client, Awaited(m)
        PROVE  cpc'[m.from] = cpc[m.from]
    BY <1>c, <2>1 DEF Awaited
  <2>2. ASSUME NEW e \in Dll, NEW i \in 1 .. Len(queue[e])
        PROVE  Awaited(queue[e][i])'
    <3>1. queue[e][i].from \in Client /\ Awaited(queue[e][i])
      BY SenderIsClient DEF Inv, MsgInv
    <3> QED
      BY <1>b, <1>c, <3>1 DEF Awaited
  <2>3. ASSUME NEW e \in Dll, dpc[e] = "reply"
        PROVE  Awaited(hand[e])'
    <3>1. hand[e].from \in Client /\ Awaited(hand[e])
      BY <2>3 DEF Inv, MsgInv, Message
    <3> QED
      BY <1>b, <1>c, <3>1 DEF Awaited
  <2>4. \A e \in Dll : dpc'[e] = "reply" => dpc[e] = "reply"
    BY <1>c
  <2>5. \A e \in Dll : dpc[e] \in Open => dpc'[e] \in Open
    BY <1>c DEF Open, Loop
  <2> QED
    BY <1>b, <2>2, <2>3, <2>4, <2>5 DEF Inv, MsgInv, Waiting
<1>7. CountInv'
  <2>1. \A e \in Dll, b \in Client : HasOpen(b, e)' <=> HasOpen(b, e)
    BY <1>b, <1>c DEF HasOpen, Waiting, Taken
  <2>2. \A e \in Dll : Holders(e)' = Holders(e)
    BY <2>1, SameHolders
  <2>3. \A e \in Dll : dpc'[e] \notin Loop => dpc[e] \notin Loop
    BY <1>c DEF Loop
  <2> QED
    BY <1>b, <2>2, <2>3 DEF Inv, CountInv
<1> QED
  BY <1>2, <1>3, <1>4, <1>5, <1>6, <1>7 DEF Inv

\* Program c sends a message to the port of d, which is there, and goes to the
\* control point where it waits for the answer.
Sends(c, d, type, to) ==
  /\ \/ type = "open" /\ to = "opening" /\ cpc[c] = "put_open" /\ use[c] = 0
     \/ type = "query" /\ to = "querying" /\ cpc[c] = "query" /\ use[c] > 0
     \/ type = "close" /\ to = "closing" /\ cpc[c] = "put_close" /\ use[c] = 0
  /\ bound[c] = d /\ dpc[d] \in Open /\ reply[c] = "none"
  /\ queue' = [queue EXCEPT ![d] = Append(@, [type |-> type, from |-> c])]
  /\ cpc' = [cpc EXCEPT ![c] = to]
  /\ UNCHANGED <<foreign, ports, dpc, opencount, expunge, hand,
                 call, use, handles, bound, tries, reply, leaks>>

\* A message that is sent to a port that is there keeps the invariant: the sender
\* had none, and waits for this one.
LEMMA SentInv ==
  ASSUME Inv, NEW c \in Client, NEW d \in Dll, NEW type, NEW to,
         Sends(c, d, type, to), ClientInv(c)'
  PROVE  Inv'
<1>0. /\ type \in {"open", "close", "query"} /\ to \in ClientPoints
      /\ \/ type = "open" /\ to = "opening"
         \/ type = "query" /\ to = "querying"
         \/ type = "close" /\ to = "closing"
      /\ cpc[c] \in {"put_open", "query", "put_close"}
  BY DEF Sends, ClientPoints
<1>s. /\ bound[c] = d /\ dpc[d] \in Open /\ reply[c] = "none"
      /\ queue' = [queue EXCEPT ![d] = Append(@, [type |-> type, from |-> c])]
      /\ cpc' = [cpc EXCEPT ![c] = to]
      /\ UNCHANGED <<foreign, ports, dpc, opencount, expunge, hand,
                     call, use, handles, bound, tries, reply, leaks>>
      /\ use[c] > 0 \/ cpc[c] = "put_close" <=> use[c] > 0 \/ to = "closing"
  BY DEF Sends
<1> USE <1>0, <1>s
<1> DEFINE m == [type |-> type, from |-> c]
           n == Len(queue[d])
<1>a. ClientTypes /\ DllTypes /\ m \in Message /\ m.from = c /\ m.type = type
  BY TypeParts DEF Inv, Message
<1>b. /\ queue[d] \in Seq(Message) /\ n \in Nat
      /\ queue'[d] = Append(queue[d], m)
      /\ \A e \in Dll \ {d} : queue'[e] = queue[e]
  BY <1>a DEF DllTypes
<1>c. /\ Len(queue'[d]) = n + 1 /\ queue'[d][n + 1] = m
      /\ \A i \in 1 .. n : queue'[d][i] = queue[d][i]
  BY <1>a, <1>b
<1>d. /\ \A b \in Client \ {c} : cpc'[b] = cpc[b]
      /\ cpc'[c] = to
  BY <1>a DEF ClientTypes
<1>e. \A e \in Dll : ~Waiting(e, c) /\ ~Taken(e, c)
  BY NoMessageOf
<1>f. \A e \in Dll : \A i \in 1 .. Len(queue[e]) : queue[e][i].from \in Client \ {c}
  BY <1>e, SenderIsClient DEF Waiting, Inv
<1> HIDE DEF m, n
<1>1. Types'
  <2>1. Append(queue[d], m) \in Seq(Message)
    BY <1>a, <1>b
  <2>2. queue' \in [Dll -> Seq(Message)]
    BY <1>a, <2>1 DEF DllTypes, m
  <2>3. cpc' \in [Client -> ClientPoints]
    BY <1>a DEF ClientTypes
  <2> QED
    BY <2>2, <2>3 DEF Inv, Types, ClientPoints
<1>2. PortInv' /\ BoundInv'
  BY DEF Inv, PortInv, BoundInv, FindPort
<1>3. \A b \in Client : ClientInv(b)'
  BY <1>d DEF Inv, ClientInv
<1>4. ASSUME NEW e \in Dll, NEW i \in 1 .. Len(queue[e])
      PROVE  bound[queue[e][i].from] = e /\ reply[queue[e][i].from] = "none"
             /\ cpc'[queue[e][i].from] = cpc[queue[e][i].from]
             /\ Awaited(queue[e][i])
  BY <1>d, <1>f DEF Inv, MsgInv, Awaited
<1>5. ASSUME NEW e \in Dll, NEW i \in 1 .. Len(queue'[e])
      PROVE  bound'[queue'[e][i].from] = e /\ Awaited(queue[e][i])'
  <2>1. CASE e = d /\ i = n + 1
    <3>1. queue'[e][i].from = c /\ queue'[e][i].type = type
      BY <1>a, <1>c, <2>1
    <3> QED
      BY <1>d, <2>1, <3>1 DEF Awaited
  <2>2. CASE ~(e = d /\ i = n + 1)
    <3>1. i \in 1 .. Len(queue[e]) /\ queue'[e][i] = queue[e][i]
      <4>1. CASE e = d
        BY <1>b, <1>c, <2>2, <4>1 DEF n
      <4>2. CASE e # d
        BY <1>b, <4>2
      <4> QED
        BY <4>1, <4>2
    <3> QED
      BY <1>4, <3>1 DEF Awaited
  <2> QED
    BY <2>1, <2>2
<1>6. ASSUME NEW e \in Dll, NEW i \in 1 .. Len(queue'[e]), NEW j \in 1 .. Len(queue'[e]),
             queue'[e][i].from = queue'[e][j].from
      PROVE  i = j
  <2>1. CASE e = d
    <3>1. \A k \in 1 .. n : queue'[d][k].from = queue[d][k].from /\ queue[d][k].from # c
      BY <1>c, <1>f DEF n
    <3>2. queue'[d][n + 1].from = c
      BY <1>a, <1>c
    <3>3. \A k, l \in 1 .. n : queue[d][k].from = queue[d][l].from => k = l
      BY DEF Inv, MsgInv, n
    <3> QED
      BY <1>b, <1>c, <1>6, <2>1, <3>1, <3>2, <3>3
  <2>2. CASE e # d
    BY <1>b, <1>6, <2>2 DEF Inv, MsgInv
  <2> QED
    BY <2>1, <2>2
<1>7. \A e \in Dll, b \in Client \ {c} : Waiting(e, b)' <=> Waiting(e, b)
  <2> SUFFICES ASSUME NEW e \in Dll, NEW b \in Client \ {c}
               PROVE  Waiting(e, b)' <=> Waiting(e, b)
    OBVIOUS
  <2>1. CASE e = d
    <3>1. \A i \in 1 .. n : queue'[d][i].from = queue[d][i].from
      BY <1>c
    <3>2. queue'[d][n + 1].from # b
      BY <1>a, <1>c
    <3>3. 1 .. Len(queue'[d]) = 1 .. n \cup {n + 1}
      BY <1>b, <1>c
    <3> QED
      BY <2>1, <3>1, <3>2, <3>3 DEF Waiting, n
  <2>2. CASE e # d
    BY <1>b, <2>2 DEF Waiting
  <2> QED
    BY <2>1, <2>2
<1>8. ASSUME NEW e \in Dll, dpc[e] = "reply"
      PROVE  /\ Awaited(hand[e])' /\ ~Waiting(e, hand[e].from)'
             /\ hand[e] \in Message /\ bound[hand[e].from] = e
  <2>1. /\ hand[e].from \in Client \ {c} /\ Awaited(hand[e]) /\ ~Waiting(e, hand[e].from)
        /\ hand[e] \in Message /\ bound[hand[e].from] = e
    BY <1>e, <1>8 DEF Inv, MsgInv, Message, Taken
  <2>2. ~Waiting(e, hand[e].from)'
    <3>1. hand' = hand
      OBVIOUS
    <3>2. \A b \in Client \ {c} : ~Waiting(e, b) => \A i \in 1 .. Len(queue'[e]) : queue'[e][i].from # b
      BY <1>7 DEF Waiting
    <3> QED
      BY <2>1, <3>1, <3>2 DEF Waiting
  <2> QED
    BY <1>d, <2>1, <2>2 DEF Awaited
<1>9. MsgInv'
  <2>1. \A e \in Dll : queue'[e] # <<>> => dpc[e] \in Open
    BY <1>b DEF Inv, MsgInv
  <2> QED
    BY <1>5, <1>6, <1>8, <2>1 DEF MsgInv
<1>10. Waiting(d, c)'
  <2>1. n + 1 \in 1 .. Len(queue'[d]) /\ queue'[d][n + 1].from = c
    BY <1>a, <1>b, <1>c
  <2> QED
    BY <2>1 DEF Waiting
<1>11. CountInv'
  <2>1. \A e \in Dll, b \in Client \ {c} : HasOpen(b, e)' <=> HasOpen(b, e)
    BY <1>d, <1>7 DEF HasOpen, Taken
  <2>2. \A e \in Dll : HasOpen(c, e)' <=> HasOpen(c, e)
    BY <1>d, <1>e, <1>10 DEF HasOpen, Taken
  <2>3. \A e \in Dll : Holders(e)' = Holders(e)
    BY <2>1, <2>2, SameHolders
  <2> QED
    BY <2>3 DEF Inv, CountInv
<1> QED
  BY <1>1, <1>2, <1>3, <1>9, <1>11 DEF Inv

\* PutMsg of a program that is bound to d, to a port that is there or that
\* has been deleted.
LEMMA SendStep ==
  ASSUME Inv, NEW c \in Client, SendOpen(c) \/ SendQuery(c) \/ SendClose(c)
  PROVE  Inv'
<1>a. ClientTypes /\ ClientInv(c)
  BY TypeParts DEF Inv
<1>1. PICK d \in Dll : bound[c] = d
  BY <1>a DEF SendOpen, SendQuery, SendClose, Send, At, ClientInv, ClientTypes
<1>2. ASSUME dpc[d] \in {"deinit", "gone"}, NEW type, NEW from, NEW to, Send(c, from, type, to)
      PROVE  UNCHANGED dllVars
  BY <1>1, <1>2 DEF Send, PutMsg, dllVars
<1>3. ASSUME dpc[d] \notin {"deinit", "gone"}, NEW type, NEW from, NEW to, Send(c, from, type, to)
      PROVE  /\ dpc[d] \in Open
             /\ queue' = [queue EXCEPT ![d] = Append(@, [type |-> type, from |-> c])]
             /\ cpc' = [cpc EXCEPT ![c] = to] /\ cpc[c] = from
             /\ UNCHANGED <<foreign, ports, dpc, opencount, expunge, hand,
                            call, use, handles, bound, tries, reply, leaks>>
  <2>1. dpc[d] \in Open
    <3>1. dpc[d] \notin {"unborn", "start"}
      BY <1>1, DllAssumption DEF Inv, BoundInv
    <3> QED
      BY <1>3, <3>1 DEF Inv, Types, Open, Loop
  <2> QED
    BY <1>1, <1>3, <2>1 DEF Send, PutMsg, At, Goto
<1>4. CASE SendOpen(c)
  <2>1. Send(c, "put_open", "open", "opening")
    BY <1>4 DEF SendOpen
  <2>2. /\ cpc[c] = "put_open" /\ cpc'[c] = "opening" /\ reply[c] = "none" /\ use[c] = 0
        /\ UNCHANGED <<foreign, use, handles, bound, reply>>
    BY <1>a, <2>1 DEF Send, At, Goto, ClientInv, ClientTypes
  <2>3. ClientInv(c)'
    BY <1>a, <2>2 DEF ClientInv
  <2>4. CASE dpc[d] \in {"deinit", "gone"}
    <3>1. UNCHANGED dllVars
      BY <1>2, <2>1, <2>4
    <3>2. UNCHANGED <<foreign, ports, leaks, call, tries>> /\ cpc' = [cpc EXCEPT ![c] = "opening"]
      BY <2>1 DEF Send, Goto
    <3>3. Types'
      BY <1>a, <2>2, <3>1, <3>2 DEF Inv, Types, dllVars, ClientTypes, ClientPoints
    <3>4. \A e \in Dll : ~Waiting(e, c) /\ ~Taken(e, c)
      BY <2>2, NoMessageOf
    <3>5. \A e \in Dll : ~HasOpen(c, e) /\ ~HasOpen(c, e)'
      BY <2>2, <3>1, <3>4 DEF HasOpen, Taken, dllVars
    <3>6. OthersKeep(c)
      BY <1>a, <2>2, <3>2 DEF OthersKeep, ClientTypes
    <3>7. Alone(c)
      BY <2>2, <2>3, <3>1, <3>2, <3>4, <3>5, <3>6 DEF Alone, Own, MessageSees
    <3> QED
      BY <3>3, <3>7, AloneInv
  <2>5. CASE dpc[d] \notin {"deinit", "gone"}
    <3>1. Sends(c, d, "open", "opening")
      BY <1>1, <1>3, <2>1, <2>2, <2>5 DEF Sends
    <3> QED
      BY <2>3, <3>1, SentInv
  <2> QED
    BY <2>4, <2>5
<1>5. CASE SendQuery(c)
  <2>1. Send(c, "query", "query", "querying")
    BY <1>5 DEF SendQuery
  <2>2. /\ cpc[c] = "query" /\ cpc'[c] = "querying" /\ reply[c] = "none" /\ use[c] > 0
        /\ UNCHANGED <<foreign, use, handles, bound, reply>>
    BY <1>a, <2>1 DEF Send, At, Goto, ClientInv, ClientTypes
  <2>3. ClientInv(c)'
    BY <1>a, <2>2 DEF ClientInv
  <2>4. dpc[d] \notin {"deinit", "gone"}
    <3>1. HasOpen(c, d)
      BY <1>1, <2>2 DEF HasOpen
    <3> QED
      BY <3>1, HeldStays DEF Loop
  <2>5. Sends(c, d, "query", "querying")
    BY <1>1, <1>3, <2>1, <2>2, <2>4 DEF Sends
  <2> QED
    BY <2>3, <2>5, SentInv
<1>6. CASE SendClose(c)
  <2>1. Send(c, "put_close", "close", "closing")
    BY <1>6 DEF SendClose
  <2>2. /\ cpc[c] = "put_close" /\ cpc'[c] = "closing" /\ reply[c] = "none" /\ use[c] = 0
        /\ UNCHANGED <<foreign, use, handles, bound, reply>>
    BY <1>a, <2>1 DEF Send, At, Goto, ClientInv, ClientTypes
  <2>3. ClientInv(c)'
    BY <1>a, <2>2 DEF ClientInv
  <2>4. dpc[d] \notin {"deinit", "gone"}
    <3>1. HasOpen(c, d)
      BY <1>1, <2>2 DEF HasOpen
    <3> QED
      BY <3>1, HeldStays DEF Loop
  <2>5. Sends(c, d, "close", "closing")
    BY <1>1, <1>3, <2>1, <2>2, <2>4 DEF Sends
  <2> QED
    BY <2>3, <2>5, SentInv
<1> QED
  BY <1>4, <1>5, <1>6

\* Every step of a program keeps the invariant.
LEMMA ClientStepInv ==
  ASSUME Inv, NEW c \in Client, ClientStep(c)
  PROVE  Inv'
<1>1. StartClose(c) => \/ At(c, "close") /\ FindPort = bound[c] /\ CloseFindsPort(c)
                       \/ At(c, "close") /\ CloseFails(c)
  BY Zenon DEF StartClose
<1> QED
  BY <1>1, OwnStepInv, CloseFailsInv, LaunchInv, SendStep, Zenon DEF ClientStep, InCall, OwnStep

-----------------------------------------------------------------------------
(***************************************************************************)
(* Steps of a process                                                      *)
(***************************************************************************)
\* A step that only moves the process, in its loop or outside.
Quiet(d, p) ==
  /\ dpc' = [dpc EXCEPT ![d] = p]
  /\ p \in {"gone", "get", "wait", "delete"}
  /\ dpc[d] # "reply"
  /\ dpc[d] \in Open <=> p \in Open
  /\ p \notin Loop => opencount[d] = 0
  /\ UNCHANGED <<foreign, ports, opencount, expunge, queue, hand, clientVars, leaks>>

\* Such a step keeps the invariant.
LEMMA QuietInv ==
  ASSUME Inv, NEW d \in Dll, NEW p, Quiet(d, p)
  PROVE  Inv'
<1>a. /\ UNCHANGED <<foreign, ports, opencount, expunge, queue, hand, leaks,
                     cpc, call, use, handles, bound, tries, reply>>
      /\ dpc'[d] = p /\ \A e \in Dll \ {d} : dpc'[e] = dpc[e]
      /\ dpc[d] # "reply" /\ p \in {"gone", "get", "wait", "delete"}
      /\ dpc[d] \in Open <=> p \in Open
  BY DEF Quiet, clientVars, Inv, Types
<1>1. Types'
  BY <1>a DEF Quiet, Inv, Types, Loop
<1>2. PortInv'
  BY <1>a DEF Inv, PortInv
<1>3. BoundInv'
  <2>1. FindPort' = FindPort /\ bound' = bound
    BY <1>a DEF FindPort
  <2> SUFFICES ASSUME NEW c \in Client, bound[c] # NoDll
               PROVE  /\ dpc'[bound[c]] \notin {"unborn", "start"}
                      /\ dpc'[bound[c]] \in Open => FindPort = bound[c]
    BY <2>1 DEF BoundInv
  <2>2. bound[c] \in Dll
    BY DEF Inv, Types
  <2>3. /\ dpc[bound[c]] \notin {"unborn", "start"}
        /\ dpc[bound[c]] \in Open => FindPort = bound[c]
    BY DEF Inv, BoundInv
  <2>4. CASE bound[c] = d
    BY <1>a, <2>3, <2>4
  <2>5. CASE bound[c] # d
    BY <1>a, <2>2, <2>3, <2>5
  <2> QED
    BY <2>4, <2>5
<1>4. \A c \in Client : ClientInv(c)'
  BY <1>a DEF Inv, ClientInv
<1>5. MsgInv'
  <2>1. \A e \in Dll : (dpc'[e] = "reply" => dpc[e] = "reply") /\ (dpc[e] \in Open => dpc'[e] \in Open)
    BY <1>a
  <2> QED
    BY <1>a, <2>1 DEF Inv, MsgInv, Awaited, Waiting
<1>6. CountInv'
  <2>1. \A e \in Dll, b \in Client : HasOpen(b, e)' <=> HasOpen(b, e)
    BY <1>a DEF HasOpen, Waiting, Taken
  <2>2. \A e \in Dll : Holders(e)' = Holders(e)
    BY <2>1, SameHolders
  <2> QED
    BY <1>a, <2>2 DEF Quiet, Inv, CountInv
<1> QED
  BY <1>1, <1>2, <1>3, <1>4, <1>5, <1>6 DEF Inv

\* The steps of a process that are quiet ones.
LEMMA QuietSteps ==
  ASSUME Inv, NEW d \in Dll, StartFails(d) \/ NoMsg(d) \/ WaitPort(d)
  PROVE  Inv'
<1>a. \A e \in Dll : expunge[e] \/ dpc[e] \notin Loop => opencount[e] = 0
  BY DEF Inv, CountInv
<1>1. StartFails(d) => Quiet(d, "gone")
  BY <1>a DEF StartFails, DllGoto, Quiet, Open, Loop
<1>2. WaitPort(d) => Quiet(d, "get")
  BY DEF WaitPort, DllGoto, Quiet, Open, Loop
<1>3. NoMsg(d) => Quiet(d, "delete") \/ Quiet(d, "wait")
  BY <1>a DEF NoMsg, DllGoto, Quiet, Open, Loop
<1> QED
  BY <1>1, <1>2, <1>3, QuietInv

\* DLL_DeInit comes when nobody can find the process.
LEMMA DeInitInv ==
  ASSUME Inv, NEW d \in Dll, DeInit(d)
  PROVE  Inv'
<1>1. opencount[d] = 0
  BY DEF DeInit, Inv, CountInv, Loop
<1>2. Quiet(d, "gone")
  BY <1>1 DEF DeInit, DllGoto, Quiet, Open, Loop
<1> QED
  BY <1>2, QuietInv

\* A port is added at the end: what FindPort answers stays.
LEMMA CreatePortInv ==
  ASSUME Inv, NEW d \in Dll, CreatePort(d)
  PROVE  Inv'
<1>a. /\ dpc[d] = "start" /\ ports' = Append(ports, d)
      /\ dpc' = [dpc EXCEPT ![d] = "get"]
      /\ UNCHANGED <<foreign, opencount, expunge, queue, hand, leaks,
                     cpc, call, use, handles, bound, tries, reply>>
  BY DEF CreatePort, DllGoto, clientVars
<1>b. dpc'[d] = "get" /\ \A e \in Dll \ {d} : dpc'[e] = dpc[e]
  BY <1>a DEF Inv, Types
<1>c. /\ ports \in Seq(Dll) /\ Len(ports) \in Nat
      /\ Len(ports') = Len(ports) + 1 /\ ports'[Len(ports) + 1] = d
      /\ \A i \in 1 .. Len(ports) : ports'[i] = ports[i]
  <2>1. ports \in Seq(Dll)
    BY DEF Inv, Types
  <2> QED
    BY <1>a, <2>1
<1>d. 1 .. Len(ports') = 1 .. Len(ports) \cup {Len(ports) + 1}
  BY <1>c
<1>e. \A i \in 1 .. Len(ports) : ports[i] # d
  BY <1>a DEF Inv, PortInv, Open, Loop
<1>1. Types'
  <2>1. ports' \in Seq(Dll)
    BY <1>a, <1>c
  <2> QED
    BY <1>a, <2>1 DEF Inv, Types, Loop
<1>2. PortInv'
  <2>1. \A i, j \in 1 .. Len(ports') : ports'[i] = ports'[j] => i = j
    BY <1>c, <1>d, <1>e DEF Inv, PortInv
  <2>2. \A e \in Dll : (\E i \in 1 .. Len(ports') : ports'[i] = e)
                         <=> (\E i \in 1 .. Len(ports) : ports[i] = e) \/ e = d
    BY <1>c, <1>d
  <2>3. \A e \in Dll : dpc'[e] \in Open <=> dpc[e] \in Open \/ e = d
    BY <1>b DEF Open, Loop
  <2> QED
    BY <2>1, <2>2, <2>3 DEF Inv, PortInv
<1>3. BoundInv'
  <2>1. FindPort # NoDll => FindPort' = FindPort
    <3>1. ports # <<>> => Head(Append(ports, d)) = Head(ports) /\ Append(ports, d) # <<>>
      BY <1>c
    <3> QED
      BY <1>a, <3>1 DEF FindPort
  <2>2. \A c \in Client : bound[c] # NoDll => bound[c] # d
    BY <1>a DEF Inv, BoundInv
  <2>3. \A c \in Client : bound[c] # NoDll => dpc'[bound[c]] = dpc[bound[c]]
    BY <1>b, <2>2 DEF Inv, Types
  <2> QED
    BY <1>a, <2>1, <2>3 DEF Inv, BoundInv
<1>4. \A c \in Client : ClientInv(c)'
  BY <1>a DEF Inv, ClientInv
<1>5. MsgInv'
  <2>1. \A e \in Dll : (dpc'[e] = "reply" => dpc[e] = "reply") /\ (dpc[e] \in Open => dpc'[e] \in Open)
    BY <1>b DEF Open, Loop
  <2> QED
    BY <1>a, <2>1 DEF Inv, MsgInv, Awaited, Waiting
<1>6. CountInv'
  <2>1. \A e \in Dll, b \in Client : HasOpen(b, e)' <=> HasOpen(b, e)
    BY <1>a, <1>b DEF HasOpen, Waiting, Taken
  <2>2. \A e \in Dll : Holders(e)' = Holders(e)
    BY <2>1, SameHolders
  <2>3. \A e \in Dll : dpc'[e] \notin Loop => dpc[e] \notin Loop
    BY <1>b DEF Loop
  <2> QED
    BY <1>a, <2>2, <2>3 DEF Inv, CountInv
<1> QED
  BY <1>1, <1>2, <1>3, <1>4, <1>5, <1>6 DEF Inv

\* GetMsg takes the oldest message from the port, and counts it.
LEMMA GetMsgInv ==
  ASSUME Inv, NEW d \in Dll, GetMsg(d)
  PROVE  Inv'
<1>a. /\ ClientTypes /\ DllTypes
      /\ dpc[d] = "get" /\ queue[d] # <<>> /\ queue[d] \in Seq(Message)
  BY TypeParts DEF Inv, GetMsg, DllTypes
<1>0. /\ Len(queue[d]) \in Nat \ {0} /\ 1 \in 1 .. Len(queue[d])
      /\ Head(queue[d]) = queue[d][1]
  BY <1>a
<1>1. PICK m \in Message : queue[d][1] = m
  BY <1>a, <1>0, SenderIsClient DEF Inv
<1>2. PICK c \in Client : m.from = c
  BY DEF Message
<1>b. /\ UNCHANGED <<foreign, ports, leaks, cpc, call, use, handles, bound, tries, reply>>
      /\ hand' = [hand EXCEPT ![d] = m]
      /\ dpc' = [dpc EXCEPT ![d] = "reply"]
      /\ queue' = [queue EXCEPT ![d] = Tail(@)]
      /\ \/ m.type = "open" /\ HandleOpen(d, c)
         \/ m.type = "close" /\ HandleClose(d)
         \/ m.type = "query" /\ UNCHANGED <<opencount, expunge>>
  BY <1>0, <1>1, <1>2 DEF GetMsg, DllGoto, clientVars
<1>c. /\ hand'[d] = m /\ dpc'[d] = "reply" /\ queue'[d] = Tail(queue[d])
      /\ \A e \in Dll \ {d} : hand'[e] = hand[e] /\ dpc'[e] = dpc[e] /\ queue'[e] = queue[e]
  BY <1>a, <1>b DEF DllTypes
<1>d. /\ queue'[d] \in Seq(Message) /\ Len(queue'[d]) = Len(queue[d]) - 1
      /\ \A i \in 1 .. Len(queue'[d]) : i + 1 \in 1 .. Len(queue[d]) /\ queue'[d][i] = queue[d][i + 1]
  BY <1>a, <1>0, <1>c
<1>e. /\ bound[c] = d /\ Awaited(m) /\ ClientInv(c) /\ use[c] \in 0 .. MaxUse /\ reply[c] = "none"
      /\ Waiting(d, c)
  BY <1>a, <1>0, <1>1, <1>2 DEF Inv, MsgInv, Waiting, Awaited, ClientTypes
<1>f. \A i \in 1 .. Len(queue'[d]) : queue'[d][i].from # c
  <2> SUFFICES ASSUME NEW i \in 1 .. Len(queue'[d]), queue'[d][i].from = c PROVE FALSE
    OBVIOUS
  <2>1. queue[d][i + 1].from = queue[d][1].from /\ i + 1 \in 1 .. Len(queue[d])
    BY <1>1, <1>2, <1>d
  <2>2. i + 1 = 1
    BY <1>0, <2>1 DEF Inv, MsgInv
  <2> QED
    BY <2>2
<1>g. ~Waiting(d, c)' /\ Taken(d, c)'
  BY <1>2, <1>c, <1>f DEF Waiting, Taken
<1>h. ASSUME NEW b \in Client \ {c}
      PROVE  (Waiting(d, b)' <=> Waiting(d, b)) /\ ~Taken(d, b) /\ ~Taken(d, b)'
  <2>1. ASSUME Waiting(d, b) PROVE Waiting(d, b)'
    <3>1. PICK j \in 1 .. Len(queue[d]) : queue[d][j].from = b
      BY <2>1 DEF Waiting
    <3>2. j # 1
      BY <1>1, <1>2, <3>1
    <3>3. /\ j - 1 \in 1 .. Len(queue'[d]) /\ (j - 1) + 1 = j
      BY <1>0, <1>d, <3>2
    <3>4. queue'[d][j - 1] = queue[d][j]
      BY <1>d, <3>3
    <3> QED
      BY <3>1, <3>3, <3>4 DEF Waiting
  <2>2. ASSUME Waiting(d, b)' PROVE Waiting(d, b)
    BY <1>d, <2>2 DEF Waiting
  <2>3. ~Taken(d, b) /\ ~Taken(d, b)'
    BY <1>2, <1>a, <1>c DEF Taken
  <2> QED
    BY <2>1, <2>2, <2>3
<1>i. ASSUME NEW b \in Client, NEW e \in Dll, e # d \/ b # c
      PROVE  HasOpen(b, e)' <=> HasOpen(b, e)
  <2>1. CASE e # d
    BY <1>b, <1>c, <2>1 DEF HasOpen, Waiting, Taken
  <2>2. CASE e = d
    <3>1. (Waiting(d, b)' <=> Waiting(d, b)) /\ ~Taken(d, b) /\ ~Taken(d, b)'
      BY <1>h, <1>i, <2>2
    <3> QED
      BY <1>b, <2>2, <3>1 DEF HasOpen
  <2> QED
    BY <2>1, <2>2
<1>3. Types'
  <2>1. opencount' \in [Dll -> Int] /\ expunge' \in [Dll -> BOOLEAN]
    <3>1. opencount' \in [Dll -> Int]
      <4>1. \/ opencount' = opencount
            \/ opencount' = [opencount EXCEPT ![d] = @ + 1]
            \/ opencount' = [opencount EXCEPT ![d] = @ - 1]
        BY <1>b, Zenon DEF HandleOpen, HandleClose
      <4> QED
        BY <1>a, <4>1 DEF DllTypes
    <3>2. expunge' \in [Dll -> BOOLEAN]
      <4>1. \/ expunge' = expunge
            \/ expunge' = [expunge EXCEPT ![d] = @ \/ opencount[d] = 0]
            \/ expunge' = [expunge EXCEPT ![d] = FALSE]
            \/ expunge' = [expunge EXCEPT ![d] = @ \/ LastClose(d)]
        BY <1>b, Zenon DEF HandleOpen, HandleClose
      <4> QED
        BY <1>a, <4>1 DEF DllTypes
    <3> QED
      BY <3>1, <3>2
  <2>2. DllTypes'
    BY <1>a, <1>b, <1>c, <1>d, <2>1 DEF DllTypes, Loop
  <2> QED
    BY <1>b, <2>2 DEF Inv, Types, DllTypes
<1>4. PortInv' /\ BoundInv'
  <2>1. \A e \in Dll : /\ dpc'[e] \in Open <=> dpc[e] \in Open
                       /\ dpc'[e] \in {"unborn", "start"} <=> dpc[e] \in {"unborn", "start"}
    BY <1>a, <1>c DEF Open, Loop
  <2>2. PortInv'
    BY <1>b, <2>1 DEF Inv, PortInv
  <2>3. BoundInv'
    <3>1. FindPort' = FindPort
      BY <1>b DEF FindPort
    <3>2. bound' = bound /\ \A b \in Client : bound[b] # NoDll => bound[b] \in Dll
      BY <1>a, <1>b DEF ClientTypes
    <3> QED
      BY <2>1, <3>1, <3>2 DEF Inv, BoundInv
  <2> QED
    BY <2>2, <2>3
<1>5. \A b \in Client : ClientInv(b)'
  BY <1>b DEF Inv, ClientInv
<1>6. MsgInv'
  <2>1. ASSUME NEW e \in Dll, NEW i \in 1 .. Len(queue'[e])
        PROVE  bound'[queue'[e][i].from] = e /\ Awaited(queue[e][i])'
    <3>1. \E j \in 1 .. Len(queue[e]) : queue'[e][i] = queue[e][j]
      BY <1>c, <1>d
    <3>2. PICK j \in 1 .. Len(queue[e]) : queue'[e][i] = queue[e][j]
      BY <3>1
    <3>3. bound[queue[e][j].from] = e /\ Awaited(queue[e][j])
      BY DEF Inv, MsgInv
    <3> QED
      BY <1>b, <3>2, <3>3 DEF Awaited
  <2>2. ASSUME NEW e \in Dll, NEW i \in 1 .. Len(queue'[e]), NEW j \in 1 .. Len(queue'[e]),
               queue'[e][i].from = queue'[e][j].from
        PROVE  i = j
    <3>1. CASE e = d
      <4>1. /\ i + 1 \in 1 .. Len(queue[d]) /\ j + 1 \in 1 .. Len(queue[d])
            /\ queue[d][i + 1].from = queue[d][j + 1].from
        BY <1>d, <2>2, <3>1
      <4>2. \A k, l \in 1 .. Len(queue[d]) : queue[d][k].from = queue[d][l].from => k = l
        BY DEF Inv, MsgInv
      <4>3. i + 1 = j + 1
        BY <4>1, <4>2
      <4> QED
        BY <1>d, <3>1, <4>3
    <3>2. CASE e # d
      BY <1>c, <2>2, <3>2 DEF Inv, MsgInv
    <3> QED
      BY <3>1, <3>2
  <2>3. ASSUME NEW e \in Dll, dpc'[e] = "reply"
        PROVE  /\ hand'[e] \in Message /\ bound'[hand'[e].from] = e
               /\ Awaited(hand[e])' /\ ~Waiting(e, hand[e].from)'
    <3>1. CASE e = d
      <4>1. hand'[e] = m
        BY <1>c, <3>1
      <4> QED
        BY <1>2, <1>b, <1>e, <1>g, <3>1, <4>1 DEF Awaited, Waiting
    <3>2. CASE e # d
      BY <1>b, <1>c, <2>3, <3>2 DEF Inv, MsgInv, Awaited, Waiting
    <3> QED
      BY <3>1, <3>2
  <2>4. \A e \in Dll : queue'[e] # <<>> => dpc'[e] \in Open
    BY <1>c DEF Inv, MsgInv, Open, Loop
  <2> QED
    BY <2>1, <2>2, <2>3, <2>4 DEF MsgInv
<1>7. \A e \in Dll \ {d} : Holders(e)' = Holders(e) /\ opencount'[e] = opencount[e] /\ expunge'[e] = expunge[e]
  <2>1. ASSUME NEW e \in Dll \ {d} PROVE Holders(e)' = Holders(e)
    BY <1>i, SameHolders
  <2>2. \A e \in Dll \ {d} : opencount'[e] = opencount[e] /\ expunge'[e] = expunge[e]
    BY <1>a, <1>b DEF HandleOpen, HandleClose, DllTypes
  <2> QED
    BY <2>1, <2>2
<1>k. /\ opencount[d] = Cardinality(Holders(d)) + leaks[d] /\ opencount[d] \in Int
      /\ expunge[d] => opencount[d] = 0
      /\ IsFiniteSet(Holders(d)) /\ Cardinality(Holders(d)) \in Nat /\ leaks[d] \in Nat
  BY <1>a, HoldersFinite DEF Inv, CountInv, DllTypes, Types
<1>8. /\ opencount'[d] = Cardinality(Holders(d)') + leaks[d]
      /\ expunge'[d] => opencount'[d] = 0
  <2>1. CASE m.type = "open" /\ c \notin foreign
    <3>1. /\ cpc[c] = "opening" /\ use[c] = 0
          /\ opencount'[d] = opencount[d] + 1 /\ expunge'[d] = FALSE
      BY <1>2, <1>a, <1>b, <1>e, <2>1 DEF Awaited, ClientInv, HandleOpen, DllTypes
    <3>2. ~HasOpen(c, d) /\ HasOpen(c, d)'
      BY <1>a, <1>b, <1>e, <1>g, <2>1, <3>1 DEF HasOpen, Taken
    <3>3. Holders(d)' = Holders(d) \cup {c} /\ c \notin Holders(d)
      BY <1>i, <3>2 DEF Holders
    <3>4. Cardinality(Holders(d)') = Cardinality(Holders(d)) + 1
      BY <1>k, <3>3, FS_AddElement
    <3> QED
      BY <1>k, <3>1, <3>4
  <2>2. CASE m.type = "open" /\ c \in foreign
    <3>1. /\ cpc[c] = "opening" /\ use[c] = 0
          /\ opencount'[d] = opencount[d] /\ (expunge'[d] => expunge[d] \/ opencount[d] = 0)
      BY <1>2, <1>a, <1>b, <1>e, <2>2 DEF Awaited, ClientInv, HandleOpen, DllTypes
    <3>2. ~HasOpen(c, d) /\ ~HasOpen(c, d)'
      BY <1>b, <1>e, <2>2, <3>1 DEF HasOpen
    <3>3. Holders(d)' = Holders(d)
      BY <1>i, <3>2 DEF Holders
    <3> QED
      BY <1>k, <3>1, <3>3
  <2>3. CASE m.type = "close"
    <3>1. /\ cpc[c] = "closing" /\ use[c] = 0
          /\ opencount'[d] = opencount[d] - 1
          /\ expunge'[d] => expunge[d] \/ opencount[d] <= 1
      BY <1>2, <1>a, <1>b, <1>e, <2>3 DEF Awaited, ClientInv, HandleClose, LastClose, DllTypes
    <3>2. HasOpen(c, d) /\ ~HasOpen(c, d)'
      BY <1>b, <1>e, <1>g, <3>1 DEF HasOpen
    <3>3. Holders(d)' = Holders(d) \ {c} /\ c \in Holders(d)
      BY <1>i, <3>2 DEF Holders
    <3>4. Cardinality(Holders(d)') = Cardinality(Holders(d)) - 1
      BY <1>k, <3>3, FS_RemoveElement
    <3>5. ~expunge[d] /\ opencount[d] > 0
      BY <3>2, HeldStays
    <3> QED
      BY <1>k, <3>1, <3>4, <3>5
  <2>4. CASE m.type = "query"
    <3>1. cpc[c] = "querying" /\ opencount' = opencount /\ expunge' = expunge
      BY <1>2, <1>b, <1>e, <2>4 DEF Awaited
    <3>2. HasOpen(c, d) <=> HasOpen(c, d)'
      BY <1>b, <1>e, <3>1 DEF HasOpen
    <3>3. Holders(d)' = Holders(d)
      BY <1>i, <3>2, SameHolders
    <3> QED
      BY <1>k, <3>1, <3>3
  <2> QED
    BY <2>1, <2>2, <2>3, <2>4 DEF Message
<1>9. CountInv'
  BY <1>7, <1>8, <1>b, <1>c DEF Inv, CountInv, Loop
<1> QED
  BY <1>3, <1>4, <1>5, <1>6, <1>9 DEF Inv

\* ReplyMsg gives the sender its answer, and has nothing more of it.
LEMMA ReplyMsgInv ==
  ASSUME Inv, NEW d \in Dll, ReplyMsg(d)
  PROVE  Inv'
<1>a. ClientTypes /\ DllTypes /\ dpc[d] = "reply"
  BY TypeParts DEF Inv, ReplyMsg
<1>1. PICK m \in Message : hand[d] = m
  BY <1>a DEF Inv, MsgInv
<1>2. PICK c \in Client : m.from = c
  BY DEF Message
<1>3. PICK p \in {"get", "wait"} : dpc' = [dpc EXCEPT ![d] = p]
  BY DEF ReplyMsg, DllGoto, AfterReply
<1>4. PICK r \in {"ok", "refused"} :
        /\ reply' = [reply EXCEPT ![c] = r]
        /\ m.type = "open" /\ c \in foreign <=> r = "refused"
  BY <1>1, <1>2 DEF ReplyMsg, Answer
<1>b. /\ UNCHANGED <<foreign, ports, opencount, expunge, queue,
                     cpc, call, use, handles, bound, tries, leaks>>
      /\ hand' = [hand EXCEPT ![d] = NoMessage]
  BY DEF ReplyMsg
<1>c. /\ hand'[d] = NoMessage /\ dpc'[d] = p /\ reply'[c] = r
      /\ \A e \in Dll \ {d} : hand'[e] = hand[e] /\ dpc'[e] = dpc[e]
      /\ \A b \in Client \ {c} : reply'[b] = reply[b]
  BY <1>a, <1>b, <1>3, <1>4 DEF DllTypes, ClientTypes
<1>e. /\ bound[c] = d /\ Awaited(m) /\ ClientInv(c) /\ use[c] \in 0 .. MaxUse
      /\ reply[c] = "none" /\ ~Waiting(d, c) /\ Taken(d, c)
      /\ \/ m.type = "open" /\ cpc[c] = "opening"
         \/ m.type = "query" /\ cpc[c] = "querying"
         \/ m.type = "close" /\ cpc[c] = "closing"
  BY <1>a, <1>1, <1>2 DEF Inv, MsgInv, Taken, Awaited, ClientTypes
<1>f. \A e \in Dll : \A i \in 1 .. Len(queue[e]) : queue[e][i].from # c
  BY <1>e DEF Inv, MsgInv, Waiting
<1>g. \A e \in Dll \ {d} : ~Taken(e, c)
  BY <1>e DEF Inv, MsgInv, Taken
<1>5. Types'
  <2>1. DllTypes'
    BY <1>a, <1>b, <1>3 DEF DllTypes, Loop
  <2>2. reply' \in [Client -> {"none", "ok", "refused"}]
    BY <1>a, <1>4 DEF ClientTypes
  <2> QED
    BY <1>b, <2>1, <2>2 DEF Inv, Types, DllTypes
<1>6. PortInv' /\ BoundInv'
  <2>1. \A e \in Dll : /\ dpc'[e] \in Open <=> dpc[e] \in Open
                       /\ dpc'[e] \in {"unborn", "start"} <=> dpc[e] \in {"unborn", "start"}
    BY <1>a, <1>c DEF Open, Loop
  <2>2. PortInv'
    BY <1>b, <2>1 DEF Inv, PortInv
  <2>3. BoundInv'
    <3>1. FindPort' = FindPort
      BY <1>b DEF FindPort
    <3>2. bound' = bound /\ \A b \in Client : bound[b] # NoDll => bound[b] \in Dll
      BY <1>a, <1>b DEF ClientTypes
    <3> QED
      BY <2>1, <3>1, <3>2 DEF Inv, BoundInv
  <2> QED
    BY <2>2, <2>3
<1>7. \A b \in Client : ClientInv(b)'
  <2>1. ClientInv(c)'
    BY <1>b, <1>c, <1>e, <1>4 DEF ClientInv
  <2>2. \A b \in Client \ {c} : ClientInv(b)'
    BY <1>b, <1>c DEF Inv, ClientInv
  <2> QED
    BY <2>1, <2>2
<1>8. MsgInv'
  <2>1. ASSUME NEW e \in Dll, NEW i \in 1 .. Len(queue[e])
        PROVE  Awaited(queue[e][i])'
    <3>1. queue[e][i].from \in Client \ {c} /\ Awaited(queue[e][i])
      BY <1>f, SenderIsClient DEF Inv, MsgInv
    <3> QED
      BY <1>b, <1>c, <3>1 DEF Awaited
  <2>2. ASSUME NEW e \in Dll, dpc'[e] = "reply"
        PROVE  /\ hand'[e] \in Message /\ bound[hand'[e].from] = e
               /\ Awaited(hand[e])' /\ ~Waiting(e, hand[e].from)'
    <3>1. e # d /\ hand'[e] = hand[e] /\ dpc[e] = "reply"
      BY <1>c, <2>2
    <3>2. /\ hand[e] \in Message /\ bound[hand[e].from] = e
          /\ Awaited(hand[e]) /\ ~Waiting(e, hand[e].from)
      BY <3>1 DEF Inv, MsgInv
    <3>3. hand[e].from \in Client \ {c}
      BY <1>g, <3>1, <3>2 DEF Message, Taken
    <3> QED
      BY <1>b, <1>c, <3>1, <3>2, <3>3 DEF Awaited, Waiting
  <2>3. \A e \in Dll : dpc[e] \in Open => dpc'[e] \in Open
    BY <1>c DEF Open, Loop
  <2> QED
    BY <1>b, <2>1, <2>2, <2>3 DEF Inv, MsgInv
<1>9. CountInv'
  <2>1. ASSUME NEW b \in Client, NEW e \in Dll PROVE HasOpen(b, e)' <=> HasOpen(b, e)
    <3>1. Waiting(e, b)' <=> Waiting(e, b)
      BY <1>b DEF Waiting
    <3>2. CASE b # c
      <4>1. Taken(e, b)' <=> Taken(e, b)
        BY <1>1, <1>2, <1>a, <1>c, <3>2 DEF Taken
      <4> QED
        BY <1>b, <1>c, <3>1, <3>2, <4>1 DEF HasOpen
    <3>3. CASE b = c /\ e # d
      BY <1>b, <1>e, <3>3 DEF HasOpen
    <3>4. CASE b = c /\ e = d
      BY <1>b, <1>c, <1>e, <1>4, <3>1, <3>4 DEF HasOpen
    <3> QED
      BY <3>2, <3>3, <3>4
  <2>2. \A e \in Dll : Holders(e)' = Holders(e)
    BY <2>1, SameHolders
  <2>3. \A e \in Dll : dpc'[e] \notin Loop => dpc[e] \notin Loop
    BY <1>c DEF Loop
  <2> QED
    BY <1>b, <2>2, <2>3 DEF Inv, CountInv
<1> QED
  BY <1>5, <1>6, <1>7, <1>8, <1>9 DEF Inv

\* exec's Remove leaves the other elements of a list in their order.
LEMMA RemoveAtLemma ==
  ASSUME NEW S, NEW s \in Seq(S), NEW i \in 1..Len(s)
  PROVE  /\ RemoveAt(s, i) \in Seq(S)
         /\ Len(RemoveAt(s, i)) = Len(s) - 1
         /\ \A j \in 1..(Len(s) - 1) :
              RemoveAt(s, i)[j] = IF j < i THEN s[j] ELSE s[j + 1]
<1> DEFINE a == SubSeq(s, 1, i - 1)
           b == SubSeq(s, i + 1, Len(s))
<1>1. /\ a \in Seq(S) /\ Len(a) = i - 1
      /\ \A j \in 1..(i - 1) : a[j] = s[j]
  OBVIOUS
<1>2. /\ b \in Seq(S) /\ Len(b) = Len(s) - i
      /\ \A j \in 1..(Len(s) - i) : b[j] = s[i + j]
  OBVIOUS
<1>3. RemoveAt(s, i) = a \o b
  BY DEF RemoveAt
<1> HIDE DEF a, b
<1>4. /\ a \o b \in Seq(S)
      /\ Len(a \o b) = Len(a) + Len(b)
      /\ \A j \in 1..(Len(a) + Len(b)) :
           (a \o b)[j] = IF j <= Len(a) THEN a[j] ELSE b[j - Len(a)]
  BY <1>1, <1>2, ConcatProperties
<1>5. ASSUME NEW j \in 1..(Len(s) - 1)
      PROVE  (a \o b)[j] = IF j < i THEN s[j] ELSE s[j + 1]
  <2>1. CASE j < i
    BY <1>1, <1>2, <1>4, <2>1
  <2>2. CASE ~(j < i)
    <3>1. j - (i - 1) \in 1..(Len(s) - i) /\ i + (j - (i - 1)) = j + 1
      BY <2>2
    <3>2. j \in 1..(Len(a) + Len(b)) /\ ~(j <= Len(a))
      BY <1>1, <1>2, <2>2
    <3>3. (a \o b)[j] = b[j - (i - 1)]
      BY <1>1, <1>4, <3>2
    <3>4. b[j - (i - 1)] = s[j + 1]
      BY <1>2, <3>1
    <3> QED
      BY <2>2, <3>3, <3>4
  <2> QED
    BY <2>1, <2>2
<1>6. Len(a) + Len(b) = Len(s) - 1
  BY <1>1, <1>2
<1>7. /\ a \o b \in Seq(S)
      /\ Len(a \o b) = Len(s) - 1
      /\ \A j \in 1..(Len(s) - 1) : (a \o b)[j] = IF j < i THEN s[j] ELSE s[j + 1]
  BY <1>4, <1>5, <1>6, Zenon
<1> QED
  BY <1>3, <1>7, Zenon

\* RemPort of a port that is not the first leaves the first one.
LEMMA DeletePortInv ==
  ASSUME Inv, NEW d \in Dll, DeletePort(d)
  PROVE  Inv'
<1>a. /\ ClientTypes /\ DllTypes /\ ports \in Seq(Dll) /\ Len(ports) \in Nat
      /\ dpc[d] = "delete"
  BY TypeParts DEF Inv, DeletePort
<1>1. PICK i \in 1 .. Len(ports) : ports[i] = d /\ ports' = RemoveAt(ports, i)
  BY DEF DeletePort
<1>2. /\ ports' \in Seq(Dll) /\ Len(ports') = Len(ports) - 1
      /\ \A j \in 1 .. Len(ports) - 1 : ports'[j] = IF j < i THEN ports[j] ELSE ports[j + 1]
  BY <1>a, <1>1, RemoveAtLemma, Zenon
<1>b. /\ UNCHANGED <<foreign, opencount, expunge, hand, leaks,
                     cpc, call, use, handles, bound, tries, reply>>
      /\ queue' = [queue EXCEPT ![d] = <<>>]
      /\ dpc' = [dpc EXCEPT ![d] = "deinit"]
  BY DEF DeletePort, DllGoto, clientVars
<1>c. /\ queue'[d] = <<>> /\ Len(queue'[d]) = 0 /\ dpc'[d] = "deinit"
      /\ \A e \in Dll \ {d} : queue'[e] = queue[e] /\ dpc'[e] = dpc[e]
  BY <1>a, <1>b DEF DllTypes
<1>3. Types'
  <2>1. DllTypes'
    BY <1>a, <1>b DEF DllTypes, Loop
  <2> QED
    BY <1>b, <1>2, <2>1 DEF Inv, Types, DllTypes
<1>4. PortInv'
  <2>1. \A k, l \in 1 .. Len(ports) : ports[k] = ports[l] => k = l
    BY DEF Inv, PortInv
  <2>2. ASSUME NEW k \in 1 .. Len(ports'), NEW l \in 1 .. Len(ports'), ports'[k] = ports'[l]
        PROVE  k = l
    <3>1. CASE k < i /\ l < i
      BY <1>a, <1>2, <2>1, <2>2, <3>1
    <3>2. CASE k < i /\ ~(l < i)
      BY <1>a, <1>2, <2>1, <2>2, <3>2
    <3>3. CASE ~(k < i) /\ l < i
      BY <1>a, <1>2, <2>1, <2>2, <3>3
    <3>4. CASE ~(k < i) /\ ~(l < i)
      BY <1>a, <1>2, <2>1, <2>2, <3>4
    <3> QED
      BY <3>1, <3>2, <3>3, <3>4
  <2>3. ASSUME NEW e \in Dll \ {d}, NEW k \in 1 .. Len(ports), ports[k] = e
        PROVE  \E j \in 1 .. Len(ports') : ports'[j] = e
    <3>1. CASE k < i
      BY <1>a, <1>2, <2>3, <3>1
    <3>2. CASE k > i
      <4>1. k - 1 \in 1 .. Len(ports') /\ ports'[k - 1] = ports[k]
        BY <1>a, <1>2, <3>2
      <4> QED
        BY <2>3, <4>1
    <3> QED
      BY <1>1, <2>3, <3>1, <3>2
  <2>4. ASSUME NEW j \in 1 .. Len(ports')
        PROVE  ports'[j] # d /\ \E k \in 1 .. Len(ports) : ports[k] = ports'[j]
    <3>1. CASE j < i
      BY <1>a, <1>1, <1>2, <2>1, <3>1
    <3>2. CASE ~(j < i)
      BY <1>a, <1>1, <1>2, <2>1, <3>2
    <3> QED
      BY <3>1, <3>2
  <2>5. ASSUME NEW e \in Dll
        PROVE  (\E j \in 1 .. Len(ports') : ports'[j] = e) <=> dpc'[e] \in Open
    <3>1. CASE e = d
      BY <1>c, <2>4, <3>1 DEF Open, Loop
    <3>2. CASE e # d
      <4>1. (\E j \in 1 .. Len(ports) : ports[j] = e) <=> dpc[e] \in Open
        BY DEF Inv, PortInv
      <4> QED
        BY <1>c, <2>3, <2>4, <3>2, <4>1
    <3> QED
      BY <3>1, <3>2
  <2> QED
    BY <2>2, <2>5 DEF PortInv
<1>5. BoundInv'
  <2> SUFFICES ASSUME NEW c \in Client, bound[c] # NoDll
               PROVE  /\ dpc'[bound[c]] \notin {"unborn", "start"}
                      /\ dpc'[bound[c]] \in Open => FindPort' = bound[c]
    BY <1>b DEF BoundInv
  <2>1. PICK e \in Dll : bound[c] = e
    BY <1>a DEF ClientTypes
  <2>2. /\ dpc[e] \notin {"unborn", "start"}
        /\ dpc[e] \in Open => FindPort = e
    BY <2>1 DEF Inv, BoundInv
  <2>3. CASE e = d
    BY <1>c, <2>1, <2>3 DEF Open, Loop
  <2>4. CASE e # d
    <3>1. ASSUME dpc[e] \in Open PROVE FindPort' = e
      <4>1. FindPort = e /\ e # NoDll
        BY <2>2, <3>1, DllAssumption
      <4>2. ports # <<>> /\ Head(ports) = e
        BY <4>1 DEF FindPort
      <4>3. ports[1] = e
        BY <1>a, <4>2
      <4>4. i # 1 /\ Len(ports) - 1 \in Nat \ {0}
        BY <1>a, <1>1, <2>4, <4>3
      <4>5. ports'[1] = e
        BY <1>2, <4>3, <4>4
      <4>6. ports' # <<>> /\ Head(ports') = ports'[1]
        BY <1>2, <4>4
      <4> QED
        BY <4>5, <4>6 DEF FindPort
    <3> QED
      BY <1>c, <2>1, <2>2, <2>4, <3>1
  <2> QED
    BY <2>3, <2>4
<1>6. \A b \in Client : ClientInv(b)'
  BY <1>b DEF Inv, ClientInv
<1>7. MsgInv'
  <2>1. \A e \in Dll : \/ e = d
                       \/ queue'[e] = queue[e] /\ dpc'[e] = dpc[e]
    BY <1>c
  <2> QED
    BY <1>b, <1>c, <2>1 DEF Inv, MsgInv, Awaited, Waiting
<1>8. CountInv'
  <2>1. ASSUME NEW b \in Client, NEW e \in Dll PROVE HasOpen(b, e)' <=> HasOpen(b, e)
    <3>1. CASE e # d
      BY <1>b, <1>c, <3>1 DEF HasOpen, Waiting, Taken
    <3>2. CASE e = d
      <4>1. ~HasOpen(b, d)
        BY <1>a, HeldStays DEF Loop
      <4>2. ~Waiting(d, b)' /\ ~Taken(d, b)'
        BY <1>c DEF Waiting, Taken
      <4> QED
        BY <1>b, <3>2, <4>1, <4>2 DEF HasOpen
    <3> QED
      BY <3>1, <3>2
  <2>2. \A e \in Dll : Holders(e)' = Holders(e)
    BY <2>1, SameHolders
  <2>3. \A e \in Dll : dpc'[e] \notin Loop => dpc[e] \notin Loop
    BY <1>a, <1>c DEF Loop
  <2> QED
    BY <1>b, <2>2, <2>3 DEF Inv, CountInv
<1> QED
  BY <1>3, <1>4, <1>5, <1>6, <1>7, <1>8 DEF Inv

\* Every step of a process keeps the invariant.
LEMMA DllStepInv ==
  ASSUME Inv, NEW d \in Dll, DllStep(d)
  PROVE  Inv'
BY CreatePortInv, QuietSteps, GetMsgInv, ReplyMsgInv, DeletePortInv, DeInitInv, Zenon DEF DllStep

-----------------------------------------------------------------------------
(***************************************************************************)
(* What follows for every behavior                                         *)
(***************************************************************************)
\* Every step keeps the invariant.
LEMMA NextInv ==
  ASSUME Inv, [Next]_vars
  PROVE  Inv'
<1>1. CASE Next
  BY <1>1, ClientStepInv, DllStepInv, Zenon DEF Next
<1>2. CASE UNCHANGED vars
  <2>1. UNCHANGED <<foreign, ports, dpc, opencount, expunge, queue, hand,
                    cpc, call, use, handles, bound, tries, reply, leaks>>
    BY <1>2 DEF vars, dllVars, clientVars
  <2>2. \A c \in Client, d \in Dll : HasOpen(c, d)' <=> HasOpen(c, d)
    BY <2>1 DEF HasOpen, Waiting, Taken
  <2>3. \A d \in Dll : Holders(d)' = Holders(d)
    BY <2>2, SameHolders
  <2>4. Types' /\ PortInv' /\ BoundInv' /\ \A c \in Client : ClientInv(c)'
    BY <2>1 DEF Inv, Types, PortInv, BoundInv, FindPort, ClientInv
  <2>5. MsgInv'
    BY <2>1 DEF Inv, MsgInv, Awaited, Waiting
  <2>6. CountInv'
    BY <2>1, <2>3 DEF Inv, CountInv
  <2> QED
    BY <2>4, <2>5, <2>6 DEF Inv
<1> QED
  BY <1>1, <1>2

\* The invariant holds in every behavior.
LEMMA AlwaysInv == Spec => []Inv
BY InitInv, NextInv, PTL DEF Spec

\* Every variable keeps its type; above all the open count, which every close
\* decrements, never becomes negative.
THEOREM DllTypeCorrect == Spec => []TypeOK
<1>1. ASSUME Inv PROVE TypeOK
  <2>1. opencount \in [Dll -> Nat]
    <3>1. \A d \in Dll : opencount[d] \in Nat
      BY <1>1, HoldersFinite DEF Inv, CountInv, Types
    <3> QED
      BY <1>1, <3>1 DEF Inv, Types
  <2> QED
    BY <1>1, <2>1 DEF Inv, Types, TypeOK
<1> QED
  BY <1>1, AlwaysInv, PTL

\* The open count is the number of programs that have the process open, and
\* of the nodes that were lost.
THEOREM OpensAreCounted == Spec => []OpensCounted
<1>1. Inv => OpensCounted
  BY DEF Inv, CountInv, OpensCounted
<1> QED
  BY <1>1, AlwaysInv, PTL

\* A process does not leave its loop, nor mean to, as long as a program has
\* it open, and its port stays the one that FindPort answers.
THEOREM LoadedStaysHolds == Spec => []LoadedStays
<1>1. ASSUME Inv PROVE LoadedStays
  <2> SUFFICES ASSUME NEW c \in Client,
                      use[c] > 0 \/ cpc[c] \in {"query", "querying", "close", "put_close"}
               PROVE  /\ bound[c] \in Dll
                      /\ dpc[bound[c]] \in Loop
                      /\ ~expunge[bound[c]]
                      /\ FindPort = bound[c]
    BY DEF LoadedStays
  <2>1. /\ use[c] > 0 \/ cpc[c] \in {"close", "put_close"}
        /\ bound[c] # NoDll /\ bound[c] \in Dll \cup {NoDll}
    BY <1>1 DEF Inv, ClientInv, Types
  <2>2. PICK d \in Dll : bound[c] = d
    BY <2>1
  <2>3. HasOpen(c, d)
    BY <2>1, <2>2 DEF HasOpen
  <2> QED
    BY <1>1, <2>2, <2>3, HeldStays
<1> QED
  BY <1>1, AlwaysInv, PTL

\* A message that a process can take, or has taken, lies on the stack of a
\* program that is in the call that sent it.
THEOREM MessagesAreAlive == Spec => []MessagesAlive
<1>1. ASSUME Inv PROVE MessagesAlive
  <2> SUFFICES ASSUME NEW d \in Dll, NEW m \in Messages(d)
               PROVE  bound[m.from] = d /\ Awaited(m)
    BY DEF MessagesAlive
  <2>1. \/ \E i \in 1 .. Len(queue[d]) : m = queue[d][i]
        \/ m = hand[d] /\ dpc[d] = "reply"
    BY DEF Messages
  <2>2. CASE \E i \in 1 .. Len(queue[d]) : m = queue[d][i]
    BY <1>1, <2>2 DEF Inv, MsgInv
  <2>3. CASE m = hand[d] /\ dpc[d] = "reply"
    BY <1>1, <2>3 DEF Inv, MsgInv
  <2> QED
    BY <2>1, <2>2, <2>3
<1> QED
  BY <1>1, AlwaysInv, PTL

=============================================================================
