-------------------------- MODULE CommandLinkProofs --------------------------
(* The command link implements the service it promises, and acknowledges what *)
(* was published, for any number of connections, commands, repetitions and    *)
(* failures.                                                                  *)
EXTENDS CommandLink, SequenceTheorems, TLAPS

Frames == 1..MaxGiven
Command == [conn : Conns, seq : Frames]

(* What the proofs need of the types: the browser's counters, the streams and *)
(* the server's counters.                                                     *)
Typed ==
    /\ current \in 0..MaxConns /\ linked \in BOOLEAN
    /\ linked => current \in Conns
    /\ cmdSeq \in [Conns -> 0..MaxGiven] /\ lastAck \in [Conns -> 0..MaxGiven]
    /\ up \in [Conns -> Seq(Frames)]
    /\ lastSeq \in [Conns -> 0..MaxGiven]
    /\ bus \in Seq(Command)

(* Nothing is under way that was not given, and nothing was published beyond  *)
(* the number the server has noted.                                           *)
Given == \A c \in Conns : \A i \in DOMAIN up[c] : up[c][i] <= cmdSeq[c]
Noted == \A i \in DOMAIN bus : bus[i].seq <= lastSeq[bus[i].conn]

IInv == Typed /\ Given /\ Noted

-----------------------------------------------------------------------------
LEMMA SendInv ==
    ASSUME IInv, SendCommand
    PROVE  IInv'
<1>1. current \in Conns /\ cmdSeq[current] \in 0..MaxGiven /\ cmdSeq[current] < MaxGiven
  BY DEF SendCommand, IInv, Typed
<1> DEFINE s == cmdSeq[current] + 1
<1>2. s \in Frames /\ MaxGiven \in Nat
  BY <1>1, LinkAssumption DEF Frames
<1>3. cmdSeq' = [cmdSeq EXCEPT ![current] = s]
  BY DEF SendCommand
<1>4. cmdSeq'[current] = s
  BY <1>1, <1>3 DEF IInv, Typed
<1>5. up' = [up EXCEPT ![current] = Append(up[current], s)]
  BY <1>4 DEF SendCommand
<1>6. UNCHANGED <<current, linked, lastAck, lastSeq, bus>>
  BY DEF SendCommand, serverVars
<1>7. up[current] \in Seq(Frames)
  BY <1>1 DEF IInv, Typed
<1>8. /\ Append(up[current], s) \in Seq(Frames)
      /\ Len(Append(up[current], s)) = Len(up[current]) + 1
      /\ \A i \in 1..Len(up[current]) : Append(up[current], s)[i] = up[current][i]
      /\ Append(up[current], s)[Len(up[current]) + 1] = s
  BY <1>2, <1>7, AppendProperties
<1>9. Typed'
  BY <1>1, <1>2, <1>3, <1>5, <1>6, <1>8 DEF IInv, Typed, Frames
<1>10. Given'
  <2>1. ASSUME NEW c \in Conns, NEW i \in DOMAIN up'[c]
        PROVE  up'[c][i] <= cmdSeq'[c]
    <3>1. CASE c # current
      BY <1>1, <1>3, <1>5, <2>1, <3>1 DEF IInv, Typed, Given
    <3>2. CASE c = current
      <4>1. up'[c] = Append(up[current], s) /\ cmdSeq'[c] = s
        BY <1>1, <1>4, <1>5, <3>2 DEF IInv, Typed
      <4>2. i \in 1..(Len(up[current]) + 1) /\ Len(up[current]) \in Nat
        BY <1>7, <1>8, <2>1, <4>1
      <4>3. CASE i = Len(up[current]) + 1
        BY <1>2, <1>8, <4>1, <4>3 DEF Frames
      <4>4. CASE i \in 1..Len(up[current])
        <5>1. up[current][i] \in Frames /\ up[current][i] <= cmdSeq[current]
          BY <1>1, <1>7, <4>4 DEF IInv, Given
        <5> QED  BY <1>1, <1>8, <4>1, <4>4, <5>1 DEF Frames
      <4> QED  BY <4>2, <4>3, <4>4
    <3> QED  BY <3>1, <3>2
  <2> QED  BY <2>1 DEF Given
<1> QED  BY <1>6, <1>9, <1>10 DEF IInv, Noted

LEMMA ResendInv ==
    ASSUME IInv, NEW s \in Frames, Resend(s)
    PROVE  IInv'
<1>1. current \in Conns /\ s <= cmdSeq[current] /\ up[current] \in Seq(Frames)
  BY DEF Resend, IInv, Typed
<1>2. up' = [up EXCEPT ![current] = Append(up[current], s)]
  BY DEF Resend
<1>3. UNCHANGED <<current, linked, cmdSeq, lastAck, lastSeq, bus>>
  BY DEF Resend, serverVars, browserVars
<1>4. /\ Append(up[current], s) \in Seq(Frames)
      /\ Len(Append(up[current], s)) = Len(up[current]) + 1
      /\ \A i \in 1..Len(up[current]) : Append(up[current], s)[i] = up[current][i]
      /\ Append(up[current], s)[Len(up[current]) + 1] = s
  BY <1>1, AppendProperties
<1>5. Typed'
  BY <1>1, <1>2, <1>3, <1>4 DEF IInv, Typed
<1>6. Given'
  <2>1. ASSUME NEW c \in Conns, NEW i \in DOMAIN up'[c]
        PROVE  up'[c][i] <= cmdSeq[c]
    <3>1. CASE c # current
      BY <1>1, <1>2, <2>1, <3>1 DEF IInv, Typed, Given
    <3>2. CASE c = current
      <4>1. up'[c] = Append(up[current], s)
        BY <1>1, <1>2, <3>2 DEF IInv, Typed
      <4>2. i \in 1..(Len(up[current]) + 1) /\ Len(up[current]) \in Nat
        BY <1>1, <1>4, <2>1, <4>1
      <4>3. CASE i = Len(up[current]) + 1
        BY <1>1, <1>4, <3>2, <4>1, <4>3
      <4>4. CASE i \in 1..Len(up[current])
        BY <1>1, <1>4, <3>2, <4>1, <4>4 DEF IInv, Given
      <4> QED  BY <4>2, <4>3, <4>4
    <3> QED  BY <3>1, <3>2
  <2> QED  BY <1>3, <2>1 DEF Given
<1> QED  BY <1>3, <1>5, <1>6 DEF IInv, Noted

(* What the server reads: the head leaves the stream, the rest moves up.      *)
LEMMA Read ==
    ASSUME IInv, NEW c \in Conns, up[c] # <<>>,
           up' = [up EXCEPT ![c] = Tail(@)]
    PROVE  /\ up' \in [Conns -> Seq(Frames)]
           /\ Head(up[c]) = up[c][1] /\ 1 \in DOMAIN up[c] /\ Head(up[c]) \in Frames
           /\ \A i \in DOMAIN up'[c] : i + 1 \in DOMAIN up[c] /\ up'[c][i] = up[c][i + 1]
           /\ \A i \in DOMAIN up[c] : i # 1 => i - 1 \in DOMAIN up'[c]
           /\ \A d \in Conns : d # c => up'[d] = up[d]
<1>1. up[c] \in Seq(Frames) /\ up \in [Conns -> Seq(Frames)]
  BY DEF IInv, Typed
<1>2. /\ Head(up[c]) \in Frames /\ Tail(up[c]) \in Seq(Frames)
      /\ Len(Tail(up[c])) = Len(up[c]) - 1
      /\ \A i \in 1..Len(Tail(up[c])) : Tail(up[c])[i] = up[c][i + 1]
  BY <1>1, HeadTailProperties
<1>3. up'[c] = Tail(up[c]) /\ \A d \in Conns : d # c => up'[d] = up[d]
  BY <1>1
<1>4. Len(up[c]) \in Nat /\ Len(up[c]) >= 1 /\ DOMAIN up[c] = 1..Len(up[c])
  BY <1>1
<1>5. DOMAIN up'[c] = 1..(Len(up[c]) - 1)
  <2>1. DOMAIN Tail(up[c]) = 1..Len(Tail(up[c]))
    BY <1>2
  <2> QED  BY <1>2, <1>3, <2>1
<1>6. up' \in [Conns -> Seq(Frames)]
  BY <1>1, <1>2
<1>7. Head(up[c]) = up[c][1]
  BY <1>1
<1> QED  BY <1>2, <1>3, <1>4, <1>5, <1>6, <1>7

LEMMA ReceiveInv ==
    ASSUME IInv, NEW c \in Conns, ReceiveCommand(c)
    PROVE  IInv'
<1> DEFINE h == Head(up[c])
<1>1. up[c] # <<>> /\ up' = [up EXCEPT ![c] = Tail(@)]
  BY DEF ReceiveCommand
<1>2. UNCHANGED <<current, linked, cmdSeq>>
  BY DEF ReceiveCommand
<1>3. h \in Frames /\ MaxGiven \in Nat /\ up' \in [Conns -> Seq(Frames)]
  BY <1>1, Read, LinkAssumption
<1>4. Given'
  <2>1. ASSUME NEW d \in Conns, NEW i \in DOMAIN up'[d]
        PROVE  up'[d][i] <= cmdSeq[d]
    <3>1. \A j \in DOMAIN up[d] : up[d][j] <= cmdSeq[d]
      BY <2>1 DEF IInv, Given
    <3>2. CASE d = c
      <4>1. i + 1 \in DOMAIN up[c] /\ up'[c][i] = up[c][i + 1]
        BY <1>1, <2>1, <3>2, Read
      <4> QED  BY <3>1, <3>2, <4>1
    <3>3. CASE d # c
      BY <1>1, <2>1, <3>1, <3>3, Read
    <3> QED  BY <3>2, <3>3
  <2> QED  BY <1>2, <2>1 DEF Given
<1>5. \A b \in BOOLEAN : Acknowledge(c, b) => lastAck' \in [Conns -> 0..MaxGiven]
  <2>1. h \in 0..MaxGiven /\ lastAck \in [Conns -> 0..MaxGiven]
    BY <1>3 DEF Frames, IInv, Typed
  <2> QED  BY <2>1 DEF Acknowledge
<1>6. CASE \E published \in BOOLEAN : Accepted(c, published) /\ Acknowledge(c, published)
  <2>1. PICK published \in BOOLEAN : Accepted(c, published) /\ Acknowledge(c, published)
    BY <1>6
  <2>2. h > lastSeq[c] /\ lastSeq' = [lastSeq EXCEPT ![c] = h]
    BY <2>1 DEF Accepted
  <2>3. bus' = IF published THEN Append(bus, [conn |-> c, seq |-> h]) ELSE bus
    BY <2>1 DEF Accepted, Publishes, PublicationFails
  <2>4. [conn |-> c, seq |-> h] \in Command /\ bus \in Seq(Command)
    BY <1>3 DEF Command, IInv, Typed
  <2>5. bus' \in Seq(Command)
    BY <2>3, <2>4, AppendProperties
  <2>6. lastSeq \in [Conns -> 0..MaxGiven] /\ lastSeq' \in [Conns -> 0..MaxGiven]
    BY <1>3, <2>2 DEF IInv, Typed, Frames
  <2>7. Typed'
    BY <1>2, <1>3, <1>5, <2>1, <2>5, <2>6 DEF IInv, Typed
  <2>8. \A d \in Conns : lastSeq[d] <= lastSeq'[d]
    BY <1>3, <2>2, <2>6 DEF Frames
  <2>9. ASSUME NEW i \in DOMAIN bus
        PROVE  /\ bus[i] \in Command /\ bus[i].conn \in Conns /\ bus[i].seq \in Frames
               /\ bus[i].seq <= lastSeq'[bus[i].conn]
    <3>1. bus[i] \in Command
      BY <2>4
    <3>2. bus[i].conn \in Conns /\ bus[i].seq \in Frames
      BY <3>1 DEF Command
    <3>3. bus[i].seq <= lastSeq[bus[i].conn]
      BY DEF IInv, Noted
    <3>4. lastSeq[bus[i].conn] \in Nat /\ lastSeq'[bus[i].conn] \in Nat
      BY <2>6, <3>2
    <3> QED  BY <2>8, <3>1, <3>2, <3>3, <3>4 DEF Frames
  <2>10. Noted'
    <3>1. CASE ~published
      BY <2>3, <2>9, <3>1 DEF Noted
    <3>2. CASE published
      <4>1. bus' = Append(bus, [conn |-> c, seq |-> h])
        BY <2>3, <3>2
      <4>2. /\ Len(bus') = Len(bus) + 1 /\ bus'[Len(bus) + 1] = [conn |-> c, seq |-> h]
            /\ \A i \in 1..Len(bus) : bus'[i] = bus[i]
        BY <2>4, <4>1, AppendProperties
      <4>3. Len(bus) \in Nat /\ DOMAIN bus = 1..Len(bus) /\ DOMAIN bus' = 1..Len(bus')
        BY <2>4, <2>5
      <4>4. lastSeq'[c] = h
        BY <2>2, <2>6
      <4>5. ASSUME NEW i \in DOMAIN bus'
            PROVE  bus'[i].seq <= lastSeq'[bus'[i].conn]
        <5>1. CASE i = Len(bus) + 1
          BY <1>3, <4>2, <4>4, <5>1 DEF Frames
        <5>2. CASE i # Len(bus) + 1
          <6>1. i \in DOMAIN bus /\ bus'[i] = bus[i]
            BY <4>2, <4>3, <5>2
          <6> QED  BY <2>9, <6>1
        <5> QED  BY <5>1, <5>2
      <4> QED  BY <4>5 DEF Noted
    <3> QED  BY <3>1, <3>2
  <2> QED  BY <1>4, <2>7, <2>10 DEF IInv
<1>7. CASE Duplicate(c) /\ Acknowledge(c, TRUE)
  <2>1. UNCHANGED <<lastSeq, bus>> /\ lastAck' \in [Conns -> 0..MaxGiven]
    BY <1>5, <1>7 DEF Duplicate
  <2> QED  BY <1>2, <1>3, <1>4, <2>1 DEF IInv, Typed, Noted
<1> QED  BY <1>6, <1>7 DEF ReceiveCommand

(* The other steps leave the streams and the published commands alone.        *)
LEMMA OthersLeave ==
    ASSUME IInv,
           \/ OpenConnection \/ Ping \/ LoseConnection \/ ClosePage
           \/ \E c \in Conns : \/ BroadcastFails(c) \/ EndpointEnds(c) \/ PingExpires(c)
                               \/ PathFails(c, "deaf") \/ PathFails(c, "cut")
           \/ ConsumerCrashes \/ ConsumerRestarts \/ UNCHANGED linkVars
    PROVE  /\ UNCHANGED <<cmdSeq, lastAck, up, lastSeq, bus, unpublished>>
           /\ current' \in 0..MaxConns /\ linked' \in BOOLEAN
           /\ linked' => current' \in Conns
<1>1. UNCHANGED <<cmdSeq, lastAck, up, lastSeq, bus, unpublished>>
  BY DEF OpenConnection, Ping, LoseConnection, ClosePage, BroadcastFails, EndpointEnds,
         PingExpires, PathFails, ConsumerCrashes, ConsumerRestarts, linkVars, browserVars,
         serverVars
<1>2. CASE OpenConnection
  <2>1. current \in Nat /\ MaxConns \in Nat /\ current < MaxConns /\ current' = current + 1
    BY <1>2, LinkAssumption DEF OpenConnection, IInv, Typed
  <2>2. current' \in Conns /\ current' \in 0..MaxConns
    BY <2>1 DEF Conns
  <2>3. linked' = TRUE
    BY <1>2 DEF OpenConnection
  <2> QED  BY <1>1, <2>2, <2>3
<1>3. CASE LoseConnection \/ ClosePage
  <2>1. linked' = FALSE /\ current' = current
    BY <1>3 DEF LoseConnection, ClosePage
  <2>2. current \in 0..MaxConns
    BY DEF IInv, Typed
  <2> QED  BY <1>1, <2>1, <2>2
<1>4. CASE ~OpenConnection /\ ~LoseConnection /\ ~ClosePage
  <2>1. UNCHANGED <<current, linked>>
    BY <1>4 DEF Ping, BroadcastFails, EndpointEnds, PingExpires, PathFails, ConsumerCrashes,
                ConsumerRestarts, linkVars, browserVars, serverVars
  <2> QED  BY <1>1, <2>1 DEF IInv, Typed
<1> QED  BY <1>2, <1>3, <1>4

LEMMA InitInv == Init => IInv
<1> SUFFICES ASSUME Init PROVE IInv
  OBVIOUS
<1>1. MaxConns \in Nat /\ MaxGiven \in Nat
  BY LinkAssumption
<1>2. /\ current = 0 /\ linked = FALSE /\ bus = <<>>
      /\ cmdSeq = [c \in Conns |-> 0] /\ lastAck = [c \in Conns |-> 0]
      /\ up = [c \in Conns |-> <<>>] /\ lastSeq = [c \in Conns |-> 0]
  BY DEF Init
<1>3. Typed
  <2>1. up \in [Conns -> Seq(Frames)] /\ bus \in Seq(Command)
    BY <1>2
  <2>2. cmdSeq \in [Conns -> 0..MaxGiven] /\ lastAck \in [Conns -> 0..MaxGiven]
        /\ lastSeq \in [Conns -> 0..MaxGiven]
    BY <1>1, <1>2
  <2>3. current \in 0..MaxConns
    BY <1>1, <1>2
  <2>4. linked \in BOOLEAN /\ (linked => current \in Conns)
    BY <1>2
  <2> QED  BY <2>1, <2>2, <2>3, <2>4 DEF Typed
<1> QED  BY <1>2, <1>3 DEF IInv, Given, Noted

LEMMA NextInv == IInv /\ [Next]_linkVars => IInv'
<1> SUFFICES ASSUME IInv, [Next]_linkVars PROVE IInv'
  OBVIOUS
<1>1. CASE SendCommand
  BY <1>1, SendInv
<1>2. CASE \E s \in 1..MaxGiven : current # 0 /\ Resend(s)
  BY <1>2, ResendInv DEF Frames
<1>3. CASE \E c \in Conns : ReceiveCommand(c)
  BY <1>3, ReceiveInv
<1>4. CASE ~SendCommand /\ ~(\E s \in 1..MaxGiven : current # 0 /\ Resend(s))
           /\ ~(\E c \in Conns : ReceiveCommand(c))
  <2>1. /\ UNCHANGED <<cmdSeq, lastAck, up, lastSeq, bus, unpublished>>
        /\ current' \in 0..MaxConns /\ linked' \in BOOLEAN
        /\ linked' => current' \in Conns
    BY <1>4, OthersLeave DEF Next
  <2> QED  BY <2>1 DEF IInv, Typed, Given, Noted
<1> QED  BY <1>1, <1>2, <1>3, <1>4

(* What is under way was given, and nothing was published beyond the number   *)
(* the server has noted (web_server.py, process_incoming_command).            *)
THEOREM LinkInvariant == Spec => []IInv
BY InitInv, NextInv, PTL DEF Spec

-----------------------------------------------------------------------------
(* The refinement: the initial state maps to that of the service, a command   *)
(* that is given or published to a step of it, everything else to none.       *)
LEMMA GiveRefines ==
    ASSUME IInv, SendCommand
    PROVE  Service!Next
<1>1. current \in Conns
  BY DEF SendCommand, IInv, Typed
<1>2. Service!Give(current)
  BY DEF SendCommand, serverVars, Service!Give
<1> QED  BY <1>1, <1>2 DEF Service!Next

LEMMA ExecuteRefines ==
    ASSUME IInv, NEW c \in Conns, ReceiveCommand(c)
    PROVE  [Service!Next]_Service!serviceVars
<1> DEFINE h == Head(up[c])
<1>1. up[c] # <<>> /\ up' = [up EXCEPT ![c] = Tail(@)] /\ cmdSeq' = cmdSeq
  BY DEF ReceiveCommand
<1>2. h \in Frames /\ h <= cmdSeq[c]
  <2>1. h = up[c][1] /\ 1 \in DOMAIN up[c] /\ h \in Frames
    BY <1>1, Read
  <2> QED  BY <2>1 DEF IInv, Given
<1>3. CASE bus' = bus
  BY <1>1, <1>3 DEF Service!serviceVars
<1>4. CASE bus' # bus
  <2>1. PICK published \in BOOLEAN : Accepted(c, published)
    BY <1>4 DEF ReceiveCommand, Duplicate
  <2>2. h > lastSeq[c] /\ bus' = Append(bus, [conn |-> c, seq |-> h])
    BY <1>4, <2>1 DEF Accepted, Publishes, PublicationFails
  <2>3. lastSeq[c] \in Nat /\ cmdSeq[c] \in Nat /\ h \in Nat /\ h >= 1
    BY <1>2 DEF IInv, Typed, Frames
  <2>4. Service!Later(c, h)
    <3> SUFFICES ASSUME NEW i \in DOMAIN bus, bus[i].conn = c
                 PROVE  bus[i].seq < h
      BY DEF Service!Later
    <3>1. bus[i] \in Command
      BY DEF IInv, Typed
    <3>2. bus[i].seq \in Nat
      BY <3>1 DEF Command, Frames
    <3>3. bus[i].seq <= lastSeq[c]
      BY DEF IInv, Noted
    <3> QED  BY <2>2, <2>3, <3>2, <3>3
  <2>5. Service!Execute(c, h)
    BY <1>1, <1>2, <2>2, <2>4 DEF Service!Execute
  <2>6. h \in 1..cmdSeq[c]
    BY <1>2, <2>3
  <2> QED  BY <2>5, <2>6 DEF Service!Next
<1> QED  BY <1>3, <1>4

(* The link implements the service: commands of a connection are executed at  *)
(* most once, in order, and only if given (_last_seq in web_server.py).       *)
THEOREM LinkImplementsService == Spec => ServiceSpec
<1>1. Init => Service!Init
  BY DEF Init, Service!Init
<1>2. IInv /\ [Next]_linkVars => [Service!Next]_Service!serviceVars
  <2> SUFFICES ASSUME IInv, [Next]_linkVars PROVE [Service!Next]_Service!serviceVars
    OBVIOUS
  <2>1. CASE SendCommand
    BY <2>1, GiveRefines
  <2>2. CASE \E s \in 1..MaxGiven : current # 0 /\ Resend(s)
    BY <2>2 DEF Resend, browserVars, serverVars, Service!serviceVars
  <2>3. CASE \E c \in Conns : ReceiveCommand(c)
    BY <2>3, ExecuteRefines
  <2>4. CASE ~SendCommand /\ ~(\E s \in 1..MaxGiven : current # 0 /\ Resend(s))
             /\ ~(\E c \in Conns : ReceiveCommand(c))
    <3>1. UNCHANGED <<cmdSeq, bus>>
      BY <2>4, OthersLeave DEF Next
    <3> QED  BY <3>1 DEF Service!serviceVars
  <2> QED  BY <2>1, <2>2, <2>3, <2>4
<1>3. Spec => Service!Init /\ [][Service!Next]_Service!serviceVars
  BY <1>1, <1>2, LinkInvariant, PTL DEF Spec
<1> QED  BY <1>3 DEF ServiceSpec, Service!Spec

-----------------------------------------------------------------------------
(* Why an acknowledged command was published, or failed to be: a connection   *)
(* loses nothing, so the server notes its numbers one after the other.  A     *)
(* number that was given and not yet noted is still under way, behind all the *)
(* lower ones.                                                                *)
Waiting(stream, s, i) == \E j \in DOMAIN stream : j < i /\ stream[j] = s

InOrder(stream, noted, given) ==
    /\ \A i \in DOMAIN stream : \A s \in Frames :
            noted < s /\ s < stream[i] => Waiting(stream, s, i)
    /\ \A s \in Frames :
            noted < s /\ s <= given => Waiting(stream, s, Len(stream) + 1)

Seamless(c) == InOrder(up[c], lastSeq[c], cmdSeq[c])

AllPublished(c) ==
    \A s \in Frames : s <= lastSeq[c] => Published(c, s) \/ Failed(c, s)

Acked(c) == lastAck[c] <= lastSeq[c]

AckInv == IInv /\ \A c \in Conns : Seamless(c) /\ AllPublished(c) /\ Acked(c)

(* A frame at the end of a stream, not beyond the next number.                *)
LEMMA AppendInOrder ==
    ASSUME NEW stream \in Seq(Frames), NEW noted \in Nat, NEW n \in Nat, NEW m \in Nat,
           NEW s \in Frames, InOrder(stream, noted, n),
           s <= n + 1, \A t \in Frames : t <= m => t <= n \/ t = s
    PROVE  InOrder(Append(stream, s), noted, m)
<1> DEFINE new == Append(stream, s)
<1>1. /\ new \in Seq(Frames) /\ Len(new) = Len(stream) + 1 /\ new[Len(stream) + 1] = s
      /\ \A i \in 1..Len(stream) : new[i] = stream[i]
  BY AppendProperties
<1>2. /\ Len(stream) \in Nat /\ DOMAIN stream = 1..Len(stream)
      /\ DOMAIN new = 1..(Len(stream) + 1)
  BY <1>1
<1> HIDE DEF new
<1>3. ASSUME NEW i \in DOMAIN new, NEW t \in Frames, noted < t, t < new[i]
      PROVE  Waiting(new, t, i)
  <2>1. CASE i \in 1..Len(stream)
    <3>1. PICK j \in DOMAIN stream : j < i /\ stream[j] = t
      BY <1>1, <1>2, <1>3, <2>1 DEF InOrder, Waiting
    <3> QED  BY <1>1, <1>2, <3>1 DEF Waiting
  <2>2. CASE i = Len(stream) + 1
    <3>1. t <= n
      BY <1>1, <1>3, <2>2 DEF Frames
    <3>2. PICK j \in DOMAIN stream : stream[j] = t
      BY <1>3, <3>1 DEF InOrder, Waiting
    <3> QED  BY <1>1, <1>2, <2>2, <3>2 DEF Waiting
  <2> QED  BY <1>2, <2>1, <2>2
<1>4. ASSUME NEW t \in Frames, noted < t, t <= m
      PROVE  Waiting(new, t, Len(new) + 1)
  <2>1. CASE t = s
    BY <1>1, <1>2, <2>1 DEF Waiting
  <2>2. CASE t # s
    <3>1. PICK j \in DOMAIN stream : stream[j] = t
      BY <1>4, <2>2 DEF InOrder, Waiting
    <3> QED  BY <1>1, <1>2, <3>1 DEF Waiting
  <2> QED  BY <2>1, <2>2
<1> QED  BY <1>3, <1>4 DEF InOrder, new

(* The head of a stream is a number noted before, or the next one.            *)
LEMMA TailInOrder ==
    ASSUME NEW stream \in Seq(Frames), stream # <<>>, NEW noted \in Nat, NEW n \in Nat,
           NEW m \in Nat, InOrder(stream, noted, n),
           m = IF Head(stream) <= noted THEN noted ELSE Head(stream)
    PROVE  /\ m <= noted + 1
           /\ InOrder(Tail(stream), m, n)
<1> DEFINE h == Head(stream)
           rest == Tail(stream)
<1>1. /\ rest \in Seq(Frames) /\ Len(rest) = Len(stream) - 1 /\ h \in Frames
      /\ \A i \in 1..Len(rest) : rest[i] = stream[i + 1]
  BY HeadTailProperties
<1>2. /\ Len(stream) \in Nat /\ Len(stream) >= 1 /\ DOMAIN stream = 1..Len(stream)
      /\ h = stream[1]
  OBVIOUS
<1>3. DOMAIN rest = 1..(Len(stream) - 1)
  BY <1>1
<1>4. m = (IF h <= noted THEN noted ELSE h) /\ h \in Nat /\ noted <= m
  BY <1>1 DEF Frames
<1> HIDE DEF h, rest
<1>5. h <= noted + 1
  <2> SUFFICES ASSUME h > noted + 1 PROVE FALSE
    BY <1>4
  <2>1. noted + 1 \in Frames
    BY <1>1, <1>4, LinkAssumption DEF Frames
  <2>2. Waiting(stream, noted + 1, 1)
    BY <1>2, <2>1 DEF InOrder
  <2> QED  BY <1>2, <2>2 DEF Waiting
<1>6. \A s \in Frames : m < s => h # s /\ noted < s
  BY <1>4 DEF Frames
<1>7. ASSUME NEW i \in DOMAIN rest, NEW s \in Frames, m < s, s < rest[i]
      PROVE  Waiting(rest, s, i)
  <2>1. i + 1 \in DOMAIN stream /\ s < stream[i + 1]
    BY <1>1, <1>2, <1>3, <1>7
  <2>2. PICK j \in DOMAIN stream : j < i + 1 /\ stream[j] = s
    BY <1>6, <1>7, <2>1 DEF InOrder, Waiting
  <2>3. j # 1
    BY <1>2, <1>6, <1>7, <2>2
  <2>4. j - 1 \in DOMAIN rest /\ j - 1 < i /\ rest[j - 1] = s
    BY <1>1, <1>2, <1>3, <2>2, <2>3
  <2> QED  BY <2>4 DEF Waiting
<1>8. ASSUME NEW s \in Frames, m < s, s <= n
      PROVE  Waiting(rest, s, Len(rest) + 1)
  <2>1. PICK j \in DOMAIN stream : stream[j] = s
    BY <1>6, <1>8 DEF InOrder, Waiting
  <2>2. j # 1
    BY <1>2, <1>6, <1>8, <2>1
  <2>3. j - 1 \in DOMAIN rest /\ j - 1 < Len(rest) + 1 /\ rest[j - 1] = s
    BY <1>1, <1>2, <1>3, <2>1, <2>2
  <2> QED  BY <2>3 DEF Waiting
<1>9. m <= noted + 1
  BY <1>4, <1>5
<1> QED  BY <1>7, <1>8, <1>9 DEF InOrder, rest

LEMMA SendAck ==
    ASSUME AckInv, SendCommand
    PROVE  AckInv'
<1>1. IInv /\ IInv'
  BY SendInv DEF AckInv
<1>2. current \in Conns /\ cmdSeq[current] \in Nat /\ cmdSeq[current] + 1 \in Frames
  BY <1>1, LinkAssumption DEF SendCommand, IInv, Typed, Frames
<1>3. cmdSeq \in [Conns -> 0..MaxGiven] /\ up \in [Conns -> Seq(Frames)]
      /\ lastSeq \in [Conns -> 0..MaxGiven]
  BY <1>1 DEF IInv, Typed
<1>4. cmdSeq' = [cmdSeq EXCEPT ![current] = @ + 1] /\ UNCHANGED <<lastAck, lastSeq, bus, unpublished>>
  BY DEF SendCommand, serverVars
<1>5. up' = [up EXCEPT ![current] = Append(@, cmdSeq[current] + 1)]
  BY <1>2, <1>3, <1>4 DEF SendCommand
<1>6. ASSUME NEW c \in Conns  PROVE Seamless(c)'
  <2>1. InOrder(up[c], lastSeq[c], cmdSeq[c])
    BY DEF AckInv, Seamless
  <2>2. CASE c # current
    BY <1>2, <1>3, <1>4, <1>5, <2>1, <2>2 DEF Seamless
  <2>3. CASE c = current
    <3> DEFINE s == cmdSeq[c] + 1
    <3>1. /\ up[c] \in Seq(Frames) /\ lastSeq[c] \in Nat /\ cmdSeq[c] \in Nat
          /\ s \in Frames /\ s \in Nat /\ s <= cmdSeq[c] + 1
      BY <1>2, <1>3, <2>3
    <3>2. \A t \in Frames : t <= s => t <= cmdSeq[c] \/ t = s
      BY <3>1 DEF Frames
    <3>3. up'[c] = Append(up[c], s) /\ cmdSeq'[c] = s /\ lastSeq'[c] = lastSeq[c]
      BY <1>2, <1>3, <1>4, <1>5, <2>3
    <3> HIDE DEF s
    <3>4. InOrder(Append(up[c], s), lastSeq[c], s)
      BY <2>1, <3>1, <3>2, AppendInOrder
    <3> QED  BY <3>3, <3>4 DEF Seamless
  <2> QED  BY <2>2, <2>3
<1> QED  BY <1>1, <1>4, <1>6 DEF AckInv, AllPublished, Published, Failed, Acked

LEMMA ResendAck ==
    ASSUME AckInv, NEW s \in Frames, Resend(s)
    PROVE  AckInv'
<1>1. IInv /\ IInv'
  BY ResendInv DEF AckInv
<1>2. current \in Conns /\ s <= cmdSeq[current] /\ s \in Nat
  BY <1>1 DEF Resend, IInv, Typed, Frames
<1>3. cmdSeq \in [Conns -> 0..MaxGiven] /\ up \in [Conns -> Seq(Frames)]
      /\ lastSeq \in [Conns -> 0..MaxGiven]
  BY <1>1 DEF IInv, Typed
<1>4. up' = [up EXCEPT ![current] = Append(@, s)] /\ UNCHANGED <<cmdSeq, lastAck, lastSeq, bus, unpublished>>
  BY DEF Resend, serverVars, browserVars
<1>5. ASSUME NEW c \in Conns  PROVE Seamless(c)'
  <2>1. InOrder(up[c], lastSeq[c], cmdSeq[c])
    BY DEF AckInv, Seamless
  <2>2. CASE c # current
    BY <1>2, <1>3, <1>4, <2>1, <2>2 DEF Seamless
  <2>3. CASE c = current
    <3>1. /\ up[c] \in Seq(Frames) /\ lastSeq[c] \in Nat /\ cmdSeq[c] \in Nat
          /\ s <= cmdSeq[c] + 1
      BY <1>2, <1>3, <2>3
    <3>2. InOrder(Append(up[c], s), lastSeq[c], cmdSeq[c])
      BY <2>1, <3>1, AppendInOrder
    <3> QED  BY <1>2, <1>3, <1>4, <2>3, <3>2 DEF Seamless
  <2> QED  BY <2>2, <2>3
<1> QED  BY <1>1, <1>4, <1>5 DEF AckInv, AllPublished, Published, Failed, Acked

LEMMA ReceiveAck ==
    ASSUME AckInv, NEW c \in Conns, ReceiveCommand(c)
    PROVE  AckInv'
<1> DEFINE h == Head(up[c])
           m == IF h <= lastSeq[c] THEN lastSeq[c] ELSE h
<1>1. IInv /\ IInv'
  BY ReceiveInv DEF AckInv
<1>2. /\ up \in [Conns -> Seq(Frames)] /\ lastSeq \in [Conns -> 0..MaxGiven]
      /\ cmdSeq \in [Conns -> 0..MaxGiven] /\ lastAck \in [Conns -> 0..MaxGiven]
      /\ bus \in Seq(Command)
  BY <1>1 DEF IInv, Typed
<1>3. up[c] # <<>> /\ up' = [up EXCEPT ![c] = Tail(@)] /\ cmdSeq' = cmdSeq
  BY DEF ReceiveCommand
<1>4. h \in Frames /\ h \in Nat /\ lastSeq[c] \in Nat /\ m \in Nat
  <2>1. h \in Frames
    BY <1>1, <1>3, Read
  <2>2. h \in Nat /\ lastSeq[c] \in Nat
    BY <1>2, <2>1 DEF Frames
  <2> QED  BY <2>1, <2>2
<1>5. /\ lastSeq' = [lastSeq EXCEPT ![c] = m]
      /\ \/ bus' = bus /\ unpublished' = unpublished /\ h <= lastSeq[c]
         \/ bus' = Append(bus, [conn |-> c, seq |-> h]) /\ unpublished' = unpublished
         \/ bus' = bus /\ unpublished' = unpublished \union {[conn |-> c, seq |-> h]}
      /\ \E acked \in BOOLEAN : Acknowledge(c, acked)
  <2>1. CASE Duplicate(c) /\ Acknowledge(c, TRUE)
    BY <1>2, <2>1 DEF Duplicate
  <2>2. CASE \E published \in BOOLEAN : Accepted(c, published) /\ Acknowledge(c, published)
    <3>1. PICK published \in BOOLEAN : Accepted(c, published) /\ Acknowledge(c, published)
      BY <2>2
    <3>2. h > lastSeq[c] /\ ~(h <= lastSeq[c])
      BY <1>4, <3>1 DEF Accepted
    <3>3. lastSeq' = [lastSeq EXCEPT ![c] = m]
      BY <3>1, <3>2 DEF Accepted
    <3>4. CASE published
      BY <3>1, <3>3, <3>4 DEF Accepted, Publishes
    <3>5. CASE ~published
      BY <3>1, <3>3, <3>5 DEF Accepted, PublicationFails
    <3> QED  BY <3>4, <3>5
  <2> QED  BY <2>1, <2>2 DEF ReceiveCommand
<1>6. m <= lastSeq[c] + 1 /\ InOrder(Tail(up[c]), m, cmdSeq[c])
  <2>1. InOrder(up[c], lastSeq[c], cmdSeq[c])
    BY DEF AckInv, Seamless
  <2>2. up[c] \in Seq(Frames) /\ cmdSeq[c] \in Nat
    BY <1>2
  <2> QED  BY <1>3, <1>4, <2>1, <2>2, TailInOrder
<1> HIDE DEF h, m
<1>7. ASSUME NEW d \in Conns  PROVE Seamless(d)'
  <2>1. CASE d # c
    BY <1>2, <1>3, <1>5, <2>1 DEF AckInv, Seamless
  <2>2. CASE d = c
    BY <1>2, <1>3, <1>5, <1>6, <2>2 DEF Seamless
  <2> QED  BY <2>1, <2>2
<1>8. ASSUME NEW d \in Conns, NEW s \in Frames, Published(d, s)
      PROVE  Published(d, s)'
  <2>1. PICK i \in DOMAIN bus : bus[i] = [conn |-> d, seq |-> s]
    BY <1>8 DEF Published
  <2>2. CASE bus' = bus
    BY <2>1, <2>2 DEF Published
  <2>3. CASE bus' = Append(bus, [conn |-> c, seq |-> h])
    <3>1. [conn |-> c, seq |-> h] \in Command
      BY <1>4 DEF Command
    <3>2. /\ bus' \in Seq(Command) /\ Len(bus') = Len(bus) + 1
          /\ \A j \in 1..Len(bus) : bus'[j] = bus[j]
      BY <1>2, <2>3, <3>1, AppendProperties
    <3>3. i \in 1..Len(bus) /\ i \in DOMAIN bus'
      BY <1>2, <3>2
    <3> QED  BY <2>1, <3>2, <3>3 DEF Published
  <2> QED  BY <1>5, <2>2, <2>3
<1>9. ASSUME NEW s \in Frames, s = h, ~(h <= lastSeq[c])
      PROVE  Published(c, s)' \/ Failed(c, s)'
  <2>1. [conn |-> c, seq |-> s] \in Command
    BY DEF Command
  <2>2. CASE bus' = Append(bus, [conn |-> c, seq |-> h])
    <3>1. /\ bus' \in Seq(Command) /\ Len(bus') = Len(bus) + 1
          /\ bus'[Len(bus) + 1] = [conn |-> c, seq |-> s]
      BY <1>2, <1>9, <2>1, <2>2, AppendProperties
    <3>2. Len(bus) + 1 \in DOMAIN bus'
      BY <1>2, <3>1
    <3> QED  BY <3>1, <3>2 DEF Published
  <2>3. CASE unpublished' = unpublished \union {[conn |-> c, seq |-> h]}
    BY <1>9, <2>3 DEF Failed
  <2> QED  BY <1>5, <1>9, <2>2, <2>3
<1>10. ASSUME NEW d \in Conns, NEW s \in Frames, s <= lastSeq'[d]
       PROVE  Published(d, s)' \/ Failed(d, s)'
  <2>1. CASE s <= lastSeq[d]
    <3>1. Published(d, s) \/ Failed(d, s)
      BY <2>1 DEF AckInv, AllPublished
    <3>2. Failed(d, s) => Failed(d, s)'
      BY <1>5 DEF Failed
    <3> QED  BY <1>8, <3>1, <3>2
  <2>2. CASE ~(s <= lastSeq[d])
    <3>1. d = c /\ s <= m
      BY <1>2, <1>5, <1>10, <2>2
    <3>2. ~(h <= lastSeq[c]) /\ s <= h
      BY <2>2, <3>1 DEF m
    <3>3. s = h
      BY <1>4, <1>6, <2>2, <3>1, <3>2 DEF m, Frames
    <3> QED  BY <1>9, <3>1, <3>2, <3>3
  <2> QED  BY <2>1, <2>2
<1>11. ASSUME NEW d \in Conns  PROVE Acked(d)'
  <2>1. lastAck[d] <= lastSeq[d] /\ lastAck[d] \in Nat /\ lastSeq[d] \in Nat
    BY <1>2 DEF AckInv, Acked
  <2>2. CASE d # c
    BY <1>2, <1>5, <2>1, <2>2 DEF Acknowledge, Acked
  <2>3. CASE d = c
    <3>1. lastSeq'[d] = m /\ h <= m /\ lastSeq[d] <= m
      BY <1>2, <1>4, <1>5, <2>3 DEF m
    <3>2. lastAck'[d] = h \/ lastAck'[d] = lastAck[d]
      BY <1>2, <1>5, <2>3 DEF Acknowledge, h
    <3> QED  BY <1>4, <2>1, <3>1, <3>2 DEF Acked
  <2> QED  BY <2>2, <2>3
<1> QED  BY <1>1, <1>7, <1>10, <1>11 DEF AckInv, AllPublished

LEMMA InitAck == Init => AckInv
<1> SUFFICES ASSUME Init PROVE AckInv
  OBVIOUS
<1>1. IInv
  BY InitInv
<1>2. ASSUME NEW c \in Conns
      PROVE  up[c] = <<>> /\ cmdSeq[c] = 0 /\ lastSeq[c] = 0 /\ lastAck[c] = 0
  BY DEF Init
<1>3. \A s \in Frames : s \in Nat /\ ~(s <= 0)
  BY DEF Frames
<1> QED  BY <1>1, <1>2, <1>3 DEF AckInv, Seamless, InOrder, AllPublished, Acked

(* On every connection the numbers arrive without a gap, and all those noted  *)
(* were published or raised (web_server.py, process_incoming_command).        *)
THEOREM AckInvariant == Spec => []AckInv
<1>1. AckInv /\ [Next]_linkVars => AckInv'
  <2> SUFFICES ASSUME AckInv, [Next]_linkVars PROVE AckInv'
    OBVIOUS
  <2>1. CASE SendCommand
    BY <2>1, SendAck
  <2>2. CASE \E s \in 1..MaxGiven : current # 0 /\ Resend(s)
    BY <2>2, ResendAck DEF Frames
  <2>3. CASE \E c \in Conns : ReceiveCommand(c)
    BY <2>3, ReceiveAck
  <2>4. CASE ~SendCommand /\ ~(\E s \in 1..MaxGiven : current # 0 /\ Resend(s))
             /\ ~(\E c \in Conns : ReceiveCommand(c))
    <3>1. UNCHANGED <<cmdSeq, lastAck, up, lastSeq, bus, unpublished>>
      BY <2>4, OthersLeave DEF Next, AckInv
    <3>2. IInv'
      BY NextInv DEF AckInv
    <3> QED  BY <3>1, <3>2 DEF AckInv, Seamless, AllPublished, Acked, Published, Failed
  <2> QED  BY <2>1, <2>2, <2>3, <2>4
<1> QED  BY <1>1, InitAck, PTL DEF Spec

(* "ACK the accepted command": every number up to the one the browser takes   *)
(* as acknowledged was published, or its publication raised, whatever was     *)
(* repeated or lost.                                                          *)
THEOREM AckedIsPublishedHolds == Spec => []AckedIsPublished
<1>1. AckInv => AckedIsPublished
  <2> SUFFICES ASSUME AckInv, NEW c \in Conns, NEW s \in 1..lastAck[c]
               PROVE  Published(c, s) \/ Failed(c, s)
    BY DEF AckedIsPublished
  <2>1. lastAck[c] \in 0..MaxGiven /\ MaxGiven \in Nat /\ lastSeq[c] \in Nat
    BY LinkAssumption DEF AckInv, IInv, Typed
  <2>2. lastAck[c] <= lastSeq[c]
    BY DEF AckInv, Acked
  <2>3. s \in Frames /\ s <= lastSeq[c]
    BY <2>1, <2>2 DEF Frames
  <2> QED  BY <2>3 DEF AckInv, AllPublished
<1>2. Spec => []AckInv
  BY AckInvariant
<1> QED  BY <1>1, <1>2, PTL

-----------------------------------------------------------------------------
(* The rest of the types, next to those the invariant holds.                  *)
Ends ==
    /\ gone \in BOOLEAN /\ consumer \in BOOLEAN /\ faults \in 0..MaxFaults
    /\ path \in [Conns -> {"good", "deaf", "cut"}]
    /\ endpoint \in [Conns -> {"none", "open", "ended"}]
    /\ active \subseteq Conns /\ pinged \subseteq Conns
    /\ unpublished \subseteq Command

LEMMA EndsInv == IInv /\ Ends /\ [Next]_linkVars => Ends'
<1> SUFFICES ASSUME IInv, Ends, [Next]_linkVars PROVE Ends'
  OBVIOUS
<1> USE LinkAssumption DEF IInv, Typed, Ends
<1>1. CASE OpenConnection
  <2>1. current' \in Conns
    BY <1>1 DEF OpenConnection, Conns
  <2>2. /\ endpoint' = [endpoint EXCEPT ![current'] = "open"]
        /\ active' = active \union {current'} /\ pinged' = pinged \union {current'}
        /\ UNCHANGED <<gone, consumer, faults, path, unpublished>>
    BY <1>1 DEF OpenConnection
  <2> QED  BY <2>1, <2>2
<1>2. CASE SendCommand \/ \E s \in 1..MaxGiven : Resend(s)
  BY <1>2 DEF SendCommand, Resend, serverVars, browserVars
<1>3. CASE Ping
  <2>1. pinged' = pinged \union {current} /\ current \in Conns
    BY <1>3 DEF Ping
  <2> QED  BY <1>3, <2>1 DEF Ping, browserVars
<1>4. CASE LoseConnection
  BY <1>4 DEF LoseConnection, serverVars
<1>5. CASE ClosePage
  <2>1. gone' = TRUE /\ UNCHANGED <<consumer, faults, path, endpoint, active, pinged, unpublished>>
    BY <1>5 DEF ClosePage, serverVars
  <2> QED  BY <2>1
<1>6. ASSUME NEW c \in Conns,
             \/ BroadcastFails(c) \/ EndpointEnds(c) \/ PingExpires(c)
      PROVE  Ends'
  BY <1>6 DEF BroadcastFails, EndpointEnds, PingExpires, browserVars
<1>11. ASSUME NEW c \in Conns, ReceiveCommand(c)
       PROVE  Ends'
  <2>1. /\ up[c] # <<>> /\ up' = [up EXCEPT ![c] = Tail(@)]
        /\ UNCHANGED <<gone, path, endpoint, active, pinged, consumer>>
    BY <1>11 DEF ReceiveCommand
  <2>2. [conn |-> c, seq |-> Head(up[c])] \in Command
    BY <2>1, Read DEF Command
  <2>3. \/ UNCHANGED <<unpublished, faults>>
        \/ /\ faults < MaxFaults /\ faults' = faults + 1
           /\ unpublished' = unpublished \union {[conn |-> c, seq |-> Head(up[c])]}
    BY <1>11 DEF ReceiveCommand, Accepted, Publishes, PublicationFails, Duplicate
  <2>4. faults' \in 0..MaxFaults
    BY <2>3
  <2>5. unpublished' \subseteq Command
    BY <2>2, <2>3
  <2> QED  BY <2>1, <2>4, <2>5
<1>7. ASSUME NEW c \in Conns, NEW how \in {"deaf", "cut"}, PathFails(c, how)
      PROVE  Ends'
  BY <1>7 DEF PathFails, browserVars, serverVars
<1>8. CASE ConsumerCrashes
  <2>1. /\ consumer' = FALSE /\ faults < MaxFaults /\ faults' = faults + 1
        /\ UNCHANGED <<gone, path, endpoint, active, pinged, unpublished>>
    BY <1>8 DEF ConsumerCrashes, browserVars
  <2>2. faults' \in 0..MaxFaults
    BY <2>1
  <2>3. consumer' \in BOOLEAN
    BY <2>1
  <2> QED  BY <2>1, <2>2, <2>3
<1>9. CASE ConsumerRestarts
  <2>1. consumer' = TRUE /\ UNCHANGED <<gone, faults, path, endpoint, active, pinged, unpublished>>
    BY <1>9 DEF ConsumerRestarts, browserVars
  <2> QED  BY <2>1
<1>10. CASE UNCHANGED linkVars
  BY <1>10 DEF linkVars, browserVars, serverVars
<1> QED  BY <1>1, <1>2, <1>3, <1>4, <1>5, <1>6, <1>7, <1>8, <1>9, <1>10, <1>11 DEF Next

(* Both ends of the link are well typed, for any connections and failures.    *)
THEOREM LinkTypeHolds == Spec => []TypeOK
<1>1. Init => Ends
  <2> SUFFICES ASSUME Init PROVE Ends
    OBVIOUS
  <2>1. gone = FALSE /\ consumer = TRUE /\ faults = 0 /\ active = {} /\ pinged = {} /\ unpublished = {}
    BY DEF Init
  <2>2. path = [c \in Conns |-> "good"] /\ endpoint = [c \in Conns |-> "none"]
    BY DEF Init
  <2>3. faults \in 0..MaxFaults
    BY <2>1, LinkAssumption
  <2>4. gone \in BOOLEAN /\ consumer \in BOOLEAN
    BY <2>1
  <2> QED  BY <2>1, <2>2, <2>3, <2>4 DEF Ends
<1>2. IInv /\ Ends => TypeOK
  BY DEF IInv, Typed, Ends, TypeOK, Frames, Command
<1> QED  BY <1>1, <1>2, EndsInv, LinkInvariant, PTL DEF Spec
=============================================================================
