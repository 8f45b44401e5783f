------------------------- MODULE EgressProxy_proofs -------------------------
(***************************************************************************)
(* EgressProxy for any number of connections, any cap and any bounds on    *)
(* chunks, failing appends and process ends.                               *)
(***************************************************************************)
EXTENDS EgressProxy, TLAPS, FiniteSetTheorems, SequenceTheorems

(***************************************************************************)
(* Types                                                                   *)
(***************************************************************************)

RelayType ==
  /\ pipe \in [Conns -> [Directions -> {"shut", "read", "drain"}]]
  /\ relayed \in [Conns -> [Directions -> 0 .. MaxChunks]]
  /\ counter \in [Conns -> [Directions -> 0 .. MaxChunks]]

RecordType ==
  /\ due \in [Conns -> Record \cup {None}]
  /\ log \in [Conns -> Seq(Record)]
  /\ unlogged \subseteq Conns
  /\ faults \in 0 .. MaxFaults

ConnType ==
  /\ phase \in [Conns -> {"new"} \cup Serviced \cup Ended]
  /\ request \in [Conns -> Requests \cup {None}]
  /\ answer \in [Conns -> {200, 400, 403, 502, 503, None}]
  /\ dialed \subseteq Conns

\* The types of everything but the slot counter.
PartsOK ==
  /\ ConnType /\ RelayType /\ RecordType
  /\ unread \in [Conns -> SUBSET Directions]
  /\ stops \in 0 .. MaxStops

LEMMA TypeParts == TypeOK <=> PartsOK /\ active \in Nat
BY DEF TypeOK, PartsOK, ConnType, RelayType, RecordType

LEMMA RecordsAreTyped ==
  /\ Zero \in [Directions -> Nat]
  /\ Unexpected \in Record /\ Opening \in Record
  /\ \A target \in {"own", "invalid"}, verdict \in {"allowed", "denied"} :
       \A bytes \in [Directions -> Nat] : Closing(target, verdict, bytes) \in Record
BY DEF Zero, Unexpected, Opening, Closing, Record

\* The records of a connection that was never relayed.
Failures == {Closing("invalid", "denied", Zero), Closing("own", "denied", Zero),
             Closing("own", "allowed", Zero), Unexpected}

LEMMA FailuresAreClosing ==
  \A r \in Failures : r \in Record /\ r.action = "connect" /\ r.bytes = Zero
<1>1. Zero \in [Directions -> Nat]
  BY DEF Zero
<1>2. Unexpected = [action |-> "connect", target |-> "invalid", verdict |-> "denied",
                    bytes |-> Zero, id |-> "fresh"]
  BY DEF Unexpected, Closing
<1> HIDE DEF Zero
<1> QED
  BY <1>1, <1>2 DEF Failures, Closing, Record

LEMMA SmallLogs ==
  ASSUME NEW a \in Record, NEW b \in Record
  PROVE  /\ Append(<<>>, a) = <<a>> /\ Append(<<a>>, b) = <<a, b>>
         /\ <<a>> # <<>> /\ <<a, b>> # <<>> /\ <<a>>[1] = a /\ <<a, b>>[1] = a
         /\ <<a, b>>[2] = b /\ Len(<<a, b>>) = 2
<1>1. Append(<<>>, a) = <<a>>
  OBVIOUS
<1>2. Append(<<a>>, b) = <<a, b>>
  <2> DEFINE s == Append(<<a>>, b)
  <2>1. <<a>> \in Seq(Record) /\ Len(<<a>>) = 1
    OBVIOUS
  <2>2. s \in Seq(Record) /\ Len(s) = 2 /\ s[1] = a /\ s[2] = b
    BY <2>1
  <2>3. <<a, b>> \in Seq(Record) /\ Len(<<a, b>>) = 2
    OBVIOUS
  <2>4. \A i \in 1 .. Len(s) : s[i] = <<a, b>>[i]
    BY <2>2
  <2> HIDE DEF s
  <2>5. s = <<a, b>>
    BY <2>2, <2>3, <2>4, SeqEqual
  <2> QED
    BY <2>5 DEF s
<1> QED
  BY <1>1, <1>2

LEMMA RefusalsAreTyped ==
  /\ Closing("invalid", "denied", Zero) \in Record
  /\ Closing("own", "denied", Zero) \in Record
  /\ Closing("own", "allowed", Zero) \in Record
BY DEF Zero, Closing, Record

LEMMA DueTyped ==
  ASSUME RecordType, NEW c \in Conns, NEW status, NEW r \in Record, Ends(c, status, r)
  PROVE  due' \in [Conns -> Record \cup {None}]
BY DEF RecordType, Ends

LEMMA AppendTyped ==
  ASSUME RecordType, NEW c \in Conns, NEW r \in Record, SafeAppend(c, r),
         due' \in [Conns -> Record \cup {None}]
  PROVE  RecordType'
<1>1. log' \in [Conns -> Seq(Record)]
  <2>1. Append(log[c], r) \in Seq(Record)
    BY DEF RecordType
  <2> QED
    BY <2>1 DEF RecordType, SafeAppend
<1>2. faults' \in 0 .. MaxFaults /\ unlogged' \subseteq Conns
  BY ProxyAssumption DEF RecordType, SafeAppend
<1> QED
  BY <1>1, <1>2 DEF RecordType

LEMMA PartsInit == Init => PartsOK
BY ProxyAssumption DEF Init, PartsOK, ConnType, RelayType, RecordType, Zero, Directions

\* Servicing a connection up to the relay.
LEMMA HeadTyped ==
  ASSUME PartsOK, NEW c \in Conns, Shed(c) \/ Accept(c) \/ ReadHead(c) \/ Dial(c)
  PROVE  PartsOK'
<1> USE DEF PartsOK, ConnType, Serviced, Ended, To
<1>1. CASE Shed(c) \/ Accept(c)
  <2>1. ConnType'
    BY <1>1 DEF Shed, Accept
  <2> QED
    BY <1>1, <2>1 DEF Shed, Accept, relayVars, logVars, RelayType, RecordType
<1>2. CASE ReadHead(c)
  <2>1. PICK r \in Requests :
          /\ request' = [request EXCEPT ![c] = r]
          /\ \/ Ends(c, 400, Closing("invalid", "denied", Zero))
             \/ Ends(c, 403, Closing("own", "denied", Zero))
             \/ Ends(c, None, Unexpected)
             \/ To(c, "dial") /\ UNCHANGED <<answer, due>>
          /\ dialed' \in {dialed, dialed \cup {c}}
    BY <1>2 DEF ReadHead
  <2>2. due' \in [Conns -> Record \cup {None}]
    <3>1. CASE UNCHANGED due
      BY <3>1 DEF RecordType
    <3>2. CASE ~UNCHANGED due
      BY <2>1, <3>2, RecordsAreTyped, RefusalsAreTyped, DueTyped
    <3> QED
      BY <3>1, <3>2
  <2>3. ConnType'
    BY <2>1 DEF Ends
  <2> QED
    BY <1>2, <2>2, <2>3 DEF ReadHead, relayVars, logVars, RelayType, RecordType
<1>3. CASE DialFails(c) \/ DialRaises(c)
  <2>1. due' \in [Conns -> Record \cup {None}]
    BY <1>3, RecordsAreTyped, RefusalsAreTyped, DueTyped DEF DialFails, DialRaises
  <2>2. ConnType'
    BY <1>3 DEF DialFails, DialRaises, Ends
  <2> QED
    BY <1>3, <2>1, <2>2 DEF DialFails, DialRaises, relayVars, logVars, RelayType, RecordType
<1>4. CASE Establish(c)
  <2>1. RecordType'
    BY <1>4, RecordsAreTyped, AppendTyped DEF Establish, RecordType
  <2>2. RelayType'
    BY <1>4 DEF Establish, OpensPipes, RelayType
  <2>3. ConnType'
    BY <1>4 DEF Establish
  <2> QED
    BY <1>4, <2>1, <2>2, <2>3 DEF Establish
<1>5. CASE Forward(c)
  <2>1. RelayType'
    BY <1>5, ProxyAssumption DEF Forward, OpensPipes, RelayType, Directions
  <2> QED
    BY <1>5, <2>1 DEF Forward, logVars, RecordType
<1> QED
  BY <1>1, <1>2, <1>3, <1>4, <1>5 DEF Dial

\* A chunk that was written is not counted yet, one that was drained is.
Counted(c) ==
  \A d \in Directions :
    /\ pipe[c][d] = "drain" => counter[c][d] = relayed[c][d] - 1
    /\ counter[c][d] \in {relayed[c][d], relayed[c][d] - 1}
    /\ pipe[c][d] = "read" => counter[c][d] = relayed[c][d]

\* The relay, and what is left after it.
LEMMA RelayTyped ==
  ASSUME PartsOK, NEW c \in Conns, Counted(c),
         Relay(c) \/ Parts(c) \/ (LeaveRecord(c) /\ due[c] \in Record) \/ Release(c)
  PROVE  PartsOK'
<1> USE DEF PartsOK, ConnType, Serviced, Ended, To
<1>1. CASE Relay(c)
  <2>1. PICK d \in Directions : Write(c, d) \/ Drained(c, d) \/ PipeEnds(c, d)
    BY <1>1 DEF Relay
  <2>2. relayed[c][d] \in 0 .. MaxChunks /\ counter[c][d] \in 0 .. MaxChunks
    BY DEF RelayType
  <2>3. RelayType'
    <3>1. CASE Write(c, d)
      <4>1. relayed[c][d] + 1 \in 0 .. MaxChunks
        BY <2>2, <3>1, ProxyAssumption DEF Write
      <4> QED
        BY <3>1, <4>1 DEF Write, RelayType
    <3>2. CASE Drained(c, d)
      <4>1. counter[c][d] + 1 \in 0 .. MaxChunks
        BY <2>2, <3>2, ProxyAssumption DEF Drained, Counted
      <4> QED
        BY <3>2, <4>1 DEF Drained, RelayType
    <3>3. CASE PipeEnds(c, d)
      BY <3>3 DEF PipeEnds, RelayType
    <3> QED
      BY <2>1, <3>1, <3>2, <3>3
  <2> QED
    BY <2>1, <2>3 DEF Write, Drained, PipeEnds, logVars, RecordType
<1>2. CASE Parts(c)
  <2>1. CASE TunnelEnds(c)
    <3>1. ConnType'
      BY <2>1 DEF TunnelEnds
    <3>2. unread' \in [Conns -> SUBSET Directions]
      BY <2>1 DEF TunnelEnds
    <3> QED
      BY <2>1, <3>1, <3>2 DEF TunnelEnds, relayVars, logVars, RelayType, RecordType
  <2>2. CASE UpstreamCloses(c)
    <3>1. counter[c] \in [Directions -> Nat]
      BY DEF RelayType
    <3>2. due' \in [Conns -> Record \cup {None}]
      BY <2>2, <3>1, RecordsAreTyped, DueTyped DEF UpstreamCloses
    <3>3. ConnType'
      BY <2>2 DEF UpstreamCloses, Ends
    <3> QED
      BY <2>2, <3>2, <3>3 DEF UpstreamCloses, relayVars, logVars, RelayType, RecordType
  <2>3. CASE \E d \in Directions : PeerTakes(c, d)
    BY <2>3 DEF PeerTakes, relayVars, logVars, RelayType, RecordType
  <2> QED
    BY <1>2, <2>1, <2>2, <2>3 DEF Parts
<1>3. CASE LeaveRecord(c) /\ due[c] \in Record
  <2>1. RecordType'
    BY <1>3, AppendTyped DEF LeaveRecord, RecordType
  <2> QED
    BY <1>3, <2>1 DEF LeaveRecord, relayVars, RelayType
<1>4. CASE Release(c)
  BY <1>4 DEF Release, relayVars, logVars, RelayType, RecordType
<1> QED
  BY <1>1, <1>2, <1>3, <1>4

LEMMA StopTyped ==
  ASSUME PartsOK, Stop \/ UNCHANGED vars
  PROVE  PartsOK'
<1>1. CASE Stop
  <2>1. \A c \in Conns : (IF c \in InService THEN "cut" ELSE phase[c]) \in {"new"} \cup Serviced \cup Ended
    BY DEF PartsOK, ConnType, Ended
  <2>2. ConnType' /\ stops' \in 0 .. MaxStops
    BY <1>1, <2>1, ProxyAssumption DEF Stop, PartsOK, ConnType
  <2> QED
    BY <1>1, <2>2 DEF Stop, logVars, PartsOK, RelayType, RecordType
<1>2. CASE UNCHANGED vars
  BY <1>2 DEF vars, relayVars, logVars, PartsOK, ConnType, RelayType, RecordType
<1> QED
  BY <1>1, <1>2

(***************************************************************************)
(* Records                                                                 *)
(***************************************************************************)

\* A record reports what connection c relayed, but for a chunk per direction.
Reports(c, r) ==
  \A d \in Directions : r.bytes[d] \in {relayed[c][d], relayed[c][d] - 1}

\* A closing record that correlates with an open record.
OfTunnel(r) == r.id = "own" /\ r.target = "own" /\ r.verdict = "allowed"

OpenLog(c) == log[c] = <<>> \/ log[c] = <<Opening>>

ClosedLog(c) ==
  \E r \in {log[c][i] : i \in DOMAIN log[c]} :
    /\ r.action = "connect" /\ Reports(c, r)
    /\ log[c] = <<r>> \/ (OfTunnel(r) /\ log[c] = <<Opening, r>>)

\* The record a connection is about to leave.
DueIsRight(c) ==
  /\ due[c] \in Record /\ due[c].action = "connect"
  /\ Reports(c, due[c])
  /\ log[c] = <<>> \/ OfTunnel(due[c])

\* A CONNECT tunnel is opened in the log, or the sink raised.
IsObserved(c) ==
  request[c] = "connect" =>
    (log[c] # <<>> /\ log[c][1] = Opening) \/ c \in unlogged

Unstarted == {"new", "head", "dial", "shed"}

\* Where a connection is, what it has relayed and what its log holds go
\* together.
Sound(c) ==
  /\ phase[c] \in Unstarted => log[c] = <<>> /\ \A d \in Directions : relayed[c][d] = 0
  /\ phase[c] \in {"new", "head"} => request[c] = None
  /\ phase[c] = "dial" => request[c] \in {"connect", "absolute"}
                          /\ \A d \in Directions : counter[c][d] = 0
  /\ phase[c] \in {"new", "head", "shed"} => \A d \in Directions : counter[c][d] = 0
  /\ phase[c] # "tunnel" => \A d \in Directions : pipe[c][d] = "shut"
  /\ phase[c] \in {"tunnel", "parting", "ending"} => OpenLog(c)
  /\ phase[c] = "ending" => DueIsRight(c)
  /\ phase[c] \in {"closing", "done"} => (OpenLog(c) /\ c \in unlogged) \/ ClosedLog(c)
  /\ phase[c] = "cut" => OpenLog(c) \/ ClosedLog(c)
  /\ (\E d \in Directions : relayed[c][d] > 0) => IsObserved(c)
  /\ phase[c] \in {"tunnel", "parting"} => IsObserved(c)

ProxyInv == PartsOK /\ \A c \in Conns : Sound(c) /\ Counted(c)

\* What a step leaves alone of another connection.
Same(c) ==
  /\ phase'[c] = phase[c] /\ request'[c] = request[c] /\ pipe'[c] = pipe[c]
  /\ relayed'[c] = relayed[c] /\ counter'[c] = counter[c] /\ due'[c] = due[c]
  /\ log'[c] = log[c] /\ (c \in unlogged' <=> c \in unlogged)

LEMMA ClosedIsKept ==
  ASSUME NEW c, log'[c] = log[c], relayed'[c] = relayed[c], ClosedLog(c)
  PROVE  ClosedLog(c)'
<1>1. PICK r \in {log[c][i] : i \in DOMAIN log[c]} :
        /\ r.action = "connect" /\ Reports(c, r)
        /\ log[c] = <<r>> \/ (OfTunnel(r) /\ log[c] = <<Opening, r>>)
  BY DEF ClosedLog
<1>2. r \in {log'[c][i] : i \in DOMAIN log'[c]}
  OBVIOUS
<1>3. \A d \in Directions : r.bytes[d] \in {relayed'[c][d], relayed'[c][d] - 1}
  BY <1>1 DEF Reports
<1> QED
  BY <1>1, <1>2, <1>3 DEF ClosedLog, Reports, OfTunnel, Opening, Closing, Zero

LEMMA SameIsSound ==
  ASSUME NEW c, Sound(c), Counted(c), Same(c)
  PROVE  Sound(c)' /\ Counted(c)'
<1>1. ClosedLog(c) => ClosedLog(c)'
  BY ClosedIsKept DEF Same
<1>2. (DueIsRight(c) => DueIsRight(c)') /\ Counted(c)'
  BY DEF Same, DueIsRight, Counted, Reports
<1> QED
  BY <1>1, <1>2 DEF Same, Sound, Unstarted, OpenLog, IsObserved

\* An appended record changes one log, and only a lost one is marked.
LEMMA AppendsOne ==
  ASSUME RecordType, NEW c \in Conns, NEW r, SafeAppend(c, r)
  PROVE  /\ \A e \in Conns : e # c => log'[e] = log[e] /\ (e \in unlogged' <=> e \in unlogged)
         /\ \/ log'[c] = Append(log[c], r) /\ (c \in unlogged' <=> c \in unlogged)
            \/ log'[c] = log[c] /\ c \in unlogged'
BY DEF RecordType, SafeAppend

\* The steps of a connection leave the others alone.
LEMMA OthersAreSame ==
  ASSUME PartsOK, NEW c \in Conns, NEW e \in Conns, e # c,
         \/ Shed(c) \/ Accept(c) \/ ReadHead(c) \/ Dial(c) \/ Relay(c)
         \/ Parts(c) \/ LeaveRecord(c) \/ Release(c)
  PROVE  Same(e)
<1> USE DEF PartsOK, ConnType, RelayType, RecordType, Same, To, Ends, relayVars, logVars
<1>1. CASE Shed(c) \/ Accept(c)
  BY <1>1 DEF Shed, Accept
<1>2. CASE ReadHead(c)
  BY <1>2 DEF ReadHead
<1>3. CASE Dial(c)
  <2>1. CASE DialFails(c) \/ DialRaises(c)
    BY <2>1 DEF DialFails, DialRaises
  <2>2. CASE Establish(c)
    BY <2>2, AppendsOne DEF Establish, OpensPipes
  <2>3. CASE Forward(c)
    BY <2>3 DEF Forward, OpensPipes
  <2> QED
    BY <1>3, <2>1, <2>2, <2>3 DEF Dial
<1>4. CASE Relay(c)
  BY <1>4 DEF Relay, Write, Drained, PipeEnds
<1>5. CASE Parts(c)
  BY <1>5 DEF Parts, TunnelEnds, UpstreamCloses, PeerTakes
<1>6. CASE LeaveRecord(c)
  BY <1>6, AppendsOne DEF LeaveRecord
<1>7. CASE Release(c)
  BY <1>7 DEF Release
<1> QED
  BY <1>1, <1>2, <1>3, <1>4, <1>5, <1>6, <1>7

\* A connection that is shed, accepted, or whose head is read.
LEMMA HeadIsSound ==
  ASSUME PartsOK, NEW c \in Conns, Sound(c), Counted(c),
         Shed(c) \/ Accept(c) \/ ReadHead(c)
  PROVE  Sound(c)' /\ Counted(c)'
<1> USE DEF PartsOK, ConnType, RelayType, RecordType, To
<1>1. UNCHANGED <<log, unlogged, pipe, relayed, counter>>
  BY DEF Shed, Accept, ReadHead, relayVars, logVars
<1>2. Counted(c)'
  BY <1>1 DEF Counted
<1>3. CASE Shed(c) \/ Accept(c)
  <2>1. phase[c] = "new" /\ phase'[c] \in {"shed", "head"} /\ UNCHANGED <<request, due>>
    BY <1>3 DEF Shed, Accept
  <2>2. Sound(c)'
    BY <1>1, <2>1 DEF Sound, Unstarted, IsObserved
  <2> QED
    BY <1>2, <2>2
<1>4. CASE ReadHead(c)
  <2>1. PICK r \in Requests :
          /\ request'[c] = r
          /\ \/ phase'[c] = "ending" /\ due'[c] \in Failures
             \/ r \in {"connect", "absolute"} /\ To(c, "dial") /\ UNCHANGED due
    BY <1>4 DEF ReadHead, Ends, Failures
  <2>2. phase[c] = "head" /\ log[c] = <<>> /\ \A d \in Directions : relayed[c][d] = 0
    BY <1>4 DEF ReadHead, Sound, Unstarted
  <2>3. CASE r \in {"connect", "absolute"} /\ To(c, "dial") /\ UNCHANGED due
    BY <1>1, <1>2, <2>1, <2>2, <2>3 DEF Sound, Unstarted, IsObserved
  <2>4. CASE phase'[c] = "ending" /\ due'[c] \in Failures
    <3>1. DueIsRight(c)'
      BY <1>1, <2>2, <2>4, FailuresAreClosing DEF DueIsRight, Reports, Zero
    <3> QED
      BY <1>1, <1>2, <2>2, <2>4, <3>1 DEF Sound, Unstarted, IsObserved, OpenLog
  <2> QED
    BY <2>1, <2>3, <2>4
<1> QED
  BY <1>3, <1>4

\* A dial that fails, or opens the relay.
LEMMA DialIsSound ==
  ASSUME PartsOK, NEW c \in Conns, Sound(c), Counted(c), Dial(c)
  PROVE  Sound(c)' /\ Counted(c)'
<1> USE DEF PartsOK, ConnType, RelayType, RecordType, To
<1>1. /\ phase[c] = "dial" /\ log[c] = <<>> /\ request' = request
      /\ \A d \in Directions : relayed[c][d] = 0 /\ counter[c][d] = 0 /\ pipe[c][d] = "shut"
  BY DEF Dial, DialFails, DialRaises, Establish, Forward, Sound, Unstarted
<1>2. CASE DialFails(c) \/ DialRaises(c)
  <2>1. UNCHANGED <<log, unlogged, pipe, relayed, counter>>
    BY <1>2 DEF DialFails, DialRaises, relayVars, logVars
  <2>2. phase'[c] = "ending" /\ due'[c] \in Failures
    BY <1>2 DEF DialFails, DialRaises, Ends, Failures
  <2>3. DueIsRight(c)'
    BY <1>1, <2>1, <2>2, FailuresAreClosing DEF DueIsRight, Reports, Zero
  <2> QED
    BY <1>1, <2>1, <2>2, <2>3 DEF Sound, Unstarted, Counted, OpenLog, IsObserved
<1>3. CASE Establish(c)
  <2>1. /\ phase'[c] = "tunnel" /\ UNCHANGED <<relayed, counter>>
        /\ \A d \in Directions : pipe'[c][d] = "read"
    BY <1>3 DEF Establish, OpensPipes
  <2>2. log'[c] = <<Opening>> \/ (log'[c] = <<>> /\ c \in unlogged')
    <3>1. SafeAppend(c, Opening) /\ log[c] = <<>>
      BY <1>1, <1>3 DEF Establish
    <3>2. log'[c] = Append(log[c], Opening) \/ (log'[c] = log[c] /\ c \in unlogged')
      BY <3>1, AppendsOne
    <3>3. Append(<<>>, Opening) = <<Opening>>
      BY SmallLogs, RecordsAreTyped
    <3> QED
      BY <3>1, <3>2, <3>3
  <2>3. OpenLog(c)' /\ IsObserved(c)'
    BY <2>2, SmallLogs, RecordsAreTyped DEF OpenLog, IsObserved
  <2>4. Sound(c)'
    BY <1>1, <2>1, <2>3 DEF Sound, Unstarted
  <2> QED
    BY <1>1, <2>1, <2>4 DEF Counted
<1>4. CASE Forward(c)
  <2>1. /\ phase'[c] = "tunnel" /\ request[c] = "absolute" /\ UNCHANGED <<log, unlogged>>
        /\ \A d \in Directions : pipe'[c][d] = "read" /\ relayed'[c][d] = counter'[c][d]
    BY <1>1, <1>4 DEF Forward, OpensPipes, logVars, Directions
  <2>2. Sound(c)'
    BY <1>1, <2>1 DEF Sound, Unstarted, OpenLog, IsObserved
  <2>3. \A d \in Directions : relayed'[c][d] \in Nat
    BY <1>1, <1>4 DEF Forward, Directions
  <2> QED
    BY <2>1, <2>2, <2>3 DEF Counted
<1> QED
  BY <1>2, <1>3, <1>4 DEF Dial

\* A round of the relay, its end, or what is left of it.
LEMMA RelayIsSound ==
  ASSUME PartsOK, NEW c \in Conns, Sound(c), Counted(c), Relay(c) \/ Parts(c)
  PROVE  Sound(c)' /\ Counted(c)'
<1> USE DEF PartsOK, ConnType, RelayType, RecordType, To
<1>1. /\ Relay(c) \/ TunnelEnds(c) => phase[c] = "tunnel"
      /\ Relay(c) \/ TunnelEnds(c) \/ UpstreamCloses(c) =>
           OpenLog(c) /\ IsObserved(c) /\ UNCHANGED <<request, log, unlogged>>
  BY DEF Relay, Write, Drained, PipeEnds, TunnelEnds, UpstreamCloses, logVars, Sound
<1>2. CASE Relay(c)
  <2>1. PICK d \in Directions : Write(c, d) \/ Drained(c, d) \/ PipeEnds(c, d)
    BY <1>2 DEF Relay
  <2>2. UNCHANGED <<phase, due>>
    BY <2>1 DEF Write, Drained, PipeEnds
  <2>3. Sound(c)'
    BY <1>1, <1>2, <2>2 DEF Sound, Unstarted, OpenLog, IsObserved
  <2>4. \A x \in Directions : relayed[c][x] \in Nat /\ counter[c][x] \in Nat
    OBVIOUS
  <2>5. Counted(c)'
    <3>1. CASE Write(c, d)
      BY <2>4, <3>1 DEF Write, Counted
    <3>2. CASE Drained(c, d)
      BY <2>4, <3>2 DEF Drained, Counted
    <3>3. CASE PipeEnds(c, d)
      BY <2>4, <3>3 DEF PipeEnds, Counted
    <3> QED
      BY <2>1, <3>1, <3>2, <3>3
  <2> QED
    BY <2>3, <2>5
<1>3. CASE TunnelEnds(c)
  <2>1. /\ phase'[c] = "parting" /\ UNCHANGED <<pipe, relayed, counter, due>>
        /\ \A d \in Directions : pipe[c][d] = "shut"
    BY <1>3 DEF TunnelEnds, PipesDone, relayVars
  <2> QED
    BY <1>1, <1>3, <2>1 DEF Sound, Unstarted, Counted, OpenLog, IsObserved
<1>4. CASE UpstreamCloses(c)
  <2> DEFINE record == Closing("own", "allowed", counter[c])
  <2>1. /\ phase'[c] = "ending" /\ due'[c] = record
        /\ UNCHANGED <<pipe, relayed, counter>>
        /\ \A d \in Directions : pipe[c][d] = "shut"
    BY <1>4 DEF UpstreamCloses, Sound, Ends, relayVars
  <2>2. counter[c] \in [Directions -> Nat]
    OBVIOUS
  <2>3. /\ record \in Record /\ record.action = "connect" /\ record.bytes = counter[c]
        /\ OfTunnel(record)
    BY <2>2 DEF Closing, Record, OfTunnel
  <2> HIDE DEF record
  <2>4. DueIsRight(c)'
    BY <1>1, <1>4, <2>1, <2>3 DEF DueIsRight, Reports, Counted, OfTunnel
  <2>5. Counted(c)'
    BY <2>1 DEF Counted
  <2> QED
    BY <1>1, <1>4, <2>1, <2>4, <2>5 DEF Sound, Unstarted, OpenLog, IsObserved
<1>5. CASE \E d \in Directions : PeerTakes(c, d)
  <2>1. Same(c)
    BY <1>5 DEF PeerTakes, Same, relayVars, logVars
  <2> QED
    BY <2>1, SameIsSound
<1> QED
  BY <1>2, <1>3, <1>4, <1>5 DEF Parts

\* The closing record, and the end.
LEMMA EndIsSound ==
  ASSUME PartsOK, NEW c \in Conns, Sound(c), Counted(c), LeaveRecord(c) \/ Release(c)
  PROVE  Sound(c)' /\ Counted(c)'
<1> USE DEF PartsOK, ConnType, RelayType, RecordType, To
<1>1. UNCHANGED <<request, pipe, relayed, counter>>
  BY DEF LeaveRecord, Release, relayVars
<1>2. Counted(c)'
  BY <1>1 DEF Counted
<1>3. CASE LeaveRecord(c)
  <2>1. /\ phase[c] = "ending" /\ phase'[c] = "closing" /\ OpenLog(c) /\ DueIsRight(c)
    BY <1>3 DEF LeaveRecord, Sound
  <2>2. \/ log'[c] = Append(log[c], due[c]) /\ (c \in unlogged' <=> c \in unlogged)
        \/ log'[c] = log[c] /\ c \in unlogged'
    BY <1>3, AppendsOne DEF LeaveRecord
  <2>3. CASE log'[c] = log[c] /\ c \in unlogged'
    BY <1>1, <1>2, <2>1, <2>3 DEF Sound, Unstarted, OpenLog, IsObserved
  <2>4. CASE log'[c] = Append(log[c], due[c]) /\ (c \in unlogged' <=> c \in unlogged)
    <3>1. \/ log[c] = <<>> /\ log'[c] = <<due[c]>>
          \/ log[c] = <<Opening>> /\ log'[c] = <<Opening, due[c]>> /\ OfTunnel(due[c])
      <4>1. due[c] \in Record /\ Opening \in Record
        BY <2>1, RecordsAreTyped DEF DueIsRight
      <4>2. Append(<<>>, due[c]) = <<due[c]>> /\ Append(<<Opening>>, due[c]) = <<Opening, due[c]>>
        BY <4>1, SmallLogs
      <4>3. <<Opening>> # <<>>
        OBVIOUS
      <4> QED
        BY <2>1, <2>4, <4>2, <4>3 DEF OpenLog, DueIsRight
    <3>2. due[c] \in {log'[c][i] : i \in DOMAIN log'[c]}
      <4>1. (1 \in DOMAIN log'[c] /\ log'[c][1] = due[c]) \/ (2 \in DOMAIN log'[c] /\ log'[c][2] = due[c])
        BY <3>1
      <4> QED
        BY <4>1
    <3>3. due[c].action = "connect" /\ \A d \in Directions :
            due[c].bytes[d] \in {relayed'[c][d], relayed'[c][d] - 1}
      BY <1>1, <2>1 DEF DueIsRight, Reports
    <3>4. ClosedLog(c)'
      BY <3>1, <3>2, <3>3 DEF ClosedLog, Reports, OfTunnel, Opening
    <3>5. IsObserved(c) => IsObserved(c)'
      <4>1. CASE log[c] = <<>>
        BY <1>1, <2>4, <4>1 DEF IsObserved
      <4>2. CASE log'[c] = <<Opening, due[c]>>
        <5>1. log'[c] # <<>> /\ log'[c][1] = Opening
          BY <2>1, <4>2, SmallLogs, RecordsAreTyped DEF DueIsRight
        <5> HIDE DEF PartsOK, RecordType
        <5> QED
          BY <5>1 DEF IsObserved, Opening, Closing, Zero
      <4> QED
        BY <3>1, <4>1, <4>2
    <3> QED
      BY <1>1, <1>2, <2>1, <3>4, <3>5 DEF Sound, Unstarted
  <2> QED
    BY <2>2, <2>3, <2>4
<1>4. CASE Release(c)
  <2>1. phase[c] = "closing" /\ phase'[c] = "done" /\ UNCHANGED <<log, unlogged>>
    BY <1>4 DEF Release, logVars
  <2>2. ClosedLog(c) => ClosedLog(c)'
    BY <1>1, <2>1, ClosedIsKept
  <2> QED
    BY <1>1, <1>2, <2>1, <2>2 DEF Sound, Unstarted, OpenLog, IsObserved
<1> QED
  BY <1>3, <1>4

LEMMA StopIsSound ==
  ASSUME PartsOK, NEW c \in Conns, Sound(c), Counted(c), Stop \/ UNCHANGED vars
  PROVE  Sound(c)' /\ Counted(c)'
<1>1. UNCHANGED <<request, relayed, counter, log, unlogged>>
  BY DEF Stop, logVars, vars, relayVars
<1>2. ClosedLog(c) => ClosedLog(c)'
  BY <1>1, ClosedIsKept
<1>3. CASE Stop
  <2>1. /\ phase'[c] = IF phase[c] \in Serviced THEN "cut" ELSE phase[c]
        /\ \A d \in Directions : pipe'[c][d] = "shut"
    BY <1>3 DEF Stop, InService, PartsOK, ConnType
  <2>2. Counted(c)'
    BY <1>1, <2>1 DEF Counted
  <2> QED
    BY <1>1, <1>2, <2>1, <2>2 DEF Sound, Unstarted, Serviced, OpenLog, IsObserved
<1>4. CASE UNCHANGED vars
  BY <1>2, <1>4 DEF vars, relayVars, logVars, Sound, Counted, Unstarted, OpenLog, IsObserved,
     DueIsRight, Reports
<1> QED
  BY <1>3, <1>4

\* Every connection goes on being sound, whichever of them takes the step.
LEMMA NextSound ==
  ASSUME ProxyInv, [Next]_vars
  PROVE  ProxyInv'
<1> USE DEF ProxyInv
<1>1. ASSUME NEW c \in Conns,
             \/ Shed(c) \/ Accept(c) \/ ReadHead(c) \/ Dial(c) \/ Relay(c)
             \/ Parts(c) \/ LeaveRecord(c) \/ Release(c)
      PROVE  ProxyInv'
  <2>1. Sound(c)' /\ Counted(c)'
    BY <1>1, HeadIsSound, DialIsSound, RelayIsSound, EndIsSound
  <2>2. \A e \in Conns : e # c => Sound(e)' /\ Counted(e)'
    BY <1>1, OthersAreSame, SameIsSound
  <2>3. PartsOK'
    <3>1. LeaveRecord(c) => due[c] \in Record
      BY DEF LeaveRecord, Sound, DueIsRight
    <3> QED
      BY <1>1, <3>1, HeadTyped, RelayTyped
  <2> QED
    BY <2>1, <2>2, <2>3
<1>2. CASE Stop \/ UNCHANGED vars
  BY <1>2, StopTyped, StopIsSound
<1> QED
  BY <1>1, <1>2 DEF Next, Quiet

LEMMA AlwaysSound == Spec => []ProxyInv
<1>1. Init => ProxyInv
  BY PartsInit DEF Init, ProxyInv, Sound, Counted, Unstarted, Zero, IsObserved
<1> QED
  BY <1>1, NextSound, PTL DEF Spec

\* A log is empty, or holds an open record, a closing record, or both in order.
LEMMA LogIsShort ==
  ASSUME ProxyInv, NEW c \in Conns
  PROVE  \/ log[c] = <<>>
         \/ log[c] = <<Opening>>
         \/ \E r \in Record : /\ r.action = "connect" /\ Reports(c, r)
                              /\ log[c] = <<r>> \/ (OfTunnel(r) /\ log[c] = <<Opening, r>>)
<1>1. log[c] \in Seq(Record)
  BY DEF ProxyInv, PartsOK, RecordType
<1>2. OpenLog(c) \/ ClosedLog(c)
  BY DEF ProxyInv, PartsOK, ConnType, Sound, Unstarted, Serviced, Ended, OpenLog
<1>3. \A i \in DOMAIN log[c] : log[c][i] \in Record
  BY <1>1
<1> QED
  BY <1>2, <1>3 DEF OpenLog, ClosedLog

\* No tunnel carries a byte before its open record is in the log, unless the
\* sink raised, and no connection has a second open record.
THEOREM TunnelsAreObserved == Spec => []TunnelIsObserved
<1>1. ASSUME ProxyInv PROVE TunnelIsObserved
  <2> SUFFICES ASSUME NEW c \in Conns
               PROVE  /\ request[c] = "connect" /\ (\E d \in Directions : relayed[c][d] > 0)
                           => Logged(c, "open") = {1} \/ c \in unlogged
                      /\ Logged(c, "open") \subseteq {1}
    BY DEF TunnelIsObserved
  <2>1. Opening.action = "open"
    BY DEF Opening, Closing
  <2>2. Logged(c, "open") \subseteq {1}
    BY <1>1, <2>1, LogIsShort DEF Logged
  <2>3. (\E d \in Directions : relayed[c][d] > 0) => IsObserved(c)
    BY <1>1 DEF ProxyInv, Sound
  <2>4. log[c] # <<>> /\ log[c][1] = Opening => Logged(c, "open") = {1}
    BY <1>1, <2>1, <2>2, LogIsShort DEF Logged
  <2> QED
    BY <2>2, <2>3, <2>4 DEF IsObserved
<1> QED
  BY <1>1, AlwaysSound, PTL

\* An open record and a closing record of one connection correlate.
THEOREM RecordsCorrelate == Spec => []PairsCorrelate
<1>1. ASSUME ProxyInv PROVE PairsCorrelate
  <2> SUFFICES ASSUME NEW c \in Conns, Logged(c, "open") # {},
                      NEW i \in Logged(c, "connect")
               PROVE  /\ i = 2
                      /\ log[c][2].id = log[c][1].id
                      /\ log[c][2].target = log[c][1].target
                      /\ log[c][2].verdict = log[c][1].verdict
    BY DEF PairsCorrelate
  <2>1. /\ Opening.action = "open" /\ Opening.id = "own" /\ Opening.target = "own"
        /\ Opening.verdict = "allowed"
    BY DEF Opening, Closing
  <2>2. CASE log[c] = <<>>
    BY <2>2 DEF Logged
  <2>3. CASE log[c] = <<Opening>>
    BY <2>1, <2>3 DEF Logged
  <2>4. ASSUME NEW r \in Record, r.action = "connect", log[c] = <<r>>
        PROVE  FALSE
    BY <2>4 DEF Logged
  <2>5. ASSUME NEW r \in Record, r.action = "connect", OfTunnel(r), log[c] = <<Opening, r>>
        PROVE  i = 2 /\ log[c][2] = r /\ log[c][1] = Opening
    BY <2>1, <2>5 DEF Logged
  <2> QED
    BY <1>1, <2>1, <2>2, <2>3, <2>4, <2>5, LogIsShort DEF OfTunnel
<1> QED
  BY <1>1, AlwaysSound, PTL

\* A closing record counts the chunks that reached the far side, all but the
\* last of a direction at most.
THEOREM CountsAreRelayed == Spec => []BytesAreRelayed
<1>1. ASSUME ProxyInv PROVE BytesAreRelayed
  <2> SUFFICES ASSUME NEW c \in Conns, NEW i \in Logged(c, "connect")
               PROVE  Reports(c, log[c][i])
    BY DEF BytesAreRelayed, Reports
  <2>1. Opening.action = "open"
    BY DEF Opening, Closing
  <2> QED
    BY <1>1, <2>1, LogIsShort DEF Logged
<1> QED
  BY <1>1, AlwaysSound, PTL

\* What a log holds by way of closing records.
LEMMA ClosingCounts ==
  ASSUME NEW c \in Conns
  PROVE  /\ OpenLog(c) => Cardinality(Logged(c, "connect")) = 0
         /\ ClosedLog(c) => Cardinality(Logged(c, "connect")) = 1
<1>1. Opening.action = "open"
  BY DEF Opening, Closing
<1>2. ASSUME OpenLog(c) PROVE Logged(c, "connect") = {}
  BY <1>1, <1>2 DEF OpenLog, Logged
<1>3. ASSUME ClosedLog(c) PROVE \E i : Logged(c, "connect") = {i}
  <2>1. PICK r : /\ r.action = "connect"
                 /\ log[c] = <<r>> \/ log[c] = <<Opening, r>>
    BY <1>3 DEF ClosedLog
  <2>2. CASE log[c] = <<r>>
    <3>1. Logged(c, "connect") = {1}
      BY <2>1, <2>2 DEF Logged
    <3> QED
      BY <3>1
  <2>3. CASE log[c] = <<Opening, r>>
    <3>1. Logged(c, "connect") = {2}
      BY <1>1, <2>1, <2>3 DEF Logged
    <3> QED
      BY <3>1
  <2> QED
    BY <2>1, <2>2, <2>3
<1> QED
  BY <1>2, <1>3, FS_EmptySet, FS_Singleton

\* A connection leaves one closing record, none before it ends and never two;
\* one that ended without it had the sink raise.
THEOREM OneRecordCloses == Spec => []OneClosingRecord
<1>1. ASSUME ProxyInv PROVE OneClosingRecord
  <2> SUFFICES ASSUME NEW c \in Conns
               PROVE  LET closing == Cardinality(Logged(c, "connect")) IN
                        /\ closing <= 1
                        /\ closing = 1 => phase[c] \in {"closing", "done", "cut"}
                        /\ phase[c] = "done" => closing = 1 \/ c \in unlogged
                        /\ phase[c] = "shed" => log[c] = <<>>
    BY DEF OneClosingRecord
  <2>1. /\ OpenLog(c) \/ ClosedLog(c)
        /\ phase[c] \notin {"closing", "done", "cut"} => OpenLog(c)
        /\ phase[c] = "done" => ClosedLog(c) \/ c \in unlogged
        /\ phase[c] = "shed" => log[c] = <<>>
    BY <1>1 DEF ProxyInv, PartsOK, ConnType, Sound, Unstarted, Serviced, Ended, OpenLog
  <2> QED
    BY <2>1, ClosingCounts
<1> QED
  BY <1>1, AlwaysSound, PTL

(***************************************************************************)
(* Slots                                                                   *)
(***************************************************************************)

LEMMA InServiceIsFinite == IsFiniteSet(InService) /\ Cardinality(InService) \in Nat
<1>1. InService \subseteq Conns
  BY DEF InService
<1> QED
  BY <1>1, ProxyAssumption, FS_Subset, FS_CardinalityType

LEMMA SlotsStep ==
  ASSUME PartsOK, SlotsAreConnections, [Next]_vars
  PROVE  SlotsAreConnections'
<1> USE DEF SlotsAreConnections
<1>1. ASSUME InService' = InService, UNCHANGED active
      PROVE  SlotsAreConnections'
  BY <1>1
<1>2. ASSUME NEW c \in Conns, Accept(c)
      PROVE  SlotsAreConnections'
  <2>1. c \notin InService /\ InService' = InService \cup {c}
    BY <1>2 DEF Accept, To, InService, Serviced, PartsOK, ConnType
  <2>2. Cardinality(InService') = Cardinality(InService) + 1
    BY <2>1, InServiceIsFinite, FS_AddElement
  <2>3. active \in Nat /\ active' = active + 1 /\ active < MaxConnections
    BY <1>2, InServiceIsFinite, ProxyAssumption DEF Accept, AtCap
  <2> QED
    BY <2>2, <2>3, ProxyAssumption
<1>3. ASSUME NEW c \in Conns, Release(c)
      PROVE  SlotsAreConnections'
  <2>1. c \in InService /\ InService' = InService \ {c}
    BY <1>3 DEF Release, To, InService, Serviced, PartsOK, ConnType
  <2>2. Cardinality(InService') = Cardinality(InService) - 1
    BY <2>1, InServiceIsFinite, FS_RemoveElement
  <2>3. active \in Nat /\ active' = active - 1
    BY <1>3, InServiceIsFinite DEF Release, Released
  <2> QED
    BY <2>2, <2>3, ProxyAssumption
<1>4. ASSUME NEW c \in Conns,
             Shed(c) \/ ReadHead(c) \/ Dial(c) \/ Relay(c) \/ Parts(c) \/ LeaveRecord(c)
      PROVE  SlotsAreConnections'
  <2>1. \A e \in Conns : phase'[e] \in Serviced <=> phase[e] \in Serviced
    BY <1>4 DEF Shed, ReadHead, Dial, DialFails, DialRaises, Establish, Forward, Relay, Write,
       Drained, PipeEnds, Parts, TunnelEnds, UpstreamCloses, PeerTakes, LeaveRecord, Ends, To, Serviced, PartsOK, ConnType
  <2>2. UNCHANGED active
    BY <1>4 DEF Shed, ReadHead, Dial, DialFails, DialRaises, Establish, Forward, Relay, Write,
       Drained, PipeEnds, Parts, TunnelEnds, UpstreamCloses, PeerTakes, LeaveRecord
  <2> QED
    BY <1>1, <2>1, <2>2 DEF InService
<1>5. CASE Stop
  <2>1. InService' = {} /\ active' = 0
    BY <1>5 DEF Stop, InService, Serviced, PartsOK, ConnType
  <2> QED
    BY <2>1, FS_EmptySet, ProxyAssumption
<1>6. CASE UNCHANGED vars
  BY <1>1, <1>6 DEF vars, InService
<1> QED
  BY <1>2, <1>3, <1>4, <1>5, <1>6 DEF Next, Quiet

\* The slots in use are the connections in service, never more than the cap.
THEOREM SlotsAreCounted == Spec => []SlotsAreConnections
<1>1. Init => SlotsAreConnections
  <2> SUFFICES ASSUME Init PROVE SlotsAreConnections
    OBVIOUS
  <2>1. InService = {} /\ active = 0
    BY DEF Init, InService, Serviced
  <2> QED
    BY <2>1, FS_EmptySet, ProxyAssumption DEF SlotsAreConnections
<1>2. ProxyInv => PartsOK
  BY DEF ProxyInv
<1> QED
  BY <1>1, <1>2, SlotsStep, AlwaysSound, PTL DEF Spec

\* The proxy's state has its type in every reachable state.
THEOREM TypeCorrect == Spec => []TypeOK
<1>1. ProxyInv /\ SlotsAreConnections => TypeOK
  BY TypeParts, InServiceIsFinite DEF ProxyInv, SlotsAreConnections
<1> QED
  BY <1>1, SlotsAreCounted, AlwaysSound, PTL

(***************************************************************************)
(* Verdicts                                                                *)
(***************************************************************************)

\* A record carries the verdict of its connection, or is that of an exception.
Truthful(c, r) == r = Unexpected \/ (r.verdict = "allowed" <=> c \in dialed)

\* Verdict and dial go together, from the head to the record.
Judged(c) ==
  /\ phase[c] \in {"new", "head"} => c \notin dialed
  /\ phase[c] \in {"dial", "tunnel", "parting"} => c \in dialed
  /\ phase[c] = "ending" => Truthful(c, due[c])
  /\ \A i \in DOMAIN log[c] : Truthful(c, log[c][i])

\* But for the record of an unexpected exception, "allowed" is written of the
\* connections whose target was contacted, and "denied" of the others.
VerdictsAreTrue ==
  \A c \in Conns : \A i \in DOMAIN log[c] :
    log[c][i] # Unexpected => (log[c][i].verdict = "allowed" <=> c \in dialed)

LEMMA Verdicts ==
  /\ \A target, bytes : Closing(target, "denied", bytes).verdict = "denied"
  /\ \A target, bytes : Closing(target, "allowed", bytes).verdict = "allowed"
  /\ Opening.verdict = "allowed"
BY DEF Closing, Opening

\* A connection another one's step leaves alone keeps its verdict.
LEMMA SameIsJudged ==
  ASSUME NEW c \in Conns, Judged(c), Same(c), c \in dialed' <=> c \in dialed
  PROVE  Judged(c)'
BY DEF Judged, Same, Truthful, Unexpected, Closing, Zero

\* What an append adds to a log of true records.
LEMMA AppendIsTruthful ==
  ASSUME RecordType, NEW c \in Conns, NEW r \in Record, SafeAppend(c, r),
         Truthful(c, r), \A i \in DOMAIN log[c] : Truthful(c, log[c][i])
  PROVE  \A i \in DOMAIN log'[c] : Truthful(c, log'[c][i])
<1>1. log[c] \in Seq(Record)
  BY DEF RecordType
<1>2. CASE log'[c] = log[c]
  BY <1>2
<1>3. CASE log'[c] = Append(log[c], r)
  BY <1>1, <1>3
<1> QED
  BY <1>2, <1>3, AppendsOne

LEMMA StepIsJudged ==
  ASSUME ProxyInv, NEW c \in Conns, Judged(c),
         \/ Shed(c) \/ Accept(c) \/ ReadHead(c) \/ Dial(c) \/ Relay(c)
         \/ Parts(c) \/ LeaveRecord(c) \/ Release(c)
  PROVE  Judged(c)'
<1> USE DEF ProxyInv, PartsOK, ConnType, RecordType, To, Ends, relayVars, logVars
<1>0. \A r : Truthful(c, r)' <=> r = Unexpected \/ (r.verdict = "allowed" <=> c \in dialed')
  BY DEF Truthful, Unexpected, Closing, Zero
<1>1. CASE Shed(c) \/ Accept(c) \/ Relay(c) \/ Release(c)
  BY <1>0, <1>1 DEF Shed, Accept, Relay, Write, Drained, PipeEnds, Release, Judged, Truthful
<1>2. CASE ReadHead(c)
  <2>1. log[c] = <<>>
    BY <1>2 DEF ReadHead, Sound, Unstarted
  <2>2. c \notin dialed /\ log'[c] = <<>>
    BY <1>2, <2>1 DEF ReadHead, Judged
  <2>3. PICK r \in Requests :
          /\ request' = [request EXCEPT ![c] = r]
          /\ \/ r = "malformed" /\ Ends(c, 400, Closing("invalid", "denied", Zero))
             \/ r = "unmatched" /\ Ends(c, 403, Closing("own", "denied", Zero))
             \/ r = "garbled" /\ Ends(c, None, Unexpected)
             \/ r \in {"connect", "absolute"} /\ To(c, "dial") /\ UNCHANGED <<answer, due>>
          /\ dialed' = IF r \in {"connect", "absolute"} THEN dialed \cup {c} ELSE dialed
    BY <1>2 DEF ReadHead
  <2>5. /\ phase'[c] \in {"dial", "ending"}
        /\ phase'[c] = "dial" => c \in dialed'
    BY <2>2, <2>3
  <2>6. phase'[c] = "ending" => Truthful(c, due[c])'
    <3>1. CASE r \in {"connect", "absolute"}
      <4>1. To(c, "dial")
        BY <2>3, <3>1
      <4> QED
        BY <4>1
    <3>2. CASE r \notin {"connect", "absolute"}
      <4>1. c \notin dialed'
        BY <2>2, <2>3, <3>2
      <4>2. due'[c] \in {Closing("invalid", "denied", Zero), Closing("own", "denied", Zero), Unexpected}
        BY <2>3, <3>2
      <4>3. due'[c] = Unexpected \/ due'[c].verdict = "denied"
        BY <4>2, Verdicts
      <4> QED
        BY <1>0, <4>1, <4>3
    <3> QED
      BY <3>1, <3>2
  <2> QED
    BY <2>2, <2>5, <2>6 DEF Judged
<1>3. CASE DialFails(c) \/ DialRaises(c) \/ UpstreamCloses(c)
  <2>1. due'[c] = Unexpected \/ due'[c].verdict = "allowed"
    BY <1>3, Verdicts DEF DialFails, DialRaises, UpstreamCloses
  <2>2. c \in dialed /\ UNCHANGED <<dialed, log>> /\ phase'[c] = "ending"
    BY <1>3 DEF DialFails, DialRaises, UpstreamCloses, Judged
  <2> QED
    BY <1>0, <2>1, <2>2 DEF Judged, Truthful
<1>4. CASE Establish(c)
  <2>1. Opening \in Record /\ Truthful(c, Opening) /\ c \in dialed
    BY <1>4, RecordsAreTyped, Verdicts DEF Establish, Truthful, Judged
  <2>2. \A i \in DOMAIN log'[c] : Truthful(c, log'[c][i])
    BY <1>4, <2>1, AppendIsTruthful DEF Establish, Judged
  <2> QED
    BY <1>0, <1>4, <2>1, <2>2 DEF Establish, Judged, Truthful
<1>5. CASE Forward(c)
  BY <1>0, <1>5 DEF Forward, Judged, Truthful
<1>6. CASE LeaveRecord(c)
  <2>1. due[c] \in Record /\ Truthful(c, due[c])
    BY <1>6 DEF LeaveRecord, Sound, DueIsRight, Judged
  <2>2. \A i \in DOMAIN log'[c] : Truthful(c, log'[c][i])
    BY <1>6, <2>1, AppendIsTruthful DEF LeaveRecord, Judged
  <2> QED
    BY <1>0, <1>6, <2>1, <2>2 DEF LeaveRecord, Judged, Truthful
<1>7. CASE TunnelEnds(c) \/ \E d \in Directions : PeerTakes(c, d)
  BY <1>0, <1>7 DEF TunnelEnds, PeerTakes, Judged, Truthful
<1> QED
  BY <1>1, <1>2, <1>3, <1>4, <1>5, <1>6, <1>7 DEF Dial, Parts

\* A serviced connection is recorded as allowed when its target was contacted
\* and as denied when it was not; the record of an exception that reached
\* _handle is the only one that can be wrong (proxy_denied finds it).
THEOREM RecordsTellTheVerdict == Spec => []VerdictsAreTrue
<1> DEFINE AllJudged == \A c \in Conns : Judged(c)
<1>1. Init => AllJudged
  BY DEF Init, Judged
<1>2. ASSUME ProxyInv, AllJudged, [Next]_vars
      PROVE  AllJudged'
  <2>1. ASSUME NEW c \in Conns,
               \/ Shed(c) \/ Accept(c) \/ ReadHead(c) \/ Dial(c) \/ Relay(c)
               \/ Parts(c) \/ LeaveRecord(c) \/ Release(c)
        PROVE  AllJudged'
    <3>1. \A e \in Conns : e # c => Same(e)
      BY <1>2, <2>1, OthersAreSame DEF ProxyInv
    <3>2. \A e \in Conns : e # c => (e \in dialed' <=> e \in dialed)
      BY <2>1 DEF Shed, Accept, ReadHead, Dial, DialFails, DialRaises, Establish, Forward,
         Relay, Write, Drained, PipeEnds, Parts, TunnelEnds, UpstreamCloses, PeerTakes, LeaveRecord, Release
    <3> QED
      BY <1>2, <2>1, <3>1, <3>2, SameIsJudged, StepIsJudged
  <2>2. CASE Stop
    <3>1. \A c \in Conns : phase'[c] \notin Serviced
      BY <1>2, <2>2 DEF Stop, InService, Serviced
    <3> QED
      BY <1>2, <2>2, <3>1 DEF Stop, logVars, Serviced, Judged, Truthful,
         Unexpected, Closing, Zero
  <2>3. CASE UNCHANGED vars
    BY <1>2, <2>3 DEF vars, logVars, Judged, Truthful, Unexpected, Closing, Zero
  <2> QED
    BY <1>2, <2>1, <2>2, <2>3 DEF Next, Quiet
<1>3. AllJudged => VerdictsAreTrue
  BY DEF Judged, Truthful, VerdictsAreTrue
<1> QED
  BY <1>1, <1>2, <1>3, AlwaysSound, PTL DEF Spec

=============================================================================
