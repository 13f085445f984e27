---------------------------- MODULE SessionProofs ----------------------------
(***************************************************************************)
(* The client half answers with the right bytes and forgets no request,    *)
(* for every size of world, way to cut it into pieces, and channel; and    *)
(* the two transfer tasks of a session never wait for each other.          *)
(*                                                                         *)
(* The bytes of an answer are right because what the proxy has are the     *)
(* pieces it took, from the first on; or nothing, once it has taken all of *)
(* them (ClientInv).  The tasks take turns: at most one message is under   *)
(* way, and where it is follows from what the tasks do (TurnInv).          *)
(***************************************************************************)
EXTENDS Session, SequenceTheorems, TLAPS

\* Where the first n pieces end.
EndOf(n) == IF n = 0 THEN 0 ELSE Pieces[n]

\* What the proxy has are the pieces it took.
DataInv ==
    /\ world_data_done => ~sending /\ taken = given
    /\ \/ world_data = Bytes(1, EndOf(taken))
       \/ world_data_done /\ world_data = <<>>

ClientInv == TypeOK /\ DataInv /\ BlocksRight /\ RequestsKept

-----------------------------------------------------------------------------
\* The bytes between two places.
LEMMA BytesFacts ==
    ASSUME NEW m \in Nat, NEW k \in Nat
    PROVE  /\ Bytes(m + 1, m + k) \in Seq(m + 1 .. m + k)
           /\ Bytes(m + 1, m + k) \in Seq(Nat)
           /\ Len(Bytes(m + 1, m + k)) = k
           /\ \A n \in 1 .. k : Bytes(m + 1, m + k)[n] = m + n
<1>1. Bytes(m + 1, m + k) = [n \in 1 .. k |-> m + n]
  BY DEF Bytes
<1>2. \A n \in 1 .. k : m + n \in m + 1 .. m + k /\ m + n \in Nat
  OBVIOUS
<1> QED
  BY <1>1, <1>2

LEMMA FirstBytes ==
    ASSUME NEW e \in Nat
    PROVE  /\ Bytes(1, e) \in Seq(1 .. e) /\ Bytes(1, e) \in Seq(Nat)
           /\ Len(Bytes(1, e)) = e
           /\ \A n \in 1 .. e : Bytes(1, e)[n] = n
<1>1. Bytes(1, e) = [n \in 1 .. e |-> n]
  BY DEF Bytes
<1> QED
  BY <1>1

\* What follows the first e bytes makes them the first f.
LEMMA BytesJoin ==
    ASSUME NEW e \in Nat, NEW f \in Nat, e <= f
    PROVE  Bytes(1, e) \o Bytes(e + 1, f) = Bytes(1, f)
<1> DEFINE s == Bytes(1, e)
           t == Bytes(e + 1, f)
           u == Bytes(1, f)
<1>1. s \in Seq(Nat) /\ Len(s) = e /\ \A n \in 1 .. e : s[n] = n
  BY FirstBytes
<1>2. u \in Seq(Nat) /\ Len(u) = f /\ \A n \in 1 .. f : u[n] = n
  BY FirstBytes
<1>3. t = [n \in 1 .. f - e |-> e + n] /\ f - e \in Nat
  BY DEF Bytes
<1>4. t \in Seq(Nat) /\ Len(t) = f - e /\ \A n \in 1 .. f - e : t[n] = e + n
  BY <1>3
<1>5. s \o t \in Seq(Nat) /\ Len(s \o t) = f
  BY <1>1, <1>4
<1>6. \A n \in 1 .. f : (s \o t)[n] = u[n]
  <2> TAKE n \in 1 .. f
  <2>1. (s \o t)[n] = IF n <= e THEN s[n] ELSE t[n - e]
    BY <1>1, <1>4
  <2> QED
    BY <1>1, <1>2, <1>4, <2>1, SMTT(30)
<1>7. s \o t = u
  BY <1>2, <1>5, <1>6, SeqEqual
<1> QED
  BY <1>7 DEF s, t, u

\* A part of the first e bytes is cut out at its place.
LEMMA BytesPart ==
    ASSUME NEW e \in Nat, NEW m \in Nat, NEW k \in Nat, m + k <= e
    PROVE  SubSeq(Bytes(1, e), m + 1, m + k) = Bytes(m + 1, m + k)
<1> DEFINE s == Bytes(1, e)
           t == Bytes(m + 1, m + k)
           u == SubSeq(s, m + 1, m + k)
<1>1. t \in Seq(Nat) /\ Len(t) = k /\ \A n \in 1 .. k : t[n] = m + n
  BY BytesFacts
<1>3. \A n \in 1 .. e : s[n] = n
  BY FirstBytes
<1> HIDE DEF s, t
<1>4. \A n \in m + 1 .. m + k : s[n] = n
  BY <1>3
<1>5. u \in Seq(Nat)
  BY <1>4
<1>6. Len(u) = k /\ \A n \in 1 .. k : u[n] = s[m + n]
  BY <1>4
<1> HIDE DEF u
<1>7. \A n \in 1 .. k : u[n] = t[n]
  BY <1>1, <1>4, <1>6
<1>8. u = t
  BY <1>1, <1>5, <1>6, <1>7, SeqEqual
<1> QED
  BY <1>8 DEF s, t, u

\* A block packet can be read back.
LEMMA PacketFacts ==
    ASSUME NEW b \in Nat, NEW data \in Seq(Nat)
    PROVE  LET packet == TransferBlockPacket(b, data)
           IN  /\ HasType(packet, TransferBlock) /\ BlockId(packet) = b
               /\ BlockData(packet) = data
<1> DEFINE packet == TransferBlockPacket(b, data)
           t == <<b>> \o data
<1>1. <<b>> \in Seq(Nat) /\ Len(<<b>>) = 1 /\ <<b>>[1] = b
  OBVIOUS
<1>2. /\ t \in Seq(Nat) /\ Len(t) = Len(data) + 1 /\ Len(data) \in Nat
      /\ t[1] = b /\ \A n \in 1 .. Len(data) : t[n + 1] = data[n]
  BY <1>1
<1> HIDE DEF t
<1>3. <<13>> \in Seq(Nat) /\ Len(<<13>>) = 1 /\ <<13>>[1] = 13
  OBVIOUS
<1>4. packet = <<13>> \o t
  BY DEF TransferBlockPacket, EncodeFullPacket, TransferBlock, t
<1> HIDE DEF packet
<1>5. /\ packet \in Seq(Nat) /\ Len(packet) = Len(data) + 2
      /\ packet[1] = 13 /\ packet[2] = b
      /\ \A n \in 1 .. Len(data) : packet[n + 2] = data[n]
  <2>1. /\ packet \in Seq(Nat) /\ Len(packet) = Len(data) + 2
        /\ \A n \in 1 .. Len(data) + 2 : packet[n] = IF n <= 1 THEN <<13>>[n] ELSE t[n - 1]
    BY <1>2, <1>3, <1>4
  <2>2. packet[1] = 13 /\ packet[2] = t[1]
    BY <1>2, <1>3, <2>1
  <2>3. ASSUME NEW n \in 1 .. Len(data) PROVE packet[n + 2] = t[n + 1]
    <3>1. n + 2 \in 1 .. Len(data) + 2 /\ ~(n + 2 <= 1) /\ (n + 2) - 1 = n + 1
      BY <1>2
    <3> QED
      BY <2>1, <3>1
  <2> QED
    BY <1>2, <2>1, <2>2, <2>3
<1> DEFINE u == SubSeq(packet, 3, Len(packet))
<1>6. u \in Seq(Nat)
  <2>1. \A n \in 3 .. Len(packet) : packet[n] \in Nat
    BY <1>5
  <2> QED
    BY <1>2, <1>5, <2>1
<1>7. Len(u) = Len(data) /\ \A n \in 1 .. Len(data) : u[n] = packet[n + 2]
  BY <1>2, <1>5
<1> HIDE DEF u
<1>8. u = data
  BY <1>5, <1>6, <1>7, SeqEqual
<1>9. packet # <<>>
  BY <1>2, <1>5
<1>10. HasType(packet, TransferBlock)
  BY <1>5, <1>9 DEF HasType, TransferBlock
<1> QED
  BY <1>5, <1>8, <1>10 DEF BlockId, BlockData, packet, u

-----------------------------------------------------------------------------
\* Pieces follow each other, up to the end of the world.
LEMMA EndFacts ==
    ASSUME NEW n \in 0 .. Len(Pieces)
    PROVE  /\ EndOf(n) \in Nat /\ EndOf(n) <= Blocks * BlockSize
           /\ n < Len(Pieces) => /\ EndOf(n) <= EndOf(n + 1)
                                 /\ Piece(n + 1) = Bytes(EndOf(n) + 1, EndOf(n + 1))
<1> DEFINE W == Blocks * BlockSize
<1>1. /\ W \in Nat /\ Pieces \in Seq(0 .. W) /\ Len(Pieces) \in Nat
      /\ DOMAIN Pieces = 1 .. Len(Pieces)
      /\ \A i, j \in DOMAIN Pieces : i < j => Pieces[i] <= Pieces[j]
  BY PiecesAssumption
<1> HIDE DEF W
<1>2. \A i \in 1 .. Len(Pieces) : Pieces[i] \in Nat /\ Pieces[i] <= W
  BY <1>1
<1>3. EndOf(n) \in Nat /\ EndOf(n) <= W
  BY <1>1, <1>2 DEF EndOf
<1>4. ASSUME n < Len(Pieces)
      PROVE  /\ EndOf(n) <= EndOf(n + 1)
             /\ Piece(n + 1) = Bytes(EndOf(n) + 1, EndOf(n + 1))
  <2>1. n + 1 \in 1 .. Len(Pieces) /\ EndOf(n + 1) = Pieces[n + 1]
    BY <1>1, <1>4 DEF EndOf
  <2>2. CASE n = 0
    BY <1>2, <2>1, <2>2 DEF EndOf, Piece, PieceStart
  <2>3. CASE n # 0
    <3>1. n \in 1 .. Len(Pieces) /\ EndOf(n) = Pieces[n] /\ (n + 1) - 1 = n /\ n + 1 # 1
      BY <1>1, <2>3 DEF EndOf
    <3>2. EndOf(n) <= EndOf(n + 1)
      BY <1>1, <2>1, <3>1
    <3>3. Piece(n + 1) = Bytes(EndOf(n) + 1, EndOf(n + 1))
      BY <2>1, <3>1 DEF Piece, PieceStart
    <3> QED
      BY <3>2, <3>3
  <2> QED
    BY <2>2, <2>3
<1> QED
  BY <1>3, <1>4 DEF W

\* A block that is within the world is one of its blocks.
LEMMA BlockWithin ==
    ASSUME NEW b \in Nat, b * BlockSize + BlockSize <= Blocks * BlockSize
    PROVE  b \in Block
<1>1. BlockSize \in Nat \ {0} /\ Blocks \in Nat \ {0}
  BY PiecesAssumption
<1>2. ASSUME b >= Blocks PROVE FALSE
  <2>1. b * BlockSize >= Blocks * BlockSize
    BY <1>1, <1>2
  <2>2. b * BlockSize \in Nat /\ Blocks * BlockSize \in Nat
    BY <1>1
  <2> QED
    BY <1>1, <2>1, <2>2
<1> QED
  BY <1>1, <1>2 DEF Block

\* An answer from the first bytes of the world holds the block that it names.
LEMMA AnswerRight ==
    ASSUME NEW e \in Nat, e <= Blocks * BlockSize, NEW b \in Nat, Fulfillable(b, Bytes(1, e))
    PROVE  LET packet == Answer(b, Bytes(1, e))
           IN  /\ HasType(packet, TransferBlock) /\ BlockId(packet) \in Block
               /\ BlockData(packet) = Bytes(BlockId(packet) * BlockSize + 1,
                                            BlockId(packet) * BlockSize + BlockSize)
<1> DEFINE m == b * BlockSize
           packet == Answer(b, Bytes(1, e))
           block == Bytes(m + 1, m + BlockSize)
<1>1. BlockSize \in Nat \ {0} /\ Blocks \in Nat \ {0} /\ m \in Nat
  BY PiecesAssumption
<1>2. m + BlockSize <= e
  BY FirstBytes DEF Fulfillable
<1>3. b \in Block
  <2>1. m + BlockSize <= Blocks * BlockSize
    BY <1>1, <1>2
  <2> QED
    BY <2>1, BlockWithin
<1> HIDE DEF m
<1>4. SubSeq(Bytes(1, e), m + 1, m + BlockSize) = block /\ block \in Seq(Nat)
  BY <1>1, <1>2, BytesPart, BytesFacts, ZenonT(30)
<1>5. packet = TransferBlockPacket(b, block)
  BY <1>4 DEF Answer, m
<1> HIDE DEF packet, block
<1>6. HasType(packet, TransferBlock) /\ BlockId(packet) = b /\ BlockData(packet) = block
  BY <1>4, <1>5, PacketFacts
<1> QED
  BY <1>3, <1>6 DEF packet, block, m

\* What can be answered is answered from the first bytes of the world.
LEMMA DataFacts ==
    ASSUME ClientInv
    PROVE  /\ EndOf(taken) \in Nat /\ EndOf(taken) <= Blocks * BlockSize
           /\ Blocks * BlockSize \in Nat
           /\ \A b \in Nat : Fulfillable(b, world_data) => world_data = Bytes(1, EndOf(taken))
<1>1. taken \in 0 .. Len(Pieces)
  <2>1. Len(Pieces) \in Nat
    BY PiecesAssumption
  <2> QED
    BY <2>1 DEF ClientInv, TypeOK
<1>2. \A b \in Nat : ~Fulfillable(b, <<>>)
  <2>1. \A b \in Nat : b * BlockSize \in Nat
    BY PiecesAssumption
  <2>2. Len(<<>>) = 0
    OBVIOUS
  <2> QED
    BY <2>1, <2>2, PiecesAssumption DEF Fulfillable
<1> QED
  BY <1>1, <1>2, EndFacts, PiecesAssumption DEF ClientInv, DataInv

-----------------------------------------------------------------------------
LEMMA ClientInit == Init => ClientInv
<1> SUFFICES ASSUME Init PROVE ClientInv
  OBVIOUS
<1>1. Len(Pieces) \in Nat
  BY PiecesAssumption
<1>2. Bytes(1, 0) = <<>>
  <2>1. Bytes(1, 0) \in Seq(Nat) /\ Len(Bytes(1, 0)) = 0
    BY FirstBytes
  <2> QED
    BY <2>1
<1>3. TypeOK
  <2>1. world_data \in Seq(1 .. Blocks * BlockSize)
    BY DEF Init
  <2>2. given \in 0 .. Len(Pieces) /\ taken \in 0 .. given /\ given - taken <= Capacity
    BY <1>1, CapacityAssumption DEF Init
  <2> QED
    BY <2>1, <2>2 DEF Init, TypeOK
<1> QED
  BY <1>2, <1>3 DEF Init, ClientInv, DataInv, EndOf, BlocksRight, RequestsKept

LEMMA RequestBlockStep == ASSUME ClientInv, NEW b \in Nat, RequestBlock(b) PROVE ClientInv'
<1>1. UNCHANGED <<running, world_data, world_data_done, given, taken, sending>> /\ quiet' = FALSE
  BY DEF RequestBlock
<1>2. DataInv'
  BY <1>1 DEF ClientInv, DataInv
<1>3. CASE Fulfillable(b, world_data)
  <2> DEFINE packet == Answer(b, world_data)
  <2>1. /\ unanswered' = unanswered \ {b} /\ answers' = answers \cup {packet}
        /\ pending_requests' = pending_requests
    BY <1>3 DEF RequestBlock
  <2>2. /\ HasType(packet, TransferBlock) /\ BlockId(packet) \in Block
        /\ BlockData(packet) = Bytes(BlockId(packet) * BlockSize + 1,
                                     BlockId(packet) * BlockSize + BlockSize)
    <3>1. world_data = Bytes(1, EndOf(taken))
      BY <1>3, DataFacts
    <3> QED
      BY <1>3, <3>1, DataFacts, AnswerRight
  <2> HIDE DEF packet
  <2>3. TypeOK'
    BY <1>1, <2>1, <2>2 DEF ClientInv, TypeOK
  <2>4. BlocksRight'
    BY <2>1, <2>2 DEF ClientInv, BlocksRight
  <2>5. b \notin pending_requests
    BY <1>3 DEF ClientInv, RequestsKept, Fulfillable
  <2>6. RequestsKept'
    BY <1>1, <2>1, <2>5 DEF ClientInv, RequestsKept
  <2> QED
    BY <1>2, <2>3, <2>4, <2>6 DEF ClientInv
<1>4. CASE ~Fulfillable(b, world_data)
  <2>1. /\ unanswered' = unanswered \cup {b} /\ pending_requests' = pending_requests \cup {b}
        /\ answers' = answers
    BY <1>4 DEF RequestBlock
  <2>2. TypeOK'
    BY <1>1, <2>1 DEF ClientInv, TypeOK
  <2>3. RequestsKept'
    BY <1>1, <1>4, <2>1 DEF ClientInv, RequestsKept, Fulfillable
  <2> QED
    BY <1>2, <2>1, <2>2, <2>3 DEF ClientInv, BlocksRight
<1> QED
  BY <1>3, <1>4

LEMMA PassPacketStep == ASSUME ClientInv, PassPacket PROVE ClientInv'
<1>1. /\ UNCHANGED <<running, world_data_done, pending_requests, quiet, given, taken, sending,
                     unanswered, answers>>
      /\ \/ world_data' = world_data
         \/ world_data_done /\ world_data' = <<>>
  BY DEF PassPacket, Droppable
<1>2. <<>> \in Seq(1 .. Blocks * BlockSize) /\ Len(<<>>) = 0
  OBVIOUS
<1>3. TypeOK'
  BY <1>1, <1>2 DEF ClientInv, TypeOK
<1>4. DataInv'
  BY <1>1 DEF ClientInv, DataInv
<1>5. RequestsKept'
  <2>1. \A b \in Nat : ~(b * BlockSize + BlockSize <= 0)
    <3>1. \A b \in Nat : b * BlockSize \in Nat
      BY PiecesAssumption
    <3> QED
      BY <3>1, PiecesAssumption
  <2> QED
    BY <1>1, <1>2, <2>1 DEF ClientInv, TypeOK, RequestsKept
<1> QED
  BY <1>1, <1>3, <1>4, <1>5 DEF ClientInv, BlocksRight

\* The next piece continues the data, and answers what it completes.
LEMMA TakePieceStep == ASSUME ClientInv, TakePiece PROVE ClientInv'
<1> DEFINE e == EndOf(taken)
           f == EndOf(taken + 1)
           fulfilled == {b \in pending_requests : Fulfillable(b, world_data')}
<1>1. /\ taken < given /\ taken' = taken + 1
      /\ world_data' = world_data \o Piece(taken + 1)
      /\ pending_requests' = {b \in pending_requests : ~Fulfillable(b, world_data')}
      /\ unanswered' = unanswered \ fulfilled
      /\ answers' = answers \cup {Answer(b, world_data') : b \in fulfilled}
      /\ quiet' = FALSE
      /\ UNCHANGED <<running, world_data_done, given, sending>>
  BY DEF TakePiece, StillPending
<1>2. /\ taken \in 0 .. Len(Pieces) /\ taken + 1 \in 0 .. Len(Pieces) /\ taken < Len(Pieces)
      /\ taken + 1 \in 0 .. given /\ given - (taken + 1) <= Capacity
  <2>1. Len(Pieces) \in Nat
    BY PiecesAssumption
  <2> QED
    BY <1>1, <2>1, CapacityAssumption DEF ClientInv, TypeOK
<1>3. world_data = Bytes(1, e) /\ ~world_data_done
  BY <1>1, <1>2 DEF ClientInv, DataInv, TypeOK
<1>4. /\ e \in Nat /\ f \in Nat /\ e <= f /\ f <= Blocks * BlockSize
      /\ Piece(taken + 1) = Bytes(e + 1, f)
  BY <1>2, EndFacts
<1> HIDE DEF e, f
<1>5. world_data' = Bytes(1, f)
  BY <1>1, <1>3, <1>4, BytesJoin
<1>6. DataInv'
  BY <1>1, <1>3, <1>5 DEF ClientInv, DataInv, f
<1>7. ASSUME NEW b \in fulfilled
      PROVE  LET packet == Answer(b, world_data')
             IN  /\ HasType(packet, TransferBlock) /\ BlockId(packet) \in Block
                 /\ BlockData(packet) = Bytes(BlockId(packet) * BlockSize + 1,
                                              BlockId(packet) * BlockSize + BlockSize)
  <2>1. b \in Nat /\ Fulfillable(b, Bytes(1, f))
    BY <1>5 DEF ClientInv, TypeOK
  <2> QED
    BY <1>4, <1>5, <2>1, AnswerRight
<1>8. TypeOK'
  <2>1. world_data' \in Seq(1 .. Blocks * BlockSize)
    <3>1. Bytes(1, f) \in Seq(1 .. f)
      BY <1>4, FirstBytes
    <3>2. Blocks * BlockSize \in Nat
      BY PiecesAssumption
    <3>3. 1 .. f \subseteq 1 .. Blocks * BlockSize
      BY <1>4, <3>2
    <3> QED
      BY <1>5, <3>1, <3>3, SeqMonotonic
  <2>2. \A packet \in answers' : HasType(packet, TransferBlock) /\ BlockId(packet) \in Block
    BY <1>1, <1>7 DEF ClientInv, TypeOK
  <2>3. pending_requests' \subseteq Nat /\ unanswered' \subseteq Nat
    BY <1>1 DEF ClientInv, TypeOK
  <2> QED
    BY <1>1, <1>2, <2>1, <2>2, <2>3 DEF ClientInv, TypeOK
<1>9. BlocksRight'
  BY <1>1, <1>7 DEF ClientInv, BlocksRight
<1>10. RequestsKept'
  <2>1. unanswered' = pending_requests'
    BY <1>1 DEF ClientInv, RequestsKept
  <2> QED
    BY <1>1, <2>1 DEF RequestsKept, Fulfillable
<1> QED
  BY <1>6, <1>8, <1>9, <1>10 DEF ClientInv

\* The other steps leave data, requests and answers alone.
LEMMA OtherStep ==
    ASSUME ClientInv, TakeEnd \/ BecomeQuiet \/ Stop \/ SendPiece \/ EndTransfer \/ UNCHANGED vars
    PROVE  ClientInv'
<1>1. UNCHANGED <<world_data, pending_requests, taken, unanswered, answers>>
  BY DEF TakeEnd, BecomeQuiet, Stop, SendPiece, EndTransfer, vars
<1>2. TypeOK'
  <2>1. Len(Pieces) \in Nat
    BY PiecesAssumption
  <2>2. given' \in 0 .. Len(Pieces) /\ taken' \in 0 .. given' /\ given' - taken' <= Capacity
    <3>1. CASE SendPiece
      BY <2>1, <3>1, CapacityAssumption DEF ClientInv, TypeOK, SendPiece
    <3>2. CASE ~SendPiece
      <4>1. UNCHANGED <<given, taken>>
        BY <3>2 DEF TakeEnd, BecomeQuiet, Stop, EndTransfer, vars
      <4> QED
        BY <4>1 DEF ClientInv, TypeOK
    <3> QED
      BY <3>1, <3>2
  <2>3. /\ running' \in BOOLEAN /\ world_data_done' \in BOOLEAN /\ quiet' \in BOOLEAN
        /\ sending' \in BOOLEAN
    BY DEF ClientInv, TypeOK, TakeEnd, BecomeQuiet, Stop, SendPiece, EndTransfer, vars
  <2> QED
    BY <1>1, <2>2, <2>3 DEF ClientInv, TypeOK
<1>3. DataInv'
  BY DEF ClientInv, DataInv, TakeEnd, BecomeQuiet, Stop, SendPiece, EndTransfer, vars
<1> QED
  BY <1>1, <1>2, <1>3 DEF ClientInv, BlocksRight, RequestsKept

LEMMA ClientNext == ClientInv /\ [Next]_vars => ClientInv'
BY RequestBlockStep, PassPacketStep, TakePieceStep, OtherStep DEF Next

LEMMA ClientInvariant == Spec => []ClientInv
BY ClientInit, ClientNext, PTL DEF Spec

-----------------------------------------------------------------------------
\* Who has to read: at most one message is under way, and the task that waits
\* is not the one that has to write.
TurnInv ==
    /\ phase # "done" => transfer = "none"
    /\ fetch = "starting" =>
           /\ to_server = <<>> /\ transfer # "answering"
           /\ transfer \in {"none", "preparing"} => to_client = <<>>
           /\ transfer = "reading" => to_client # <<>>
    /\ fetch # "starting" => transfer \notin {"none", "preparing"}
    /\ fetch \in {"working", "waiting"} =>
           to_client = <<>> /\ to_server = <<>> /\ transfer # "answering"
    /\ fetch \in {"asking", "waiting"} => given < Len(Pieces) /\ have < Needs[given + 1]
    /\ fetch = "asking" =>
           /\ to_client = <<>> \/ to_server = <<>>
           /\ transfer = "reading" => to_client # <<>> \/ to_server # <<>>
           /\ transfer = "answering" => to_client = <<>> /\ to_server = <<>>

SessionInv == SessionTypeOK /\ TurnInv

\* A batch more is not more than the last piece needs.
LEMMA NeedsFacts ==
    ASSUME NEW g \in 0 .. Len(Pieces), g < Len(Pieces), NEW h \in Nat, h < Needs[g + 1]
    PROVE  h + 1 \in 0 .. Needs[Len(Needs)]
<1>1. /\ Len(Pieces) \in Nat /\ Needs \in Seq(Nat) /\ Len(Needs) = Len(Pieces)
      /\ DOMAIN Needs = 1 .. Len(Needs)
      /\ \A i, j \in DOMAIN Needs : i < j => Needs[i] <= Needs[j]
  BY PiecesAssumption, NeedsAssumption
<1>2. g + 1 \in DOMAIN Needs /\ Len(Needs) \in DOMAIN Needs /\ g + 1 <= Len(Needs)
  BY <1>1
<1>3. Needs[g + 1] \in Nat /\ Needs[Len(Needs)] \in Nat
  BY <1>1, <1>2
<1>4. Needs[g + 1] <= Needs[Len(Needs)]
  BY <1>1, <1>2, <1>3
<1> QED
  BY <1>3, <1>4

LEMMA SessionInitInv == SessionInit => SessionInv
<1> SUFFICES ASSUME SessionInit PROVE SessionInv
  OBVIOUS
<1>1. TypeOK
  BY ClientInit DEF SessionInit, ClientInv
<1>2. 0 \in 0 .. Needs[Len(Needs)]
  <2>1. Len(Pieces) \in Nat /\ Len(Pieces) # 0
    BY PiecesAssumption
  <2>2. Len(Needs) \in 1 .. Len(Needs)
    BY <2>1, NeedsAssumption
  <2>3. Needs[Len(Needs)] \in Nat
    BY <2>2, NeedsAssumption
  <2> QED
    BY <2>3
<1> QED
  BY <1>1, <1>2 DEF SessionInit, SessionInv, SessionTypeOK, TurnInv

\* A step of the session is a step of the client half, or leaves it alone.
LEMMA SessionStep ==
    ASSUME [SessionNext]_<<vars, session>>
    PROVE  [Next]_vars
<1>1. ASSUME NEW packet \in ClientPacket, FromClient(packet) PROVE [Next]_vars
  <2>1. CASE IsBlockRequest(packet)
    <3>1. RequestedBlock(packet) \in Nat /\ RequestBlock(RequestedBlock(packet))
      BY <1>1, <2>1, RequestAssumption DEF FromClient
    <3> QED
      BY <3>1 DEF Next
  <2>2. CASE ~IsBlockRequest(packet)
    BY <1>1, <2>2 DEF FromClient, Next
  <2> QED
    BY <2>1, <2>2
<1>2. ASSUME NEW packet \in Announcement, MapReady(packet) PROVE [Next]_vars
  BY <1>2 DEF MapReady
<1>3. CASE FinalizeWorld \/ StopServer
  BY <1>3 DEF FinalizeWorld, StopServer
<1>4. CASE ClientHalf
  BY <1>4 DEF ClientHalf, Next
<1>5. CASE ServerTransfer \/ FailServerTransfer
  BY <1>5 DEF ServerTransfer, SendWorldReady, ReadRequest, SendChunks, EndServerTransfer,
     FailServerTransfer
<1>6. CASE ClientTransfer \/ OthersFulfill \/ FailTransfer
  BY <1>6 DEF ClientTransfer, ReadWorldReady, GivePiece, UseCached, WaitForOthers, OthersFulfill,
     RequestChunks, ReadChunks, FinishTransfer, FailTransfer, Next
<1>7. CASE UNCHANGED <<vars, session>>
  BY <1>7
<1> QED
  BY <1>1, <1>2, <1>3, <1>4, <1>5, <1>6, <1>7 DEF SessionNext

\* Steps that leave the session alone, but for pieces that are given.
LEMMA QuietStep ==
    ASSUME SessionInv, TypeOK', UNCHANGED session, given' = given \/ fetch = "working"
    PROVE  SessionInv'
<1>1. SessionTypeOK'
  BY DEF SessionInv, SessionTypeOK, session
<1> QED
  BY <1>1 DEF SessionInv, TurnInv, session

\* A stream that holds one message, or none.
LEMMA StreamFacts ==
    ASSUME NEW m
    PROVE  /\ Append(<<>>, m) = <<m>> /\ Tail(<<m>>) = <<>> /\ <<m>> # <<>>
<1>1. Append(<<>>, m) = <<m>>
  OBVIOUS
<1>2. Tail(<<m>>) = <<>>
  OBVIOUS
<1>3. <<m>> # <<>>
  OBVIOUS
<1> QED
  BY <1>1, <1>2, <1>3

\* The steps of the server half and of its transfer task.
LEMMA ServerStep ==
    ASSUME SessionInv, TypeOK', UNCHANGED <<vars, fetch, have>>,
           \/ \E packet \in Announcement : MapReady(packet)
           \/ FinalizeWorld \/ StopServer \/ ServerTransfer \/ FailServerTransfer
    PROVE  SessionInv'
<1> USE DEF SessionInv
<1>0. given' = given
  BY DEF vars
<1>f. fetch \in {"starting", "working", "asking", "waiting"}
  BY DEF SessionTypeOK
<1>1. ASSUME NEW packet \in Announcement, MapReady(packet) PROVE SessionInv'
  BY <1>0, <1>1 DEF MapReady, SessionTypeOK, TurnInv
<1>2. CASE FinalizeWorld
  BY <1>0, <1>2 DEF FinalizeWorld, SessionTypeOK, TurnInv
<1>3. CASE StopServer
  BY <1>0, <1>3 DEF StopServer, SessionTypeOK, TurnInv
<1>4. CASE SendWorldReady
  <2>1. to_client = <<>> /\ fetch = "starting"
    BY <1>4 DEF SendWorldReady, TurnInv
  <2>2. to_client' = Append(<<>>, "WorldReady")
    BY <1>4, <2>1 DEF SendWorldReady
  <2>3. to_client' = <<"WorldReady">>
    BY <2>2, StreamFacts
  <2> QED
    BY <1>0, <1>4, <2>1, <2>3 DEF SendWorldReady, SessionTypeOK, TurnInv
<1>5. CASE ReadRequest
  <2>1. to_server = <<"RequestChunks">> /\ to_server' = Tail(to_server)
    BY <1>5 DEF ReadRequest, SessionTypeOK
  <2>2. to_server' = <<>>
    BY <2>1, StreamFacts
  <2>3. fetch = "asking"
    BY <1>5, <1>f DEF ReadRequest, TurnInv
  <2>4. to_client = <<>>
    BY <2>1, <2>3, StreamFacts DEF TurnInv
  <2> QED
    BY <1>0, <1>5, <2>2, <2>3, <2>4 DEF ReadRequest, SessionTypeOK, TurnInv
<1>6. CASE SendChunks
  <2>1. to_client = <<>> /\ fetch = "asking" /\ to_server = <<>>
    BY <1>6, <1>f DEF SendChunks, TurnInv
  <2>2. to_client' = Append(<<>>, "SendChunks")
    BY <1>6, <2>1 DEF SendChunks
  <2>3. to_client' = <<"SendChunks">>
    BY <2>2, StreamFacts
  <2> QED
    BY <1>0, <1>6, <2>1, <2>3 DEF SendChunks, SessionTypeOK, TurnInv
<1>7. CASE EndServerTransfer \/ FailServerTransfer
  BY <1>0, <1>7 DEF EndServerTransfer, ServerAtEnd, FailServerTransfer, SessionTypeOK, TurnInv
<1> QED
  BY <1>1, <1>2, <1>3, <1>4, <1>5, <1>6, <1>7 DEF ServerTransfer

\* The steps of the client's transfer task, and the end of its waits.
LEMMA ClientTransferStep ==
    ASSUME SessionInv, TypeOK', ClientTransfer \/ OthersFulfill
    PROVE  SessionInv'
<1> USE DEF SessionInv
<1>1. CASE ReadWorldReady
  <2>0. to_client \in {<<"WorldReady">>, <<"SendChunks">>} /\ to_client' = Tail(to_client)
    BY <1>1 DEF ReadWorldReady, SessionTypeOK
  <2>1. to_client' = <<>> /\ given' = given
    <3>1. to_client' = <<>>
      BY <2>0, StreamFacts
    <3> QED
      BY <1>1, <3>1 DEF ReadWorldReady, vars
  <2> QED
    BY <1>1, <2>1 DEF ReadWorldReady, SessionTypeOK, TurnInv
<1>2. CASE GivePiece
  BY <1>2, QuietStep DEF GivePiece, PieceReady
<1>3. ASSUME NeedsMoreData
      PROVE  have < Needs[given + 1] /\ have + 1 \in 0 .. Needs[Len(Needs)]
  <2>1. Len(Pieces) \in Nat /\ given \in 0 .. Len(Pieces) /\ given < Len(Pieces) /\ have \in Nat
    <3>1. Needs[Len(Needs)] \in Int
      BY PiecesAssumption, NeedsAssumption
    <3> QED
      BY <1>3, <3>1, PiecesAssumption DEF NeedsMoreData, SessionTypeOK, TypeOK
  <2>2. Needs[given + 1] \in Nat
    BY <2>1, NeedsAssumption
  <2>3. have < Needs[given + 1]
    BY <1>3, <2>1, <2>2 DEF NeedsMoreData
  <2> QED
    BY <2>1, <2>3, NeedsFacts
<1>4. CASE UseCached
  <2>1. given' = given /\ fetch' = "working"
    BY <1>4 DEF UseCached, NeedsMoreData, vars
  <2> QED
    BY <1>3, <1>4, <2>1 DEF UseCached, SessionTypeOK, TurnInv
<1>w. CASE WaitForOthers
  <2>1. given' = given /\ given < Len(Pieces) /\ fetch = "working" /\ fetch' = "waiting"
    BY <1>w DEF WaitForOthers, NeedsMoreData, vars
  <2> QED
    BY <1>3, <1>w, <2>1 DEF WaitForOthers, SessionTypeOK, TurnInv
<1>5. CASE RequestChunks
  <2>1. fetch = "working" /\ given' = given /\ given < Len(Pieces) /\ fetch' = "asking"
    BY <1>5 DEF RequestChunks, NeedsMoreData, AfterRequest, vars
  <2>2. to_server = <<>> /\ to_server' = Append(to_server, "RequestChunks")
    BY <1>5, <2>1 DEF RequestChunks, SendRequest, TurnInv
  <2>3. to_server' = <<"RequestChunks">>
    BY <2>2, StreamFacts
  <2> QED
    BY <1>3, <1>5, <2>1, <2>2, <2>3 DEF RequestChunks, SessionTypeOK, TurnInv
<1>a. ASSUME fetch \in {"asking", "waiting"}
      PROVE  have + 1 \in 0 .. Needs[Len(Needs)]
  <2>1. given \in 0 .. Len(Pieces) /\ given < Len(Pieces) /\ have < Needs[given + 1]
    BY <1>a DEF TurnInv, SessionTypeOK, TypeOK
  <2>2. have \in Nat
    <3>1. Needs[Len(Needs)] \in Int
      BY PiecesAssumption, NeedsAssumption
    <3> QED
      BY <3>1 DEF SessionTypeOK
  <2> QED
    BY <2>1, <2>2, NeedsFacts
<1>6. CASE ReadChunks
  <2>0. to_client \in {<<"WorldReady">>, <<"SendChunks">>} /\ to_client' = Tail(to_client)
    BY <1>6 DEF ReadChunks, SessionTypeOK
  <2>1. to_client' = <<>> /\ to_server = <<>> /\ given' = given
    <3>1. to_client' = <<>> /\ to_client # <<>>
      BY <2>0, StreamFacts
    <3>2. to_server = <<>>
      BY <1>6, <3>1 DEF ReadChunks, TurnInv
    <3> QED
      BY <1>6, <3>1, <3>2 DEF ReadChunks, vars
  <2>2. have + 1 \in 0 .. Needs[Len(Needs)]
    BY <1>6, <1>a DEF ReadChunks
  <2> QED
    BY <1>6, <2>1, <2>2 DEF ReadChunks, SessionTypeOK, TurnInv
<1>o. CASE OthersFulfill
  <2>1. given' = given /\ fetch = "waiting" /\ fetch' = "working"
    BY <1>o DEF OthersFulfill, vars
  <2>2. have + 1 \in 0 .. Needs[Len(Needs)]
    BY <1>a, <2>1
  <2> QED
    BY <1>o, <2>1, <2>2 DEF OthersFulfill, SessionTypeOK, TurnInv
<1>7. CASE FinishTransfer
  BY <1>7, QuietStep DEF FinishTransfer, EndTransfer
<1> QED
  BY <1>1, <1>2, <1>4, <1>w, <1>5, <1>6, <1>o, <1>7 DEF ClientTransfer

LEMMA SessionNextInv ==
    ClientInv' /\ SessionInv /\ [SessionNext]_<<vars, session>> => SessionInv'
<1> SUFFICES ASSUME ClientInv', SessionInv, [SessionNext]_<<vars, session>>
             PROVE  SessionInv'
  OBVIOUS
<1>0. TypeOK'
  BY DEF ClientInv
<1>1. ASSUME NEW packet \in ClientPacket, FromClient(packet) PROVE SessionInv'
  BY <1>0, <1>1, QuietStep DEF FromClient, RequestBlock, PassPacket
<1>2. ASSUME NEW packet \in Announcement, MapReady(packet) PROVE SessionInv'
  BY <1>0, <1>2, ServerStep DEF MapReady
<1>3. CASE FinalizeWorld \/ StopServer \/ ServerTransfer \/ FailServerTransfer
  <2>1. UNCHANGED <<vars, fetch, have>>
    BY <1>3 DEF FinalizeWorld, StopServer, ServerTransfer, SendWorldReady, ReadRequest,
       SendChunks, EndServerTransfer, FailServerTransfer
  <2> QED
    BY <1>0, <1>3, <2>1, ServerStep
<1>4. CASE ClientHalf
  BY <1>0, <1>4, QuietStep DEF ClientHalf, TakePiece, TakeEnd, BecomeQuiet, Stop
<1>5. CASE ClientTransfer \/ OthersFulfill
  BY <1>0, <1>5, ClientTransferStep
<1>6. CASE FailTransfer
  BY <1>0, <1>6, QuietStep DEF FailTransfer, EndTransfer
<1>7. CASE UNCHANGED <<vars, session>>
  BY <1>0, <1>7, QuietStep DEF vars
<1> QED
  BY <1>1, <1>2, <1>3, <1>4, <1>5, <1>6, <1>7 DEF SessionNext

-----------------------------------------------------------------------------
\* The session implements its client half: what the two transfer tasks and the
\* server half do is, to proxy_client, pieces that come and a sender that ends.
THEOREM SessionImplementsClient == SessionSpec => Spec
<1>1. SessionInit => Init
  BY DEF SessionInit
<1> QED
  BY <1>1, SessionStep, PTL DEF SessionSpec, Spec

LEMMA SessionInvariant == SessionSpec => [](ClientInv /\ SessionInv)
BY SessionImplementsClient, ClientInvariant, SessionInitInv, SessionNextInv, PTL DEF SessionSpec

\* A session is in the states that the code has, and no more pieces wait than
\* the channel holds.
THEOREM SessionTypes == SessionSpec => []SessionTypeOK
<1>1. SessionInv => SessionTypeOK
  BY DEF SessionInv
<1> QED
  BY <1>1, SessionInvariant, PTL

\* Every TransferBlock that a Factorio client is sent holds the bytes of that
\* block of the rebuilt world.
THEOREM AnswersAreRight == SessionSpec => []BlocksRight
<1>1. ClientInv => BlocksRight
  BY DEF ClientInv
<1> QED
  BY <1>1, SessionInvariant, PTL

\* No TransferBlockRequest is lost: it was answered, or is pending and cannot be
\* answered yet.
THEOREM RequestsAreKept == SessionSpec => []RequestsKept
<1>1. ClientInv => RequestsKept
  BY DEF ClientInv
<1> QED
  BY <1>1, SessionInvariant, PTL

\* The transfer tasks of client and server never wait for each other.
THEOREM TasksTakeTurns == SessionSpec => []NoCrossWait
<1>1. SessionInv => NoCrossWait
  BY DEF SessionInv, TurnInv, NoCrossWait
<1> QED
  BY <1>1, SessionInvariant, PTL

=============================================================================
