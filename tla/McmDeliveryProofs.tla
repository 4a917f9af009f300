--------------------------- MODULE McmDeliveryProofs ---------------------------
(***************************************************************************)
(* What the SPI host gets to see, for every number of controls, every      *)
(* queue depth and every command set: it never has to reject a packet,     *)
(* and the newest value on its way to it is the current one.               *)
(*                                                                         *)
(* The argument runs on the stream of packets between the firmware and     *)
(* the host.  Every step of the main loop is one of a few stream moves;    *)
(* facts about sequences show that each move keeps the framing of          *)
(* snapshots and the newest statement about every control.                 *)
(***************************************************************************)
EXTENDS McmApplicationProofs, WellFoundedInduction

-----------------------------------------------------------------------------
(* Numbers and sequences *)

\* A set of natural numbers that is not empty has a least element.
LEMMA Least ==
  ASSUME NEW T, T \subseteq Nat, T # {}
  PROVE  \E x \in T : \A y \in T : x <= y
<1> DEFINE R == OpToRel(<, Nat)
<1>1. IsWellFoundedOn(R, Nat)
  BY NatLessThanWellFounded
<1>2. \A x, y \in Nat : x < y => <<x, y>> \in R
  BY DEF OpToRel
<1> HIDE DEF R
<1>3. PICK x \in T : \A y \in T : ~(<<y, x>> \in R)
  BY <1>1, WFMin
<1>4. ASSUME NEW y \in T
      PROVE  x <= y
  <2>1. x \in Nat /\ y \in Nat
    OBVIOUS
  <2>2. ~(y < x)
    BY <1>2, <1>3, <2>1
  <2> QED
    BY <2>1, <2>2
<1> QED
  BY <1>4

\* One that is bounded has a greatest element.
LEMMA Greatest ==
  ASSUME NEW n \in Nat, NEW T, T \subseteq 1 .. n, T # {}
  PROVE  \E x \in T : \A y \in T : y <= x
<1> DEFINE U == {m \in Nat : \E k \in T : m = n - k}
<1>1. \A k \in T : k \in 1 .. n /\ n - k \in U
  OBVIOUS
<1>2. U \subseteq Nat /\ U # {}
  BY <1>1
<1>3. PICK u \in U : \A m \in U : u <= m
  <2> HIDE DEF U
  <2> QED
    BY <1>2, Least
<1>4. PICK x \in T : u = n - x
  OBVIOUS
<1>5. ASSUME NEW y \in T
      PROVE  y <= x
  <2>1. n - y \in U /\ x \in 1 .. n /\ y \in 1 .. n
    BY <1>1
  <2>2. n - x <= n - y
    BY <1>3, <1>4, <2>1
  <2> QED
    BY <2>1, <2>2
<1> QED
  BY <1>5

\* The elements of two packet sequences, one behind the other.
LEMMA Joined ==
  ASSUME NEW s \in Seq(Packets), NEW t \in Seq(Packets)
  PROVE  /\ s \o t \in Seq(Packets)
         /\ Len(s) \in Nat /\ Len(t) \in Nat
         /\ Len(s \o t) = Len(s) + Len(t)
         /\ \A i \in 1 .. Len(s) : (s \o t)[i] = s[i]
         /\ \A i \in 1 .. Len(t) : (s \o t)[Len(s) + i] = t[i]
<1> DEFINE m == Len(s)
           n == Len(t)
<1>1. /\ s \o t \in Seq(Packets)
      /\ Len(s \o t) = m + n
      /\ \A i \in 1 .. m + n : (s \o t)[i] = IF i <= m THEN s[i] ELSE t[i - m]
  BY ConcatProperties
<1>2. m \in Nat /\ n \in Nat
  BY LenProperties
<1> HIDE DEF m, n
<1>3. ASSUME NEW i \in 1 .. n
      PROVE  (s \o t)[m + i] = t[i]
  <2>1. m + i \in 1 .. m + n /\ ~(m + i <= m) /\ (m + i) - m = i
    BY <1>2
  <2> QED
    BY <1>1, <2>1
<1>4. ASSUME NEW i \in 1 .. m
      PROVE  (s \o t)[i] = s[i]
  <2>1. i \in 1 .. m + n /\ i <= m
    BY <1>2
  <2> QED
    BY <1>1, <2>1
<1> QED
  BY <1>1, <1>2, <1>3, <1>4 DEF m, n

\* A packet in front of a sequence.
LEMMA Fronted ==
  ASSUME NEW packet \in Packets, NEW s \in Seq(Packets)
  PROVE  /\ <<packet>> \o s \in Seq(Packets)
         /\ Len(s) \in Nat
         /\ Len(<<packet>> \o s) = Len(s) + 1
         /\ (<<packet>> \o s)[1] = packet
         /\ \A i \in 1 .. Len(s) : (<<packet>> \o s)[i + 1] = s[i]
<1> SUFFICES ASSUME NEW one, one = <<packet>>
             PROVE  /\ one \o s \in Seq(Packets)
                    /\ Len(s) \in Nat
                    /\ Len(one \o s) = Len(s) + 1
                    /\ (one \o s)[1] = packet
                    /\ \A i \in 1 .. Len(s) : (one \o s)[i + 1] = s[i]
  OBVIOUS
<1>1. one \in Seq(Packets) /\ Len(one) = 1 /\ one[1] = packet /\ 1 \in 1 .. 1
  OBVIOUS
<1>2. /\ one \o s \in Seq(Packets)
      /\ Len(s) \in Nat
      /\ Len(one \o s) = 1 + Len(s)
      /\ (one \o s)[1] = packet
      /\ \A i \in 1 .. Len(s) : (one \o s)[1 + i] = s[i]
  BY <1>1, Joined
<1>3. \A i \in 1 .. Len(s) : 1 + i = i + 1
  OBVIOUS
<1> QED
  BY <1>2, <1>3

-----------------------------------------------------------------------------
(* Framing *)

\* A snapshot has at least four packets.
LEMMA Count ==
  /\ SnapshotPacketCount \in Nat
  /\ SnapshotPacketCount = ControlCount + 3
  /\ ControlCount \in Nat
  /\ ControlCount > 0
BY ControlCountAssumption DEF SnapshotPacketCount

\* A snapshot seen in one of two joined sequences is one of the joined sequence.
LEMMA SnapshotJoined ==
  ASSUME NEW s \in Seq(Packets), NEW t \in Seq(Packets), NEW at \in Nat \ {0},
         NEW place \in Nat \ {0}, NEW sequence
  PROVE  /\ SnapshotFrom(s, at, place, sequence) => SnapshotFrom(s \o t, at, place, sequence)
         /\ SnapshotFrom(t, at, place, sequence)
              => SnapshotFrom(s \o t, Len(s) + at, place, sequence)
<1>1. ASSUME SnapshotFrom(s, at, place, sequence), NEW k \in place .. SnapshotPacketCount
      PROVE  /\ at + (k - place) <= Len(s \o t)
             /\ InPlace((s \o t)[at + (k - place)], k, sequence)
  <2>1. /\ at + (k - place) <= Len(s)
        /\ InPlace(s[at + (k - place)], k, sequence)
    BY <1>1 DEF SnapshotFrom
  <2>2. at + (k - place) \in 1 .. Len(s)
    BY <2>1, Joined, Count
  <2> QED
    BY <2>1, <2>2, Joined
<1>2. ASSUME SnapshotFrom(t, at, place, sequence), NEW k \in place .. SnapshotPacketCount
      PROVE  /\ (Len(s) + at) + (k - place) <= Len(s \o t)
             /\ InPlace((s \o t)[(Len(s) + at) + (k - place)], k, sequence)
  <2> DEFINE i == at + (k - place)
  <2>1. i <= Len(t) /\ InPlace(t[i], k, sequence)
    BY <1>2 DEF SnapshotFrom
  <2>2. i \in 1 .. Len(t) /\ (Len(s) + at) + (k - place) = Len(s) + i
    BY <2>1, Joined, Count
  <2> HIDE DEF i
  <2>3. (s \o t)[Len(s) + i] = t[i] /\ Len(s) + i <= Len(s \o t)
    BY <2>1, <2>2, Joined
  <2> QED
    BY <2>1, <2>2, <2>3
<1> QED
  BY <1>1, <1>2 DEF SnapshotFrom

\* One that does not start at the first packet is one of the sequence behind it.
LEMMA SnapshotBehind ==
  ASSUME NEW packet \in Packets, NEW s \in Seq(Packets), NEW at \in Nat \ {0},
         NEW place \in Nat \ {0}, NEW sequence,
         SnapshotFrom(<<packet>> \o s, at + 1, place, sequence)
  PROVE  SnapshotFrom(s, at, place, sequence)
<1> DEFINE whole == <<packet>> \o s
<1>1. /\ Len(s) \in Nat /\ Len(whole) = Len(s) + 1
      /\ \A i \in 1 .. Len(s) : whole[i + 1] = s[i]
  BY Fronted
<1>2. SnapshotFrom(whole, at + 1, place, sequence)
  OBVIOUS
<1> HIDE DEF whole
<1>3. ASSUME NEW k \in place .. SnapshotPacketCount
      PROVE  /\ at + (k - place) <= Len(s)
             /\ InPlace(s[at + (k - place)], k, sequence)
  <2> DEFINE i == at + (k - place)
  <2>1. i \in Nat \ {0} /\ (at + 1) + (k - place) = i + 1
    BY Count
  <2>2. i + 1 <= Len(whole) /\ InPlace(whole[i + 1], k, sequence)
    BY <1>2, <2>1 DEF SnapshotFrom
  <2> HIDE DEF i
  <2>3. i \in 1 .. Len(s)
    BY <1>1, <2>1, <2>2
  <2>4. whole[i + 1] = s[i] /\ i <= Len(s)
    BY <1>1, <2>3
  <2>5. i <= Len(s) /\ InPlace(s[i], k, sequence)
    BY <2>2, <2>4
  <2> QED
    BY <2>5 DEF i
<1> QED
  BY <1>3 DEF SnapshotFrom

\* Behind its packet at one place a snapshot goes on at the next.
LEMMA SnapshotGoesOn ==
  ASSUME NEW s, NEW at \in Nat, NEW place \in Nat, NEW sequence,
         SnapshotFrom(s, at, place, sequence)
  PROVE  SnapshotFrom(s, at + 1, place + 1, sequence)
<1>1. ASSUME NEW k \in place + 1 .. SnapshotPacketCount
      PROVE  /\ (at + 1) + (k - (place + 1)) <= Len(s)
             /\ InPlace(s[(at + 1) + (k - (place + 1))], k, sequence)
  <2>1. k \in place .. SnapshotPacketCount /\ (at + 1) + (k - (place + 1)) = at + (k - place)
    BY Count
  <2> QED
    BY <2>1 DEF SnapshotFrom
<1> QED
  BY <1>1 DEF SnapshotFrom

\* What a snapshot says of its packet at some place.
LEMMA SnapshotAt ==
  ASSUME NEW s, NEW at \in Nat, NEW place \in Nat, NEW sequence,
         SnapshotFrom(s, at, place, sequence), NEW k \in place .. SnapshotPacketCount,
         NEW i \in Int, i = at + (k - place)
  PROVE  i <= Len(s) /\ InPlace(s[i], k, sequence)
BY DEF SnapshotFrom

\* A well framed sequence stays so when one that is well framed on its own
\* follows it.
LEMMA FramedJoined ==
  ASSUME NEW s \in Seq(Packets), NEW t \in Seq(Packets), NEW buffer \in Seq(Packets),
         Framed(s, buffer), Framed(t, <<>>), PartOfSnapshot(buffer)
  PROVE  Framed(s \o t, buffer)
<1> DEFINE w == s \o t
           m == Len(s)
           n == Len(t)
<1>1. /\ w \in Seq(Packets)
      /\ m \in Nat /\ n \in Nat
      /\ Len(w) = m + n
      /\ \A i \in 1 .. m : w[i] = s[i]
      /\ \A i \in 1 .. n : w[m + i] = t[i]
  BY Joined
<1>2. \A at \in Nat \ {0}, place \in Nat \ {0}, sequence \in Int :
        /\ SnapshotFrom(s, at, place, sequence) => SnapshotFrom(w, at, place, sequence)
        /\ SnapshotFrom(t, at, place, sequence) => SnapshotFrom(w, m + at, place, sequence)
  BY SnapshotJoined
<1>3. DOMAIN s = 1 .. m /\ DOMAIN t = 1 .. n
  BY LenProperties
<1> HIDE DEF w, m, n
<1>4. DOMAIN w = 1 .. m + n
  BY <1>1, LenProperties
<1>5. ASSUME NEW at \in 1 .. m + n
      PROVE  /\ w[at].type # "NoMessage"
             /\ w[at].type = "EncoderState" => w[at].index \in Controls
             /\ w[at].type = "ButtonState" => w[at].index = ControlCount
             /\ w[at].type = "SnapshotBegin" => SnapshotFrom(w, at, 1, w[at].data)
             /\ w[at].type = "SnapshotEnd" =>
                  \/ BeginsSnapshot(w, at - (SnapshotPacketCount - 1))
                  \/ buffer # <<>> /\ at = SnapshotPacketCount - Len(buffer)
  <2>0. w[at] \in Packets /\ w[at].data \in Int
    <3>1. w[at] \in Packets
      BY <1>1, ElementOfSeq
    <3> QED
      BY <3>1 DEF Packets
  <2>1. CASE at \in 1 .. m
    <3>1. w[at] = s[at] /\ at \in Nat \ {0} /\ 1 \in Nat \ {0}
      BY <1>1, <2>1
    <3>2. /\ s[at].type # "NoMessage"
          /\ s[at].type = "EncoderState" => s[at].index \in Controls
          /\ s[at].type = "ButtonState" => s[at].index = ControlCount
          /\ s[at].type = "SnapshotBegin" => SnapshotFrom(s, at, 1, s[at].data)
          /\ s[at].type = "SnapshotEnd" =>
               \/ BeginsSnapshot(s, at - (SnapshotPacketCount - 1))
               \/ buffer # <<>> /\ at = SnapshotPacketCount - Len(buffer)
      BY <1>3, <2>1 DEF Framed
    <3>3. BeginsSnapshot(s, at - (SnapshotPacketCount - 1))
            => BeginsSnapshot(w, at - (SnapshotPacketCount - 1))
      <4> DEFINE b == at - (SnapshotPacketCount - 1)
      <4> HIDE DEF b
      <4>1. BeginsSnapshot(s, b) => BeginsSnapshot(w, b)
        BY <1>1, <1>3, <1>4 DEF BeginsSnapshot
      <4> QED
        BY <4>1 DEF b
    <3> QED
      BY <1>2, <2>0, <3>1, <3>2, <3>3
  <2>2. CASE ~(at \in 1 .. m)
    <3> DEFINE i == at - m
    <3>1. i \in 1 .. n /\ at = m + i
      BY <1>1, <2>2
    <3> HIDE DEF i
    <3>2. w[at] = t[i] /\ i \in Nat \ {0} /\ 1 \in Nat \ {0}
      BY <1>1, <3>1
    <3>3. /\ t[i].type # "NoMessage"
          /\ t[i].type = "EncoderState" => t[i].index \in Controls
          /\ t[i].type = "ButtonState" => t[i].index = ControlCount
          /\ t[i].type = "SnapshotBegin" => SnapshotFrom(t, i, 1, t[i].data)
          /\ t[i].type = "SnapshotEnd" => BeginsSnapshot(t, i - (SnapshotPacketCount - 1))
      BY <1>3, <3>1 DEF Framed
    <3>4. BeginsSnapshot(t, i - (SnapshotPacketCount - 1))
            => BeginsSnapshot(w, at - (SnapshotPacketCount - 1))
      <4> DEFINE b == i - (SnapshotPacketCount - 1)
      <4>1. /\ at - (SnapshotPacketCount - 1) = m + b
            /\ b \in 1 .. n => m + b \in 1 .. m + n
        BY <1>1, <3>1, Count
      <4> HIDE DEF b
      <4>2. BeginsSnapshot(t, b) => BeginsSnapshot(w, m + b)
        BY <1>1, <1>3, <1>4, <4>1 DEF BeginsSnapshot
      <4> QED
        BY <4>1, <4>2 DEF b
    <3> QED
      BY <1>2, <2>0, <3>1, <3>2, <3>3, <3>4
  <2> QED
    BY <2>1, <2>2
<1>6. ASSUME buffer # <<>>
      PROVE  \/ SnapshotFrom(w, 1, Len(buffer) + 1, buffer[1].data)
             \/ BeginsSnapshot(w, 1)
  <2>1. \/ SnapshotFrom(s, 1, Len(buffer) + 1, buffer[1].data)
        \/ BeginsSnapshot(s, 1)
    BY <1>6 DEF Framed
  <2>2. Len(buffer) + 1 \in Nat \ {0} /\ 1 \in Nat \ {0}
    BY LenProperties
  <2>3. buffer[1].data \in Int
    <3>1. Len(buffer) \in Nat \ {0}
      BY <1>6, EmptySeq, LenProperties
    <3>2. buffer[1] \in Packets
      BY <3>1, ElementOfSeq
    <3> QED
      BY <3>2 DEF Packets
  <2>4. BeginsSnapshot(s, 1) => BeginsSnapshot(w, 1)
    BY <1>1, <1>3, <1>4 DEF BeginsSnapshot
  <2> QED
    BY <1>2, <2>1, <2>2, <2>3, <2>4
<1>7. Framed(w, buffer)
  BY <1>4, <1>5, <1>6 DEF Framed
<1> QED
  BY <1>7 DEF w

\* A snapshot on its own, whatever the host is buffering.
LEMMA FramedSnapshot ==
  ASSUME NEW snapshot \in Snapshots, NEW buffer
  PROVE  /\ SnapshotPackets(snapshot) \in Seq(Packets)
         /\ Len(SnapshotPackets(snapshot)) = SnapshotPacketCount
         /\ Framed(SnapshotPackets(snapshot), buffer)
         /\ SnapshotPackets(snapshot)[SnapshotPacketCount].type = "SnapshotEnd"
         /\ \A k \in 1 .. SnapshotPacketCount :
              InPlace(SnapshotPackets(snapshot)[k], k, snapshot.sequence)
<1> DEFINE s == SnapshotPackets(snapshot)
           q == snapshot.sequence
<1>1. /\ s \in [1 .. SnapshotPacketCount -> Packets]
      /\ s[1] = MakeSnapshotBoundary("SnapshotBegin", q)
      /\ \A c \in Controls : s[c + 2] = MakeEncoderState(c, snapshot.encoderValues[c])
      /\ s[ControlCount + 2] = MakeButtonState(snapshot.buttons)
      /\ s[ControlCount + 3] = MakeSnapshotBoundary("SnapshotEnd", q)
  BY SnapshotPacketsAre
<1> HIDE DEF s, q
<1>2. s \in Seq(Packets) /\ Len(s) = SnapshotPacketCount /\ DOMAIN s = 1 .. SnapshotPacketCount
  <2>1. s \in Seq(Packets)
    BY <1>1, Count, SeqDef
  <2> QED
    BY <1>1, <2>1, Count, LenProperties
<1>3. /\ s[1].type = "SnapshotBegin" /\ s[1].data = q
      /\ s[ControlCount + 2].type = "ButtonState" /\ s[ControlCount + 2].index = ControlCount
      /\ s[ControlCount + 3].type = "SnapshotEnd" /\ s[ControlCount + 3].data = q
  BY <1>1 DEF MakeSnapshotBoundary, MakeButtonState
<1>4. ASSUME NEW k \in 2 .. ControlCount + 1
      PROVE  s[k].type = "EncoderState" /\ s[k].index = k - 2 /\ k - 2 \in Controls
  <2>1. k - 2 \in Controls /\ (k - 2) + 2 = k
    BY Count DEF Controls
  <2>2. s[k] = MakeEncoderState(k - 2, snapshot.encoderValues[k - 2])
    BY <1>1, <2>1
  <2> QED
    BY <2>1, <2>2 DEF MakeEncoderState
<1>5. ASSUME NEW k \in 1 .. SnapshotPacketCount
      PROVE  InPlace(s[k], k, q)
  BY <1>3, <1>4, Count DEF InPlace
<1>6. SnapshotFrom(s, 1, 1, q)
  <2>1. ASSUME NEW k \in 1 .. SnapshotPacketCount
        PROVE  1 + (k - 1) <= Len(s) /\ InPlace(s[1 + (k - 1)], k, q)
    <3>1. 1 + (k - 1) = k
      OBVIOUS
    <3> QED
      BY <1>2, <1>5, <3>1, Count
  <2> QED
    BY <2>1 DEF SnapshotFrom
<1>7. BeginsSnapshot(s, 1)
  BY <1>2, <1>3, Count DEF BeginsSnapshot
<1>8. ASSUME NEW at \in 1 .. SnapshotPacketCount
      PROVE  /\ s[at].type # "NoMessage"
             /\ s[at].type = "EncoderState" => s[at].index \in Controls
             /\ s[at].type = "ButtonState" => s[at].index = ControlCount
             /\ s[at].type = "SnapshotBegin" => SnapshotFrom(s, at, 1, s[at].data)
             /\ s[at].type = "SnapshotEnd" => BeginsSnapshot(s, at - (SnapshotPacketCount - 1))
  <2>1. CASE at = 1
    BY <1>3, <1>6, <2>1
  <2>2. CASE at \in 2 .. ControlCount + 1
    BY <1>4, <2>2
  <2>3. CASE at = ControlCount + 2
    BY <1>3, <2>3
  <2>4. CASE at = ControlCount + 3
    <3>1. at - (SnapshotPacketCount - 1) = 1
      BY <2>4, Count
    <3> QED
      BY <1>3, <1>7, <2>4, <3>1
  <2> QED
    BY <2>1, <2>2, <2>3, <2>4, Count
<1>9. Framed(s, buffer)
  BY <1>2, <1>7, <1>8 DEF Framed
<1> QED
  BY <1>2, <1>3, <1>5, <1>9, Count DEF s, q

\* An increment on its own.
LEMMA FramedIncrement ==
  ASSUME NEW packet \in Packets,
         \/ packet.type = "EncoderState" /\ packet.index \in Controls
         \/ packet.type = "ButtonState" /\ packet.index = ControlCount
  PROVE  Framed(<<packet>>, <<>>)
<1>1. DOMAIN <<packet>> = {1} /\ <<packet>>[1] = packet
  OBVIOUS
<1> QED
  BY <1>1 DEF Framed

\* Nothing on its way leaves nothing to buffer.
LEMMA FramedNothing ==
  /\ Framed(<<>>, <<>>)
  /\ PartOfSnapshot(<<>>)
  /\ \A buffer \in Seq(Packets) :
       Framed(<<>>, buffer) /\ PartOfSnapshot(buffer) => buffer = <<>>
<1>1. DOMAIN <<>> = {} /\ Len(<<>>) = 0
  OBVIOUS
<1>2. Framed(<<>>, <<>>)
  BY <1>1 DEF Framed
<1>3. PartOfSnapshot(<<>>)
  BY <1>1, Count DEF PartOfSnapshot
<1>4. ASSUME NEW buffer \in Seq(Packets), Framed(<<>>, buffer), PartOfSnapshot(buffer),
             buffer # <<>>
      PROVE  FALSE
  <2>1. ~BeginsSnapshot(<<>>, 1)
    BY <1>1 DEF BeginsSnapshot
  <2>2. SnapshotFrom(<<>>, 1, Len(buffer) + 1, buffer[1].data)
    BY <1>4, <2>1 DEF Framed
  <2>3. Len(buffer) + 1 \in Nat /\ Len(buffer) + 1 <= SnapshotPacketCount
    BY <1>4, LenProperties, Count DEF PartOfSnapshot
  <2>4. Len(buffer) + 1 \in Len(buffer) + 1 .. SnapshotPacketCount
    BY <2>3, Count
  <2>5. 1 + ((Len(buffer) + 1) - (Len(buffer) + 1)) <= Len(<<>>)
    BY <2>2, <2>4 DEF SnapshotFrom
  <2> QED
    BY <1>1, <2>3, <2>5
<1> QED
  BY <1>2, <1>3, <1>4

\* What the host may take a starved packet for keeps the packet's kind.
LEMMA ReadingKeepsKind ==
  ASSUME NEW packet \in Packets, NEW reading \in {packet} \cup Readings(packet)
  PROVE  /\ reading \in Packets
         /\ reading.type = packet.type
         /\ reading.index = packet.index
         /\ packet.type \in {"SnapshotBegin", "SnapshotEnd"} => reading.data = packet.data
<1> DEFINE range == CASE packet.type = "EncoderState" -> Signed24Minimum .. Signed24Maximum
                      [] packet.type = "ButtonState"  -> ButtonPictures
                      [] OTHER                        -> {}
<1>1. reading \in {packet} \cup {[packet EXCEPT !.data = data] : data \in range}
  BY DEF Readings
<1>2. packet.type \in {"SnapshotBegin", "SnapshotEnd"} => range = {}
  OBVIOUS
<1> HIDE DEF range
<1>3. reading \in Packets
  BY ReadingsOK
<1>4. CASE reading = packet
  BY <1>3, <1>4
<1>5. CASE reading # packet
  <2>1. PICK data \in range : reading = [packet EXCEPT !.data = data]
    BY <1>1, <1>5
  <2>2. reading.type = packet.type /\ reading.index = packet.index
    BY <2>1 DEF Packets
  <2> QED
    BY <1>2, <1>3, <2>1, <2>2
<1> QED
  BY <1>4, <1>5

-----------------------------------------------------------------------------
(* The host reads *)

\* A snapshot is begun, continued or committed, or an increment is taken.
BeginsBuffer(h, packet, g) ==
  /\ packet.type = "SnapshotBegin"
  /\ g = [h EXCEPT !.buffer = <<packet>>]

GrowsBuffer(h, packet, g) ==
  /\ packet.type \in {"EncoderState", "ButtonState"}
  /\ h.buffer # <<>>
  /\ Len(h.buffer) + 1 < SnapshotPacketCount
  /\ InPlace(packet, Len(h.buffer) + 1, h.buffer[1].data)
  /\ g = [h EXCEPT !.buffer = Append(@, packet)]

CommitsBuffer(h, packet, g) ==
  /\ packet.type = "SnapshotEnd"
  /\ h.buffer # <<>>
  /\ Len(h.buffer) + 1 = SnapshotPacketCount
  /\ g = [h EXCEPT !.buffer = <<>>,
                   !.known = TRUE,
                   !.encoders = [c \in Controls |-> h.buffer[c + 2].data],
                   !.buttons = h.buffer[ControlCount + 2].data]

TakesEncoder(h, packet, g) ==
  /\ packet.type = "EncoderState"
  /\ packet.index \in Controls
  /\ h.buffer = <<>>
  /\ g = [h EXCEPT !.encoders[packet.index] = packet.data]

TakesButtons(h, packet, g) ==
  /\ packet.type = "ButtonState"
  /\ packet.index = ControlCount
  /\ h.buffer = <<>>
  /\ g = [h EXCEPT !.buttons = packet.data]

\* What comes first in a well framed stream is one of these, also when the
\* host misreads a starved packet.
LEMMA HostMoves ==
  ASSUME NEW h \in Hosts, NEW packet \in Packets, NEW s \in Seq(Packets),
         PartOfSnapshot(h.buffer), Framed(<<packet>> \o s, h.buffer),
         NEW reading \in {packet} \cup Readings(packet),
         NEW g, g = HostReceives(h, reading)
  PROVE  \/ BeginsBuffer(h, reading, g)
         \/ GrowsBuffer(h, reading, g)
         \/ CommitsBuffer(h, reading, g)
         \/ TakesEncoder(h, reading, g)
         \/ TakesButtons(h, reading, g)
<1> DEFINE whole == <<packet>> \o s
           place == Len(h.buffer) + 1
<1>1. /\ whole \in Seq(Packets) /\ Len(whole) = Len(s) + 1 /\ Len(s) \in Nat
      /\ whole[1] = packet
      /\ Framed(whole, h.buffer)
  BY Fronted
<1> HIDE DEF whole
<1>2. 1 \in DOMAIN whole
  BY <1>1, LenProperties
<1>3. /\ packet.type # "NoMessage"
      /\ packet.type = "EncoderState" => packet.index \in Controls
      /\ packet.type = "ButtonState" => packet.index = ControlCount
      /\ packet.type = "SnapshotEnd" =>
           \/ BeginsSnapshot(whole, 1 - (SnapshotPacketCount - 1))
           \/ h.buffer # <<>> /\ 1 = SnapshotPacketCount - Len(h.buffer)
      /\ h.buffer # <<>> =>
           \/ SnapshotFrom(whole, 1, place, h.buffer[1].data)
           \/ BeginsSnapshot(whole, 1)
  BY <1>1, <1>2 DEF Framed
<1>4. ~BeginsSnapshot(whole, 1 - (SnapshotPacketCount - 1))
  <2>1. 1 - (SnapshotPacketCount - 1) \notin DOMAIN whole
    BY <1>1, Count, LenProperties
  <2> QED
    BY <2>1 DEF BeginsSnapshot
<1>5. BeginsSnapshot(whole, 1) => packet.type = "SnapshotBegin"
  BY <1>1 DEF BeginsSnapshot
<1>6. /\ reading \in Packets /\ reading.type = packet.type /\ reading.index = packet.index
      /\ packet.type \in {"SnapshotBegin", "SnapshotEnd"} => reading.data = packet.data
  BY ReadingKeepsKind
<1>7. h.buffer \in Seq(Packets) /\ Len(h.buffer) \in Nat /\ place <= SnapshotPacketCount
  BY LenProperties, Count DEF Hosts, PartOfSnapshot
<1>8. CASE packet.type = "SnapshotBegin"
  BY <1>6, <1>8 DEF HostReceives, BeginsBuffer
<1>9. CASE packet.type # "SnapshotBegin" /\ h.buffer # <<>>
  <2>1. SnapshotFrom(whole, 1, place, h.buffer[1].data)
    BY <1>3, <1>5, <1>9
  <2>2. InPlace(whole[1 + (place - place)], place, h.buffer[1].data)
    <3>1. place \in place .. SnapshotPacketCount
      BY <1>7, Count
    <3> HIDE DEF place
    <3> QED
      BY <2>1, <3>1 DEF SnapshotFrom
  <2>3. 1 + (place - place) = 1 /\ place # 1
    <3>1. Len(h.buffer) # 0
      BY <1>7, <1>9, EmptySeq
    <3> QED
      BY <1>7, <3>1
  <2>4. InPlace(packet, place, h.buffer[1].data)
    BY <1>1, <2>2, <2>3
  <2>5. InPlace(reading, place, h.buffer[1].data)
    BY <1>6, <2>4 DEF InPlace
  <2>6. ExpectedNext(h.buffer, reading)
    BY <1>9, <2>3, <2>5, Count DEF ExpectedNext, InPlace
  <2>7. CASE packet.type = "SnapshotEnd"
    <3>1. place = SnapshotPacketCount
      BY <2>4, <2>7, Count DEF InPlace
    <3>2. g = [h EXCEPT !.buffer = <<>>,
                        !.known = TRUE,
                        !.encoders = [c \in Controls |-> h.buffer[c + 2].data],
                        !.buttons = h.buffer[ControlCount + 2].data]
      BY <1>6, <1>9, <2>6, <2>7 DEF HostReceives
    <3> QED
      BY <1>6, <1>9, <2>7, <3>1, <3>2 DEF CommitsBuffer
  <2>8. CASE packet.type # "SnapshotEnd"
    <3>1. place < SnapshotPacketCount /\ packet.type \in {"EncoderState", "ButtonState"}
      BY <1>7, <2>3, <2>4, <2>8, Count DEF InPlace
    <3>2. g = [h EXCEPT !.buffer = Append(@, reading)]
      BY <1>6, <1>9, <2>6, <2>8 DEF HostReceives
    <3> QED
      BY <1>6, <1>9, <2>5, <3>1, <3>2 DEF GrowsBuffer
  <2> QED
    BY <2>7, <2>8
<1>10. CASE packet.type # "SnapshotBegin" /\ h.buffer = <<>>
  <2>1. packet.type \in {"EncoderState", "ButtonState"}
    BY <1>3, <1>4, <1>10 DEF Packets, MessageTypes
  <2> QED
    BY <1>3, <1>6, <1>10, <2>1 DEF HostReceives, TakesEncoder, TakesButtons
<1> QED
  BY <1>8, <1>9, <1>10

\* None of them is a rejection, and the buffer stays part of one snapshot.
LEMMA HostMoveOK ==
  ASSUME NEW h \in Hosts, NEW packet \in Packets, NEW g,
         ~h.malformed, PartOfSnapshot(h.buffer),
         \/ BeginsBuffer(h, packet, g)
         \/ GrowsBuffer(h, packet, g)
         \/ CommitsBuffer(h, packet, g)
         \/ TakesEncoder(h, packet, g)
         \/ TakesButtons(h, packet, g)
  PROVE  /\ ~g.malformed
         /\ PartOfSnapshot(g.buffer)
         /\ h.known => g.known
         /\ packet.type = "SnapshotEnd" => g.known
<1>1. h.buffer \in Seq(Packets) /\ Len(h.buffer) \in Nat
  BY LenProperties DEF Hosts
<1>2. CASE BeginsBuffer(h, packet, g)
  <2>1. /\ g.buffer = <<packet>> /\ g.malformed = h.malformed /\ g.known = h.known
        /\ packet.type = "SnapshotBegin"
    BY <1>2 DEF BeginsBuffer, Hosts
  <2>2. Len(<<packet>>) = 1 /\ DOMAIN <<packet>> = {1} /\ <<packet>>[1] = packet
    OBVIOUS
  <2>3. PartOfSnapshot(<<packet>>)
    BY <2>1, <2>2, Count DEF PartOfSnapshot, InPlace
  <2> QED
    BY <2>1, <2>3
<1>3. CASE GrowsBuffer(h, packet, g)
  <2> DEFINE b == Append(h.buffer, packet)
             m == Len(h.buffer)
  <2>1. /\ g.buffer = b /\ g.malformed = h.malformed /\ g.known = h.known
        /\ packet.type \in {"EncoderState", "ButtonState"}
        /\ m + 1 < SnapshotPacketCount /\ InPlace(packet, m + 1, h.buffer[1].data)
        /\ h.buffer # <<>>
    BY <1>3 DEF GrowsBuffer, Hosts
  <2>2. /\ b \in Seq(Packets) /\ Len(b) = m + 1 /\ b[m + 1] = packet
        /\ \A k \in 1 .. m : b[k] = h.buffer[k]
        /\ m \in Nat \ {0}
    <3>1. m # 0
      BY <1>1, <2>1, EmptySeq
    <3> QED
      BY <1>1, <3>1, AppendProperties
  <2>3. b[1] = h.buffer[1] /\ DOMAIN b = 1 .. m + 1 /\ DOMAIN h.buffer = 1 .. m
    BY <1>1, <2>2, LenProperties
  <2> HIDE DEF b, m
  <2>4. ASSUME NEW k \in 1 .. m + 1
        PROVE  InPlace(b[k], k, b[1].data)
    <3>1. CASE k = m + 1
      BY <2>1, <2>2, <2>3, <3>1
    <3>2. CASE k # m + 1
      <4>1. k \in 1 .. m
        BY <2>2, <3>2
      <4> QED
        BY <2>2, <2>3, <4>1 DEF PartOfSnapshot
    <3> QED
      BY <3>1, <3>2
  <2>5. PartOfSnapshot(b)
    BY <2>1, <2>2, <2>3, <2>4 DEF PartOfSnapshot
  <2> QED
    BY <2>1, <2>5
<1>4. CASE CommitsBuffer(h, packet, g)
  <2>1. g.buffer = <<>> /\ g.malformed = h.malformed /\ g.known
    BY <1>4 DEF CommitsBuffer, Hosts
  <2> QED
    BY <2>1, FramedNothing
<1>5. CASE TakesEncoder(h, packet, g) \/ TakesButtons(h, packet, g)
  <2>1. /\ g.buffer = h.buffer /\ g.malformed = h.malformed /\ g.known = h.known
        /\ packet.type \in {"EncoderState", "ButtonState"}
    BY <1>5 DEF TakesEncoder, TakesButtons, Hosts
  <2> QED
    BY <2>1
<1> QED
  BY <1>2, <1>3, <1>4, <1>5

\* Behind the packet the host has read, the stream is well framed for what it
\* buffers now.
LEMMA FramedRead ==
  ASSUME NEW h \in Hosts, NEW packet \in Packets, NEW s \in Seq(Packets),
         PartOfSnapshot(h.buffer), Framed(<<packet>> \o s, h.buffer),
         NEW g, g = HostReceives(h, packet)
  PROVE  Framed(s, g.buffer)
<1> DEFINE whole == <<packet>> \o s
           n == Len(s)
           last == SnapshotPacketCount - 1
<1>1. /\ whole \in Seq(Packets) /\ Len(whole) = n + 1 /\ n \in Nat
      /\ whole[1] = packet
      /\ \A i \in 1 .. n : whole[i + 1] = s[i]
      /\ Framed(whole, h.buffer)
  BY Fronted
<1>2. \A at \in Nat \ {0}, place \in Nat \ {0}, sequence \in Int :
        SnapshotFrom(whole, at + 1, place, sequence) => SnapshotFrom(s, at, place, sequence)
  BY SnapshotBehind
<1>3. DOMAIN whole = 1 .. n + 1 /\ DOMAIN s = 1 .. n
  BY <1>1, LenProperties
<1> HIDE DEF whole, n
<1>4. last \in Nat /\ last = ControlCount + 2 /\ last >= 3 /\ last + 1 = SnapshotPacketCount
  BY Count
<1>5. h.buffer \in Seq(Packets) /\ Len(h.buffer) \in Nat /\ Len(h.buffer) <= last
  BY <1>4, LenProperties, Count DEF Hosts, PartOfSnapshot
<1>6. \A b \in Int : b >= 1 /\ BeginsSnapshot(whole, b + 1) => BeginsSnapshot(s, b)
  BY <1>1, <1>3 DEF BeginsSnapshot
<1>7. \/ BeginsBuffer(h, packet, g)
      \/ GrowsBuffer(h, packet, g)
      \/ CommitsBuffer(h, packet, g)
      \/ TakesEncoder(h, packet, g)
      \/ TakesButtons(h, packet, g)
  BY HostMoves
<1>8. ASSUME NEW at \in 1 .. n
      PROVE  /\ s[at].type # "NoMessage"
             /\ s[at].type = "EncoderState" => s[at].index \in Controls
             /\ s[at].type = "ButtonState" => s[at].index = ControlCount
             /\ s[at].type = "SnapshotBegin" => SnapshotFrom(s, at, 1, s[at].data)
  <2>1. at + 1 \in 1 .. n + 1 /\ whole[at + 1] = s[at] /\ at \in Nat \ {0} /\ 1 \in Nat \ {0}
    BY <1>1
  <2>2. /\ s[at].type # "NoMessage"
        /\ s[at].type = "EncoderState" => s[at].index \in Controls
        /\ s[at].type = "ButtonState" => s[at].index = ControlCount
        /\ s[at].type = "SnapshotBegin" => SnapshotFrom(whole, at + 1, 1, s[at].data)
    BY <1>1, <1>3, <2>1 DEF Framed
  <2>3. s[at].data \in Int
    <3>1. s[at] \in Packets
      BY ElementOfSeq DEF n
    <3> QED
      BY <3>1 DEF Packets
  <2> QED
    BY <1>2, <2>1, <2>2, <2>3
\* An END: its BEGIN is behind the packet read, or is that packet, or the
\* snapshot it ends is the one in the buffer.
<1>9. ASSUME NEW at \in 1 .. n, s[at].type = "SnapshotEnd"
      PROVE  \/ BeginsSnapshot(s, at - last)
             \/ packet.type = "SnapshotBegin" /\ at = last
             \/ packet.type # "SnapshotBegin" /\ h.buffer # <<>> /\ at = last - Len(h.buffer)
  <2>1. at + 1 \in 1 .. n + 1 /\ whole[at + 1] = s[at]
    BY <1>1
  <2>2. \/ BeginsSnapshot(whole, (at + 1) - last)
        \/ h.buffer # <<>> /\ at + 1 = SnapshotPacketCount - Len(h.buffer)
    BY <1>1, <1>3, <1>9, <2>1 DEF Framed
  <2>3. CASE BeginsSnapshot(whole, (at + 1) - last)
    <3>1. (at + 1) - last >= 1
      BY <1>3, <2>3 DEF BeginsSnapshot
    <3>2. CASE (at + 1) - last = 1
      <4>1. packet.type = "SnapshotBegin"
        BY <1>1, <2>3, <3>2 DEF BeginsSnapshot
      <4> QED
        BY <1>4, <3>2, <4>1
    <3>3. CASE (at + 1) - last # 1
      <4> DEFINE b == at - last
      <4>1. b \in Int /\ b >= 1 /\ b + 1 = (at + 1) - last
        BY <1>4, <3>1, <3>3
      <4> QED
        BY <1>6, <2>3, <4>1
    <3> QED
      BY <3>2, <3>3
  <2>4. CASE h.buffer # <<>> /\ at + 1 = SnapshotPacketCount - Len(h.buffer)
    <3>1. at = last - Len(h.buffer) /\ Len(h.buffer) # 0
      <4>1. Len(h.buffer) # 0
        BY <1>5, <2>4, EmptySeq
      <4> QED
        BY <1>4, <1>5, <2>4, <4>1
    <3>2. CASE packet.type = "SnapshotBegin"
      <4>1. packet.data \in Int /\ SnapshotFrom(whole, 1, 1, packet.data)
        <5>1. 1 \in DOMAIN whole
          BY <1>1, <1>3
        <5> QED
          BY <1>1, <3>2, <5>1 DEF Framed, Packets
      <4>2. at + 1 \in 2 .. last /\ at + 1 \in 1 .. SnapshotPacketCount
            /\ at + 1 = 1 + ((at + 1) - 1)
        BY <1>4, <1>5, <3>1
      <4>3. InPlace(whole[at + 1], at + 1, packet.data)
        BY <4>1, <4>2, SnapshotAt
      <4>4. whole[at + 1].type # "SnapshotEnd"
        BY <1>4, <4>2, <4>3, Count DEF InPlace
      <4> QED
        BY <1>9, <2>1, <4>4
    <3>3. CASE packet.type # "SnapshotBegin"
      BY <2>4, <3>1, <3>3
    <3> QED
      BY <3>2, <3>3
  <2> QED
    BY <2>2, <2>3, <2>4
<1>10. CASE BeginsBuffer(h, packet, g)
  <2>1. packet.type = "SnapshotBegin" /\ g.buffer = <<packet>>
    BY <1>10 DEF BeginsBuffer, Hosts
  <2>2. Len(<<packet>>) = 1 /\ <<packet>> # <<>> /\ <<packet>>[1] = packet
    OBVIOUS
  <2>3. packet.data \in Int /\ SnapshotFrom(whole, 1, 1, packet.data)
    <3>1. 1 \in DOMAIN whole
      BY <1>1, <1>3
    <3> QED
      BY <1>1, <2>1, <3>1 DEF Framed, Packets
  <2>4. SnapshotFrom(s, 1, 2, packet.data)
    <3>1. 1 \in Nat /\ 1 \in Nat \ {0} /\ 2 \in Nat \ {0} /\ 1 + 1 = 2
      OBVIOUS
    <3>2. SnapshotFrom(whole, 1 + 1, 1 + 1, packet.data)
      BY <2>3, <3>1, SnapshotGoesOn
    <3> QED
      BY <1>2, <2>3, <3>1, <3>2
  <2>5. ASSUME NEW at \in 1 .. n, s[at].type = "SnapshotEnd"
        PROVE  \/ BeginsSnapshot(s, at - last)
               \/ at = SnapshotPacketCount - 1
    BY <1>9, <2>1, <2>5
  <2>6. Framed(s, <<packet>>)
    BY <1>3, <1>8, <2>2, <2>4, <2>5 DEF Framed
  <2> QED
    BY <2>1, <2>6
<1>11. CASE GrowsBuffer(h, packet, g)
  <2> DEFINE b == Append(h.buffer, packet)
             m == Len(h.buffer)
  <2>1. /\ g.buffer = b
        /\ packet.type \in {"EncoderState", "ButtonState"}
        /\ m + 1 < SnapshotPacketCount
        /\ h.buffer # <<>>
    BY <1>11 DEF GrowsBuffer, Hosts
  <2>2. b \in Seq(Packets) /\ Len(b) = m + 1 /\ b[1] = h.buffer[1] /\ b # <<>>
        /\ m \in Nat \ {0} /\ h.buffer[1].data \in Int
    <3>1. m \in Nat \ {0}
      BY <1>5, <2>1, EmptySeq
    <3>2. h.buffer[1] \in Packets /\ 1 \in 1 .. m
      BY <1>5, <3>1, ElementOfSeq
    <3>3. b \in Seq(Packets) /\ Len(b) = m + 1 /\ b[1] = h.buffer[1]
      BY <1>5, <3>2, AppendProperties
    <3>4. b # <<>>
      BY <3>1, <3>3
    <3> QED
      BY <3>1, <3>2, <3>3, <3>4 DEF Packets
  <2> HIDE DEF b, m
  <2>3. ~BeginsSnapshot(whole, 1)
    BY <1>1, <2>1 DEF BeginsSnapshot
  <2>4. SnapshotFrom(whole, 1, m + 1, h.buffer[1].data)
    BY <1>1, <2>1, <2>3 DEF Framed, m
  <2>5. SnapshotFrom(s, 1, Len(b) + 1, b[1].data)
    <3>1. 1 \in Nat \ {0} /\ m + 1 \in Nat /\ (m + 1) + 1 \in Nat \ {0}
      BY <2>2
    <3>2. SnapshotFrom(whole, 1 + 1, (m + 1) + 1, h.buffer[1].data)
      BY <2>4, <3>1, SnapshotGoesOn
    <3> QED
      BY <1>2, <2>2, <3>1, <3>2
  <2>6. ASSUME NEW at \in 1 .. n, s[at].type = "SnapshotEnd"
        PROVE  \/ BeginsSnapshot(s, at - last)
               \/ at = SnapshotPacketCount - Len(b)
    <3>1. BeginsSnapshot(s, at - last) \/ at = last - m
      BY <1>9, <2>1, <2>6 DEF m
    <3> QED
      BY <1>4, <2>2, <3>1
  <2>7. Framed(s, b)
    BY <1>3, <1>8, <2>2, <2>5, <2>6 DEF Framed
  <2> QED
    BY <2>1, <2>7
<1>12. CASE CommitsBuffer(h, packet, g) \/ TakesEncoder(h, packet, g) \/ TakesButtons(h, packet, g)
  <2>1. /\ g.buffer = <<>>
        /\ packet.type # "SnapshotBegin"
        /\ h.buffer = <<>> \/ Len(h.buffer) = last
    <3>1. CASE CommitsBuffer(h, packet, g)
      <4>1. g.buffer = <<>> /\ packet.type = "SnapshotEnd" /\ Len(h.buffer) + 1 = SnapshotPacketCount
        BY <3>1 DEF CommitsBuffer, Hosts
      <4> QED
        BY <1>4, <1>5, <4>1
    <3>2. CASE TakesEncoder(h, packet, g) \/ TakesButtons(h, packet, g)
      BY <3>2 DEF TakesEncoder, TakesButtons, Hosts
    <3> QED
      BY <1>12, <3>1, <3>2
  <2>2. ASSUME NEW at \in 1 .. n, s[at].type = "SnapshotEnd"
        PROVE  BeginsSnapshot(s, at - last)
    BY <1>4, <1>9, <2>1, <2>2
  <2>3. Framed(s, <<>>)
    BY <1>3, <1>8, <2>2 DEF Framed
  <2> QED
    BY <2>1, <2>3
<1> QED
  BY <1>7, <1>10, <1>11, <1>12

-----------------------------------------------------------------------------
(* The stream: what the firmware's operations do to it *)

\* The packet the next frame clocks out, and what waits behind it.
Sending(t) == (IF t.loaded /\ ~t.staged THEN <<t.current>> ELSE <<>>) \o t.queue

\* What the publisher offers and the baseline behind that.
Offering(p) == OfferedPacket(p) \o BaselinePackets(p)

Increments == EventPackets(publisher)

\* A packet that changes one value of a host which is not buffering.
IsIncrement(packet) ==
  \/ packet.type = "EncoderState" /\ packet.index \in Controls
  \/ packet.type = "ButtonState" /\ packet.index = ControlCount

\* Both parts are sequences of packets, and the queued events are increments.
LEMMA StreamTypes ==
  ASSUME NEW t, TransportOK(t), NEW p, PublisherOK(p)
  PROVE  /\ Sending(t) \in Seq(Packets)
         /\ OfferedPacket(p) \in Seq(Packets)
         /\ BaselinePackets(p) \in Seq(Packets)
         /\ Offering(p) \in Seq(Packets)
         /\ EventPackets(p) \in Seq(Packets)
         /\ \A k \in 1 .. Len(EventPackets(p)) : IsIncrement(EventPackets(p)[k])
<1>1. /\ t.queue \in Seq(Packets) /\ t.current \in Packets
      /\ p.packet \in Packets /\ p.snapshot \in Snapshots
      /\ p.events \in Seq(PublicationEvents)
  BY DEF TransportOK, TransportRecords, PublisherOK, PublisherRecords
<1>2. Sending(t) \in Seq(Packets)
  <2>1. (IF t.loaded /\ ~t.staged THEN <<t.current>> ELSE <<>>) \in Seq(Packets)
    BY <1>1
  <2> QED
    BY <1>1, <2>1, Joined DEF Sending
<1>3. OfferedPacket(p) \in Seq(Packets)
  BY <1>1 DEF OfferedPacket
<1>4. BaselinePackets(p) \in Seq(Packets)
  <2>1. /\ Built(p) \in 0 .. SnapshotPacketCount
        /\ BaselinePackets(p) = Rest(SnapshotPackets(p.snapshot), SnapshotPacketCount, Built(p))
    BY BaselineIs
  <2>2. /\ SnapshotPacketCount \in Nat
        /\ SnapshotPackets(p.snapshot) \in [1 .. SnapshotPacketCount -> Packets]
    BY <1>1, SnapshotPacketsAre
  <2>3. Rest(SnapshotPackets(p.snapshot), SnapshotPacketCount, Built(p)) \in Seq(Packets)
    BY <2>1, <2>2, RestOf
  <2> QED
    BY <2>1, <2>3
<1>5. Offering(p) \in Seq(Packets)
  BY <1>3, <1>4, Joined DEF Offering
<1>6. ASSUME NEW k \in 1 .. Len(p.events)
      PROVE  EventPackets(p)[k] \in Packets /\ IsIncrement(EventPackets(p)[k])
  <2>1. p.events[k] \in PublicationEvents
    BY <1>1, ElementOfSeq
  <2>2. EventPackets(p)[k] = EventPacket(p.events[k])
    BY DEF EventPackets
  <2>3. EventPacket(p.events[k]) \in Packets
    BY <2>1, MadePacketsType
  <2>4. IsIncrement(EventPacket(p.events[k]))
    BY <2>1 DEF PublicationEvents, EventPacket, MakeEncoderState, MakeButtonState, IsIncrement
  <2> QED
    BY <2>2, <2>3, <2>4
<1>7. EventPackets(p) \in Seq(Packets) /\ Len(EventPackets(p)) = Len(p.events)
  <2>1. Len(p.events) \in Nat
    BY <1>1, LenProperties
  <2>2. EventPackets(p) \in [1 .. Len(p.events) -> Packets]
    BY <1>6 DEF EventPackets
  <2>3. EventPackets(p) \in Seq(Packets)
    BY <2>1, <2>2, SeqDef
  <2> QED
    BY <2>1, <2>2, <2>3, LenProperties
<1> QED
  BY <1>2, <1>3, <1>4, <1>5, <1>6, <1>7

\* An idle publisher has nothing to offer.
LEMMA IdlePublisher ==
  ASSUME NEW p, PublisherOK(p), PublisherIdle(p)
  PROVE  Offering(p) = <<>> /\ EventPackets(p) = <<>>
<1>1. OfferedPacket(p) = <<>> /\ EventPackets(p) = <<>>
  BY DEF PublisherIdle, OfferedPacket, EventPackets
<1>2. BaselinePackets(p) = <<>>
  BY Count DEF PublisherIdle, BaselinePackets, Built
<1> QED
  BY <1>1, <1>2, ConcatEmptySeq, EmptyPacketType DEF Offering

\* The two parts make up the packets of Outbound.
LEMMA StreamParts ==
  ASSUME NEW t, TransportOK(t), NEW p, PublisherOK(p)
  PROVE  (IF t.loaded /\ ~t.staged THEN <<t.current>> ELSE <<>>)
           \o t.queue \o OfferedPacket(p) \o BaselinePackets(p) = Sending(t) \o Offering(p)
<1> DEFINE a == (IF t.loaded /\ ~t.staged THEN <<t.current>> ELSE <<>>) \o t.queue
           o == OfferedPacket(p)
           b == BaselinePackets(p)
<1>1. a \in Seq(Packets) /\ o \in Seq(Packets) /\ b \in Seq(Packets)
  BY StreamTypes DEF Sending
<1>2. Sending(t) = a /\ Offering(p) = o \o b
  BY DEF Sending, Offering
<1> SUFFICES (a \o o) \o b = Sending(t) \o Offering(p)
  OBVIOUS
<1> HIDE DEF a, o, b
<1>3. (a \o o) \o b = a \o (o \o b)
  BY <1>1, ConcatAssociative, SMTT(30)
<1> QED
  BY <1>2, <1>3, Zenon

\* So does Outbound, in every state whose types are right
LEMMA OutboundIs ==
  ASSUME CoreOK
  PROVE  Outbound = Sending(transport) \o Offering(publisher) /\ Outbound \in Seq(Packets)
<1>1. TransportOK(transport) /\ PublisherOK(publisher)
  BY DEF CoreOK
<1>2. Outbound = Sending(transport) \o Offering(publisher)
  BY <1>1, StreamParts DEF Outbound
<1> QED
  BY <1>1, <1>2, StreamTypes, Joined

\* and in the next one.
LEMMA OutboundIsNext ==
  ASSUME CoreOK'
  PROVE  Outbound' = Sending(transport') \o Offering(publisher') /\ Outbound' \in Seq(Packets)
<1>1. TransportOK(transport') /\ PublisherOK(publisher')
  BY DEF CoreOK
<1>2. Outbound' = Sending(transport') \o Offering(publisher')
  BY <1>1, StreamParts DEF Outbound
<1> QED
  BY <1>1, <1>2, StreamTypes, Joined

\* A cleared transport and publisher have nothing on its way.
LEMMA NothingSent ==
  /\ Sending(EmptyTransport) = <<>>
  /\ \A t : TransportOK(t) => Sending(ClearTxQueue(t)) = <<>>
  /\ Offering(EmptyPublisher) = <<>>
  /\ EventPackets(EmptyPublisher) = <<>>
<1>1. Sending(EmptyTransport) = <<>>
  BY DEF Sending, EmptyTransport
<1>2. ASSUME NEW t, TransportOK(t)
      PROVE  Sending(ClearTxQueue(t)) = <<>>
  <2>1. ClearTxQueue(t).queue = <<>> /\ ~ClearTxQueue(t).loaded
    BY <1>2 DEF ClearTxQueue, TransportOK, TransportRecords
  <2> QED
    BY <2>1 DEF Sending
<1> QED
  BY <1>1, <1>2, NothingPlanned DEF Offering

\* popRxPacket is no part of it.
LEMMA SendingPopped ==
  ASSUME NEW t, TransportOK(t)
  PROVE  /\ Sending(PopRxPacket(t)) = Sending(t)
         /\ PopRxPacket(t).loaded = t.loaded
         /\ PopRxPacket(t).staged = t.staged
         /\ PopRxPacket(t).integrityLost = t.integrityLost
<1>1. /\ PopRxPacket(t).queue = t.queue
      /\ PopRxPacket(t).current = t.current
      /\ PopRxPacket(t).loaded = t.loaded
      /\ PopRxPacket(t).staged = t.staged
      /\ PopRxPacket(t).integrityLost = t.integrityLost
  BY DEF PopRxPacket, TransportOK, TransportRecords
<1> QED
  BY <1>1 DEF Sending

\* A packet handed to the transport comes behind everything it already sends.
LEMMA SendingEnqueued ==
  ASSUME NEW t, TransportOK(t), IrqLevel(t), t.staged => t.loaded, NEW packet \in Packets
  PROVE  /\ Sending(EnqueueTxPacket(t, packet)) = Sending(t) \o <<packet>>
         /\ EnqueueTxPacket(t, packet).integrityLost = t.integrityLost
         /\ EnqueueTxPacket(t, packet).staged = t.staged
         /\ EnqueueTxPacket(t, packet).loaded
<1> DEFINE u == [t EXCEPT !.queue = Append(@, packet), !.irq = TRUE]
           loaded == IF t.loaded /\ ~t.staged THEN <<t.current>> ELSE <<>>
<1>1. /\ t.queue \in Seq(Packets) /\ t.current \in Packets
      /\ loaded \in Seq(Packets) /\ <<packet>> \in Seq(Packets)
  BY DEF TransportOK, TransportRecords
<1>2. /\ u.queue = Append(t.queue, packet)
      /\ u.current = t.current /\ u.loaded = t.loaded /\ u.staged = t.staged
      /\ u.integrityLost = t.integrityLost
      /\ u \in TransportRecords
  <2>1. Append(t.queue, packet) \in Seq(Packets)
    BY <1>1, AppendProperties
  <2> QED
    BY <2>1 DEF TransportOK, TransportRecords
<1>3. Append(t.queue, packet) = t.queue \o <<packet>>
  BY <1>1, AppendIsConcat
<1>4. EnqueueTxPacket(t, packet) = ServiceTxFifo(u)
  BY DEF EnqueueTxPacket
<1> HIDE DEF u
<1>5. CASE t.loaded
  <2>1. ServiceTxFifo(u) = u
    BY <1>2, <1>5 DEF ServiceTxFifo
  <2>2. Sending(u) = loaded \o (t.queue \o <<packet>>)
    BY <1>2, <1>3 DEF Sending
  <2>3. Sending(t) = loaded \o t.queue
    BY DEF Sending
  <2>4. \A a, b, c \in Seq(Packets) : (a \o b) \o c = a \o (b \o c)
    BY ConcatAssociative, SMTT(30)
  <2>5. Sending(u) = Sending(t) \o <<packet>>
    <3> DEFINE one == <<packet>>
               queue == t.queue
    <3>1. loaded \in Seq(Packets) /\ queue \in Seq(Packets) /\ one \in Seq(Packets)
      BY <1>1
    <3>2. Sending(u) = loaded \o (queue \o one) /\ Sending(t) = loaded \o queue
      BY <2>2, <2>3
    <3> SUFFICES Sending(u) = Sending(t) \o one
      OBVIOUS
    <3> HIDE DEF loaded, one, queue
    <3> QED
      BY <2>4, <3>1, <3>2
  <2> QED
    BY <1>2, <1>4, <1>5, <2>1, <2>5, Zenon
<1>6. CASE ~t.loaded
  <2>1. t.queue = <<>> /\ ~t.staged /\ u.queue = <<packet>>
    <3>1. t.queue = <<>> /\ ~t.staged
      BY <1>6 DEF IrqLevel
    <3>2. Append(<<>>, packet) = <<packet>>
      OBVIOUS
    <3> QED
      BY <1>2, <3>1, <3>2
  <2>2. ServiceTxFifo(u) = [u EXCEPT !.queue = Tail(@), !.current = Head(u.queue), !.loaded = TRUE]
    BY <1>2, <1>6, <2>1 DEF ServiceTxFifo
  <2>3. Tail(<<packet>>) = <<>> /\ Head(<<packet>>) = packet
    OBVIOUS
  <2>4. /\ ServiceTxFifo(u).queue = <<>> /\ ServiceTxFifo(u).current = packet
        /\ ServiceTxFifo(u).loaded /\ ServiceTxFifo(u).staged = u.staged
        /\ ServiceTxFifo(u).integrityLost = u.integrityLost
    BY <1>2, <2>1, <2>2, <2>3 DEF TransportRecords
  <2>5. Sending(ServiceTxFifo(u)) = <<packet>> \o <<>>
    BY <1>2, <2>1, <2>4 DEF Sending
  <2>6. Sending(t) = <<>>
    BY <1>6, <2>1 DEF Sending
  <2>7. <<packet>> \o <<>> = <<packet>> /\ <<>> \o <<packet>> = <<packet>>
    BY <1>1, ConcatEmptySeq
  <2> QED
    BY <1>2, <1>4, <2>4, <2>5, <2>6, <2>7
<1> QED
  BY <1>5, <1>6

\* At the end of a frame either the packet read is retired and nothing else
\* changes, or the loaded packet is lost and a recovery becomes due.
LEMMA SendingRetired ==
  ASSUME NEW t, TransportOK(t), IrqLevel(t), NEW command \in Commands \cup {NoCommand},
         t.staged => t.loaded,
         NEW u, u = ServiceFrameEnd(t, command)
  PROVE  /\ t.loaded /\ ~t.staged => u.integrityLost /\ ~u.loaded /\ ~u.staged
         /\ ~(t.loaded /\ ~t.staged) => /\ Sending(u) = Sending(t)
                                        /\ u.integrityLost = t.integrityLost
                                        /\ ~u.staged
<1> DEFINE received == CompleteRxFrame(t, command)
<1>1. /\ received.queue = t.queue /\ received.current = t.current
      /\ received.loaded = t.loaded /\ received.staged = t.staged
      /\ received.integrityLost = t.integrityLost
      /\ received \in TransportRecords
      /\ TransportOK(received)
  BY DEF CompleteRxFrame, TransportOK, TransportRecords
<1>2. u = ServiceTxFifo(RetireTransmittedPacket(received))
  BY DEF ServiceFrameEnd
<1> HIDE DEF received
<1>3. /\ TransportOK(RetireTransmittedPacket(received))
      /\ IrqLevel(RetireTransmittedPacket(received))
  BY <1>1, RetireTransmittedPacketOK
<1>4. u = RetireTransmittedPacket(received)
  <2> DEFINE r == RetireTransmittedPacket(received)
  <2>1. r.loaded \/ r.queue = <<>>
    BY <1>3 DEF IrqLevel
  <2> HIDE DEF r
  <2>2. TransportOK(r) => ServiceTxFifo(r) = r
    BY <2>1, ServiceTxFifoOK
  <2> QED
    BY <1>2, <1>3, <2>2 DEF r
<1>5. CASE t.loaded /\ ~t.staged
  <2>1. u = [received EXCEPT !.queue = <<>>, !.current = EmptyPacket, !.loaded = FALSE,
                             !.integrityLost = TRUE, !.irq = FALSE]
    BY <1>1, <1>4, <1>5 DEF RetireTransmittedPacket
  <2> QED
    BY <1>1, <1>5, <2>1 DEF TransportRecords
<1>6. CASE ~(t.loaded /\ ~t.staged)
  <2> DEFINE v == [received EXCEPT !.current = EmptyPacket, !.loaded = FALSE, !.staged = FALSE]
             rest == ServiceTxFifo(v)
  <2>1. /\ v.queue = t.queue /\ ~v.loaded /\ ~v.staged
        /\ v.integrityLost = t.integrityLost /\ v \in TransportRecords
    BY <1>1, EmptyPacketType DEF TransportRecords
  <2>2. u = [rest EXCEPT !.irq = ~TxIdle(rest)]
    BY <1>1, <1>4, <1>6 DEF RetireTransmittedPacket
  <2> HIDE DEF v
  <2>3. Sending(t) = t.queue /\ t.queue \in Seq(Packets)
    <3>1. t.queue \in Seq(Packets) /\ Sending(t) = <<>> \o t.queue
      BY <1>6 DEF Sending, TransportOK, TransportRecords
    <3> QED
      BY <3>1, ConcatEmptySeq
  <2>4. CASE t.queue = <<>>
    <3>1. rest = v
      BY <2>1, <2>4 DEF ServiceTxFifo
    <3>2. u.queue = <<>> /\ ~u.loaded /\ ~u.staged /\ u.integrityLost = t.integrityLost
      BY <2>1, <2>2, <2>4, <3>1 DEF TransportRecords
    <3>3. Sending(u) = <<>>
      BY <3>2 DEF Sending
    <3> QED
      BY <1>6, <2>3, <2>4, <3>2, <3>3
  <2>5. CASE t.queue # <<>>
    <3>1. rest = [v EXCEPT !.queue = Tail(@), !.current = Head(v.queue), !.loaded = TRUE]
      BY <2>1, <2>5 DEF ServiceTxFifo
    <3>2. /\ Head(t.queue) \in Packets /\ Tail(t.queue) \in Seq(Packets)
          /\ t.queue = <<Head(t.queue)>> \o Tail(t.queue)
      BY <2>3, <2>5, HeadTailProperties
    <3>3. /\ rest.queue = Tail(t.queue) /\ rest.current = Head(t.queue) /\ rest.loaded
          /\ ~rest.staged /\ rest.integrityLost = t.integrityLost /\ rest \in TransportRecords
      <4> DEFINE head == Head(t.queue)
                 tail == Tail(t.queue)
      <4>1. /\ rest = [v EXCEPT !.queue = tail, !.current = head, !.loaded = TRUE]
            /\ head \in Packets /\ tail \in Seq(Packets)
        BY <2>1, <3>1, <3>2
      <4> HIDE DEF head, tail, rest
      <4>2. /\ rest.queue = tail /\ rest.current = head /\ rest.loaded
            /\ ~rest.staged /\ rest.integrityLost = t.integrityLost
        BY <2>1, <4>1 DEF TransportRecords
      <4>3. rest \in TransportRecords
        BY <2>1, <4>1 DEF TransportRecords
      <4> QED
        BY <4>2, <4>3 DEF head, tail
    <3> HIDE DEF rest
    <3>4. /\ u.queue = Tail(t.queue) /\ u.current = Head(t.queue) /\ u.loaded
          /\ ~u.staged /\ u.integrityLost = t.integrityLost
      BY <2>2, <3>3 DEF TransportRecords
    <3>5. Sending(u) = <<Head(t.queue)>> \o Tail(t.queue)
      BY <3>4 DEF Sending
    <3> QED
      BY <1>6, <2>3, <3>2, <3>4, <3>5
  <2> QED
    BY <2>4, <2>5
<1> QED
  BY <1>5, <1>6

-----------------------------------------------------------------------------
(* The stream: its moves *)

Quiet == Outbound' = Outbound /\ Increments' = Increments

Queues(packet) == Outbound' = Outbound /\ Increments' = Append(Increments, packet)

Requests(snapshot) ==
  Outbound' = Outbound \o SnapshotPackets(snapshot) /\ Increments' = Increments

Recovers(snapshot) ==
  /\ Outbound' = SnapshotPackets(snapshot)
  /\ Increments' = <<>>
  /\ ~RecoveryDue'

Passes ==
  /\ Increments # <<>>
  /\ Outbound' = Outbound \o <<Head(Increments)>>
  /\ Increments' = Tail(Increments)

Captures(snapshot, values, picture) ==
  /\ snapshot \in Snapshots
  /\ snapshot.encoderValues = values
  /\ snapshot.buttons = picture

\* A control, or the buttons, for which nothing new has to be said.
KeptControl(control) ==
  control \notin changes.encoders /\ encoderValues'[control] = encoderValues[control]

KeptButtons == ~changes.buttons /\ buttons' = buttons

Keeps ==
  /\ \A c \in Controls \ changes'.encoders : KeptControl(c)
  /\ ~changes'.buttons => KeptButtons

\* The packet says what is new, and nothing else is.
Announces(packet) ==
  /\ \A c \in Controls \ changes'.encoders :
       \/ packet.type = "EncoderState" /\ packet.index = c
            /\ packet.data = ClampSigned24(encoderValues'[c])
       \/ ~(packet.type = "EncoderState" /\ packet.index = c) /\ KeptControl(c)
  /\ ~changes'.buttons =>
       \/ packet.type = "ButtonState" /\ packet.index = ControlCount /\ packet.data = buttons'
       \/ packet.type # "ButtonState" /\ KeptButtons

\* Steps of the firmware.  A step behind which a recovery is due may do anything
\* to the stream: the recovery replaces it.
FirmwareMove ==
  /\ host' = host
  /\ \/ RecoveryDue'
     \/ ~RecoveryDue /\ Quiet /\ (Keeps \/ state = "Fault")
     \/ ~RecoveryDue /\ Passes /\ Keeps
     \/ /\ ~RecoveryDue
        /\ \E packet \in Packets : IsIncrement(packet) /\ Queues(packet) /\ Announces(packet)
     \/ /\ ~RecoveryDue
        /\ Keeps \/ Increments = <<>> \/ transport.rxPacket.type = "ResetAll"
        /\ \E snapshot : Captures(snapshot, encoderValues', buttons') /\ Requests(snapshot)
     \/ \E snapshot : Captures(snapshot, encoderValues', buttons') /\ Recovers(snapshot)

\* The host reads the first packet, or reads it starved.
HostMove ==
  /\ ~RecoveryDue
  /\ \E packet \in Packets, s \in Seq(Packets) :
       /\ Outbound = <<packet>> \o s
       /\ \/ /\ host' = HostReceives(host, packet)
             /\ Outbound' = s /\ Increments' = Increments /\ Keeps
          \/ /\ RecoveryDue'
             /\ \E reading \in {packet} \cup Readings(packet) :
                  host' = HostReceives(host, reading)

\* Which stages may find changes or a lost packet.
LineOK ==
  /\ changes # NoChanges => stage = "changes"
  /\ transport.integrityLost => stage = "integrity" /\ ~transport.loaded
  /\ transport.staged => transport.loaded /\ frame # NoCommand

\* Transports that look the same on the wire.
SameLine(t, u) ==
  /\ Sending(u) = Sending(t)
  /\ u.loaded = t.loaded
  /\ u.staged = t.staged
  /\ u.integrityLost = t.integrityLost

\* A recovery move, whatever transport record it starts from.
LEMMA RecoveryMove ==
  ASSUME NEW sequence \in Sequences,
         NEW values \in [Controls -> EncoderValues], NEW picture \in ButtonPictures,
         NEW t, TransportOK(t),
         RecoverPublicationIntegrity(sequence, values, picture, t)
  PROVE  /\ \E snapshot : Captures(snapshot, values, picture) /\ Recovers(snapshot)
         /\ ~transport'.integrityLost /\ ~transport'.loaded /\ ~transport'.staged
<1> DEFINE snapshot == CaptureSnapshot(values, picture, NextSequence(sequence))
<1>1. snapshot \in Snapshots /\ Captures(snapshot, values, picture)
  <2>1. snapshot \in Snapshots
    BY CaptureType
  <2> QED
    BY <2>1 DEF Captures, CaptureSnapshot
<1>2. /\ publisher' = RequestSnapshot(EmptyPublisher, snapshot)
      /\ transport' = ClearTxQueue(t)
      /\ CoreOK'
  BY ClearedPublisher, RecoveryOK DEF RecoverPublicationIntegrity, ClearPublisher
<1> HIDE DEF snapshot
<1>3. /\ BaselinePackets(publisher') = SnapshotPackets(snapshot)
      /\ OfferedPacket(publisher') = <<>>
      /\ EventPackets(publisher') = <<>>
  BY <1>1, <1>2, ClearedPublisher, RequestedSnapshot, NothingSent
<1>4. ~transport'.integrityLost /\ ~transport'.loaded /\ ~transport'.staged
  BY <1>2 DEF ClearTxQueue, TransportOK, TransportRecords
<1>5. Outbound' = SnapshotPackets(snapshot)
  <2>1. /\ Outbound' = Sending(transport') \o Offering(publisher')
        /\ Sending(transport') = <<>>
        /\ Offering(publisher') = <<>> \o SnapshotPackets(snapshot)
    BY <1>2, <1>3, OutboundIsNext, NothingSent DEF Offering
  <2>2. SnapshotPackets(snapshot) \in Seq(Packets)
    BY <1>1, FramedSnapshot
  <2>3. <<>> \o SnapshotPackets(snapshot) = SnapshotPackets(snapshot)
    BY <2>2, ConcatEmptySeq
  <2> QED
    BY <2>1, <2>3
<1>6. Recovers(snapshot)
  BY <1>3, <1>4, <1>5 DEF Recovers, RecoveryDue, Increments
<1> QED
  BY <1>1, <1>4, <1>6

\* The outbound packets move with the publisher's alone while the line is the same.
LEMMA SameLineMove ==
  ASSUME CoreOK, CoreOK', SameLine(transport, transport'), UNCHANGED frame
  PROVE  /\ RecoveryDue' <=> RecoveryDue
         /\ Outbound = Sending(transport) \o Offering(publisher)
         /\ Outbound' = Sending(transport) \o Offering(publisher')
         /\ UNCHANGED publisher => Quiet
<1>1. RecoveryDue' <=> RecoveryDue
  BY DEF RecoveryDue, SameLine
<1>2. /\ Outbound = Sending(transport) \o Offering(publisher)
      /\ Outbound' = Sending(transport') \o Offering(publisher')
  BY OutboundIs, OutboundIsNext
<1>3. Sending(transport') = Sending(transport)
  BY DEF SameLine
<1> QED
  BY <1>1, <1>2, <1>3 DEF Quiet, Increments

\* An event queued with the line as it is.
LEMMA QueueMove ==
  ASSUME CoreOK, CoreOK', SameLine(transport, transport'), UNCHANGED <<frame, host>>,
         AcceptsEvent(publisher), NEW event \in PublicationEvents,
         publisher' = QueueEvent(publisher, event),
         Announces(EventPacket(event))
  PROVE  FirmwareMove
<1>1. PublisherOK(publisher)
  BY DEF CoreOK
<1>2. /\ EventPackets(publisher') = Append(EventPackets(publisher), EventPacket(event))
      /\ BaselinePackets(publisher') = BaselinePackets(publisher)
      /\ OfferedPacket(publisher') = OfferedPacket(publisher)
  BY <1>1, QueuedEvent
<1>3. Queues(EventPacket(event))
  BY <1>2, SameLineMove DEF Queues, Increments, Offering
<1>4. EventPacket(event) \in Packets /\ IsIncrement(EventPacket(event))
  <2>1. EventPacket(event) \in Packets
    BY MadePacketsType
  <2> QED
    BY <2>1 DEF PublicationEvents, EventPacket, MakeEncoderState, MakeButtonState, IsIncrement
<1> QED
  BY <1>3, <1>4, SameLineMove DEF FirmwareMove

\* recoverPublicationIntegrity as the application calls it.
LEMMA RecoverMove ==
  ASSUME CoreOK, CoreOK', NEW values \in [Controls -> EncoderValues],
         values = encoderValues', buttons' \in ButtonPictures,
         NEW t, TransportOK(t), SameLine(transport, t),
         Recover(values, buttons', t), UNCHANGED host
  PROVE  /\ FirmwareMove
         /\ \/ SameLine(transport, transport') /\ UNCHANGED frame
            \/ ~transport'.integrityLost /\ ~transport'.loaded /\ ~transport'.staged
<1>1. CASE state = "Fault" /\ StayInFault(t)
  <2>1. transport' = t /\ UNCHANGED <<publisher, frame>>
    BY <1>1 DEF StayInFault
  <2> QED
    BY <1>1, <2>1, SameLineMove DEF FirmwareMove
<1>2. CASE RecoverPublicationIntegrity(snapshotSequence, values, buttons', t)
  <2>1. snapshotSequence \in Sequences
    BY DEF CoreOK
  <2> QED
    BY <1>2, <2>1, RecoveryMove DEF FirmwareMove
<1> QED
  BY <1>1, <1>2 DEF Recover

\* requestFreshSnapshot as the application calls it, on a line that is as it was.
LEMMA RequestMove ==
  ASSUME CoreOK, CoreOK', NEW values \in [Controls -> EncoderValues],
         values = encoderValues', buttons' \in ButtonPictures,
         NEW t, TransportOK(t), SameLine(transport, t),
         RequestFreshSnapshot(values, buttons', t), UNCHANGED host,
         Keeps \/ transport.rxPacket.type = "ResetAll"
  PROVE  /\ FirmwareMove
         /\ \/ SameLine(transport, transport') /\ UNCHANGED frame
            \/ ~transport'.integrityLost /\ ~transport'.loaded /\ ~transport'.staged
<1> DEFINE sequence == NextSequence(snapshotSequence)
           snapshot == CaptureSnapshot(values, buttons', sequence)
<1>1. snapshotSequence \in Sequences /\ PublisherOK(publisher)
  BY DEF CoreOK
<1>2. sequence \in Sequences /\ snapshot \in Snapshots /\ Captures(snapshot, values, buttons')
  <2>1. sequence \in Sequences /\ snapshot \in Snapshots
    BY <1>1, CaptureType
  <2> QED
    BY <2>1 DEF Captures, CaptureSnapshot
<1>3. CASE state = "Fault" /\ StayInFault(t)
  <2>1. transport' = t /\ UNCHANGED <<publisher, frame>>
    BY <1>3 DEF StayInFault
  <2> QED
    BY <1>3, <2>1, SameLineMove DEF FirmwareMove
<1>4. CASE /\ AcceptsSnapshot(publisher)
           /\ publisher' = RequestSnapshot(publisher, snapshot)
           /\ transport' = t
           /\ UNCHANGED frame
  <2> HIDE DEF snapshot
  <2>1. /\ BaselinePackets(publisher) = <<>> /\ OfferedPacket(publisher) = <<>>
        /\ BaselinePackets(publisher') = SnapshotPackets(snapshot)
        /\ OfferedPacket(publisher') = <<>>
        /\ EventPackets(publisher') = EventPackets(publisher)
    BY <1>1, <1>2, <1>4, RequestedSnapshot
  <2>2. /\ Outbound = Sending(transport) \o (<<>> \o <<>>)
        /\ Outbound' = Sending(transport) \o (<<>> \o SnapshotPackets(snapshot))
        /\ RecoveryDue' <=> RecoveryDue
    BY <1>4, <2>1, SameLineMove DEF Offering
  <2>3. /\ SnapshotPackets(snapshot) \in Seq(Packets)
        /\ Sending(transport) \in Seq(Packets)
        /\ <<>> \in Seq(Packets)
    <3>1. snapshot \in Snapshots
      BY <1>2
    <3>2. TransportOK(transport)
      BY DEF CoreOK
    <3> QED
      BY <1>1, <3>1, <3>2, FramedSnapshot, StreamTypes, EmptyPacketType
  <2>4. /\ <<>> \o <<>> = <<>>
        /\ <<>> \o SnapshotPackets(snapshot) = SnapshotPackets(snapshot)
        /\ Sending(transport) \o <<>> = Sending(transport)
    BY <2>3, ConcatEmptySeq
  <2>5. Requests(snapshot)
    BY <2>1, <2>2, <2>4, Zenon DEF Requests, Increments
  <2>6. FirmwareMove
    BY <1>2, <2>2, <2>5 DEF FirmwareMove
  <2> QED
    BY <1>4, <2>6
<1>5. CASE RecoverPublicationIntegrity(sequence, values, buttons', t)
  BY <1>2, <1>5, RecoveryMove DEF FirmwareMove
<1> QED
  BY <1>3, <1>4, <1>5 DEF RequestFreshSnapshot

-----------------------------------------------------------------------------
(* The stream: one lemma per action *)

\* What the lemmas about actions start from.
LEMMA DeliveryParts ==
  ASSUME DeliveryInvariant
  PROVE  /\ SafetyInvariant
         /\ CoreOK /\ SurroundingsOK /\ IrqLevel(transport)
         /\ TransportOK(transport) /\ PublisherOK(publisher)
         /\ encoderValues \in [Controls -> EncoderValues]
         /\ buttons \in ButtonPictures
         /\ host \in Hosts
         /\ LineOK
<1>1. SafetyInvariant /\ LineOK
  BY DEF DeliveryInvariant, LineOK
<1>2. CoreOK /\ SurroundingsOK /\ IrqLevel(transport)
  BY <1>1, InvariantParts
<1> QED
  BY <1>1, <1>2 DEF CoreOK, SurroundingsOK

\* What they know of the next state.
LEMMA SafetyNext ==
  ASSUME SafetyInvariant'
  PROVE  /\ CoreOK' /\ SurroundingsOK'
         /\ encoderValues' \in [Controls -> EncoderValues]
         /\ buttons' \in ButtonPictures
         /\ host' \in Hosts
<1>1. CoreOK' /\ SurroundingsOK'
  BY DEF SafetyInvariant, TypeOK, CoreOK, SurroundingsOK, PublisherTypeOK
<1> QED
  BY <1>1 DEF SurroundingsOK

\* The line stays as it was, or a recovery has cleared it.
LEMMA LineKept ==
  ASSUME LineOK,
         changes' = NoChanges \/ stage' = "changes",
         \/ ~transport.integrityLost /\ SameLine(transport, transport') /\ UNCHANGED frame
         \/ ~transport'.integrityLost /\ ~transport'.loaded /\ ~transport'.staged
  PROVE  LineOK'
BY DEF LineOK, SameLine

\* Without a step of the scanner nothing new has to be said.
LEMMA ScannerKeeps ==
  ASSUME UNCHANGED <<encoderValues, buttons, changes>>
  PROVE  Keeps
BY DEF Keeps, KeptControl, KeptButtons

\* Neither the publisher nor the line moves.
LEMMA QuietMove ==
  ASSUME CoreOK, CoreOK', SameLine(transport, transport'), UNCHANGED <<frame, publisher, host>>,
         Keeps
  PROVE  FirmwareMove
BY SameLineMove DEF FirmwareMove

\* transport_.service(): a lost packet makes a recovery due, a packet that was
\* read is retired without changing what is on its way.
LEMMA TransportServiceMove ==
  ASSUME DeliveryInvariant, SafetyInvariant', TransportService
  PROVE  FirmwareMove /\ LineOK'
<1>1. /\ stage = "transport"
      /\ transport' = IF frame = NoCommand THEN ServiceTxFifo(transport)
                      ELSE ServiceFrameEnd(transport, frame)
      /\ frame' = NoCommand
      /\ stage' = IF transport'.integrityLost THEN "integrity"
                  ELSE AfterIntegrity(transport', state)
      /\ UNCHANGED <<encoderValues, buttons, changes, publisher, host>>
  BY DEF TransportService, scanVars
<1>2. /\ TransportOK(transport) /\ IrqLevel(transport) /\ CoreOK /\ LineOK
      /\ CoreOK' /\ frame \in Commands \cup {NoCommand}
  BY DeliveryParts, SafetyNext DEF CoreOK
<1>3. /\ changes = NoChanges /\ ~transport.integrityLost
      /\ transport.staged => transport.loaded /\ frame # NoCommand
  BY <1>1, <1>2 DEF LineOK
<1>4. Keeps
  BY <1>1, ScannerKeeps
<1>5. CASE frame = NoCommand
  <2>1. transport' = transport
    BY <1>1, <1>2, <1>5, ServiceTxFifoOK DEF IrqLevel
  <2>2. SameLine(transport, transport') /\ UNCHANGED frame
    BY <1>1, <1>5, <2>1 DEF SameLine
  <2>3. LineOK'
    BY <1>1, <1>2, <1>3, <2>2, LineKept
  <2> QED
    BY <1>1, <1>2, <1>4, <2>2, <2>3, QuietMove
<1>6. CASE frame # NoCommand
  <2>1. /\ transport.loaded /\ ~transport.staged
             => transport'.integrityLost /\ ~transport'.loaded /\ ~transport'.staged
        /\ ~(transport.loaded /\ ~transport.staged)
             => /\ Sending(transport') = Sending(transport)
                /\ transport'.integrityLost = transport.integrityLost
                /\ ~transport'.staged
    BY <1>1, <1>2, <1>3, <1>6, SendingRetired
  <2>2. CASE transport.loaded /\ ~transport.staged
    BY <1>1, <1>3, <2>1, <2>2 DEF FirmwareMove, LineOK, RecoveryDue
  <2>3. CASE ~(transport.loaded /\ ~transport.staged)
    <3>1. ~RecoveryDue
      BY <1>3, <2>3 DEF RecoveryDue
    <3>2. Quiet
      <4>1. /\ Outbound = Sending(transport) \o Offering(publisher)
            /\ Outbound' = Sending(transport') \o Offering(publisher')
        BY <1>2, OutboundIs, OutboundIsNext
      <4> QED
        BY <1>1, <2>1, <2>3, <4>1 DEF Quiet, Increments
    <3> QED
      BY <1>1, <1>3, <1>4, <2>1, <2>3, <3>1, <3>2 DEF FirmwareMove, LineOK
  <2> QED
    BY <2>2, <2>3
<1> QED
  BY <1>5, <1>6

\* The recovery service() runs for an underrun.
LEMMA RecoverIntegrityMove ==
  ASSUME DeliveryInvariant, SafetyInvariant', RecoverIntegrity
  PROVE  FirmwareMove /\ LineOK'
<1> DEFINE t == [transport EXCEPT !.integrityLost = FALSE]
<1>1. /\ stage = "integrity"
      /\ Recover(encoderValues, buttons, t)
      /\ UNCHANGED <<encoderValues, buttons, changes, host>>
  BY DEF RecoverIntegrity, scanVars
<1>2. /\ SafetyInvariant /\ LineOK /\ CoreOK
      /\ TransportOK(transport)
      /\ encoderValues \in [Controls -> EncoderValues] /\ buttons \in ButtonPictures
  BY DeliveryParts
<1>3. state \in {"Running", "Resynchronizing"}
  BY <1>1, <1>2, WorkingStage
<1>4. TransportOK(t) /\ snapshotSequence \in Sequences
  BY <1>2 DEF TransportOK, TransportRecords, CoreOK
<1> HIDE DEF t
<1>5. RecoverPublicationIntegrity(snapshotSequence, encoderValues, buttons, t)
  BY <1>1, <1>3 DEF Recover
<1>6. /\ \E snapshot : Captures(snapshot, encoderValues, buttons) /\ Recovers(snapshot)
      /\ ~transport'.integrityLost /\ ~transport'.loaded /\ ~transport'.staged
  BY <1>2, <1>4, <1>5, RecoveryMove
<1>7. changes' = NoChanges
  BY <1>1, <1>2 DEF LineOK
<1>8. FirmwareMove
  BY <1>1, <1>6 DEF FirmwareMove
<1> QED
  BY <1>2, <1>6, <1>7, <1>8, LineKept

\* What every command handler starts from: the line is free of losses and
\* taking the command does not move it.
LEMMA CommandLine ==
  ASSUME DeliveryInvariant, stage = "command"
  PROVE  /\ CoreOK /\ LineOK
         /\ encoderValues \in [Controls -> EncoderValues] /\ buttons \in ButtonPictures
         /\ TransportOK(PopRxPacket(transport))
         /\ SameLine(transport, PopRxPacket(transport))
         /\ changes = NoChanges /\ ~transport.integrityLost
<1>1. /\ SafetyInvariant /\ CoreOK /\ LineOK /\ TransportOK(transport)
      /\ encoderValues \in [Controls -> EncoderValues] /\ buttons \in ButtonPictures
  BY DeliveryParts
<1>2. TransportOK(PopRxPacket(transport))
  BY <1>1, CommandStage
<1>3. SameLine(transport, PopRxPacket(transport))
  BY <1>1, SendingPopped DEF SameLine
<1> QED
  BY <1>1, <1>2, <1>3 DEF LineOK

\* A NOP, an unsupported or an invalid command.
LEMMA HandleIgnoredMove ==
  ASSUME DeliveryInvariant, SafetyInvariant', HandleIgnored
  PROVE  FirmwareMove /\ LineOK'
<1>1. /\ stage = "command"
      /\ transport' = PopRxPacket(transport)
      /\ UNCHANGED <<encoderValues, buttons, changes, publisher, frame, host>>
  BY DEF HandleIgnored, Handles, CommandHandled
<1>2. /\ SameLine(transport, transport') /\ LineOK /\ CoreOK /\ CoreOK'
      /\ ~transport.integrityLost /\ changes' = NoChanges
  BY <1>1, CommandLine, SafetyNext
<1> QED
  BY <1>1, <1>2, LineKept, QuietMove, ScannerKeeps

\* GET_SNAPSHOT and RESET_ALL.
LEMMA SnapshotCommandMove ==
  ASSUME DeliveryInvariant, SafetyInvariant', stage = "command",
         RequestFreshSnapshot(encoderValues', buttons, PopRxPacket(transport)),
         UNCHANGED encoderValues \/ transport.rxPacket.type = "ResetAll",
         CommandHandled
  PROVE  FirmwareMove /\ LineOK'
<1>1. UNCHANGED <<buttons, changes, host>>
  BY DEF CommandHandled
<1>2. /\ SameLine(transport, PopRxPacket(transport)) /\ TransportOK(PopRxPacket(transport))
      /\ LineOK /\ CoreOK /\ CoreOK'
      /\ ~transport.integrityLost /\ changes' = NoChanges
      /\ encoderValues' \in [Controls -> EncoderValues] /\ buttons' \in ButtonPictures
  BY <1>1, CommandLine, SafetyNext
<1>3. Keeps \/ transport.rxPacket.type = "ResetAll"
  BY <1>1, ScannerKeeps
<1>4. /\ FirmwareMove
      /\ \/ SameLine(transport, transport') /\ UNCHANGED frame
         \/ ~transport'.integrityLost /\ ~transport'.loaded /\ ~transport'.staged
  BY <1>1, <1>2, <1>3, RequestMove
<1> QED
  BY <1>2, <1>4, LineKept

\* Both commands that ask for a snapshot.
LEMMA SnapshotCommandsMove ==
  ASSUME DeliveryInvariant, SafetyInvariant', HandleRequestSnapshot \/ HandleResetAll
  PROVE  FirmwareMove /\ LineOK'
<1>1. CASE HandleRequestSnapshot
  BY <1>1, SnapshotCommandMove DEF HandleRequestSnapshot, Handles
<1>2. CASE HandleResetAll
  <2>1. transport.rxPacket.type = "ResetAll"
    BY <1>2 DEF HandleResetAll, Handles, Dispatch
  <2> QED
    BY <1>2, <2>1, SnapshotCommandMove DEF HandleResetAll, Handles
<1> QED
  BY <1>1, <1>2

\* RESYNC, and RESET_CONTROL when the queue is full.
LEMMA RecoveryCommandMove ==
  ASSUME DeliveryInvariant, SafetyInvariant', stage = "command",
         Recover(encoderValues', buttons, PopRxPacket(transport)),
         CommandHandled
  PROVE  FirmwareMove /\ LineOK'
<1>1. UNCHANGED <<buttons, changes, host>>
  BY DEF CommandHandled
<1>2. /\ SameLine(transport, PopRxPacket(transport)) /\ TransportOK(PopRxPacket(transport))
      /\ LineOK /\ CoreOK /\ CoreOK'
      /\ ~transport.integrityLost /\ changes' = NoChanges
      /\ encoderValues' \in [Controls -> EncoderValues] /\ buttons' \in ButtonPictures
  BY <1>1, CommandLine, SafetyNext
<1>3. /\ FirmwareMove
      /\ \/ SameLine(transport, transport') /\ UNCHANGED frame
         \/ ~transport'.integrityLost /\ ~transport'.loaded /\ ~transport'.staged
  BY <1>1, <1>2, RecoverMove
<1> QED
  BY <1>2, <1>3, LineKept

\* RESYNC.
LEMMA HandleResyncMove ==
  ASSUME DeliveryInvariant, SafetyInvariant', HandleResync
  PROVE  FirmwareMove /\ LineOK'
<1>1. /\ stage = "command"
      /\ Recover(encoderValues', buttons, PopRxPacket(transport))
      /\ CommandHandled
      /\ UNCHANGED <<encoderValues, buttons, changes>>
  BY DEF HandleResync, Handles, CommandHandled
<1> QED
  BY <1>1, ScannerKeeps, RecoveryCommandMove

\* RESET_CONTROL: the new count is queued, or a full queue recovers.
LEMMA HandleResetControlMove ==
  ASSUME DeliveryInvariant, SafetyInvariant', HandleResetControl
  PROVE  FirmwareMove /\ LineOK'
<1> DEFINE control == transport.rxPacket.index
           values  == [encoderValues EXCEPT ![control] = 0]
           popped  == PopRxPacket(transport)
<1>1. /\ stage = "command" /\ CommandHandled
      /\ UNCHANGED <<buttons, changes, host>>
      /\ \/ /\ transport' = popped
            /\ UNCHANGED <<encoderValues, publisher, frame>>
         \/ /\ control \in Controls
            /\ AcceptsEvent(publisher)
            /\ encoderValues' = values
            /\ publisher' = QueueEvent(publisher, EncoderEvent(control, 0))
            /\ transport' = popped
            /\ UNCHANGED frame
         \/ /\ encoderValues' = values
            /\ Recover(encoderValues', buttons, popped)
  BY DEF HandleResetControl, Handles, CommandHandled
<1>2. /\ SameLine(transport, popped) /\ TransportOK(popped)
      /\ LineOK /\ CoreOK /\ CoreOK' /\ TransportOK(transport)
      /\ ~transport.integrityLost /\ changes = NoChanges /\ changes' = NoChanges
      /\ encoderValues \in [Controls -> EncoderValues]
      /\ encoderValues' \in [Controls -> EncoderValues] /\ buttons' \in ButtonPictures
  BY <1>1, CommandLine, SafetyNext, DeliveryParts
<1> HIDE DEF popped
<1>3. CASE /\ transport' = popped
           /\ UNCHANGED <<encoderValues, publisher, frame>>
  BY <1>1, <1>2, <1>3, LineKept, QuietMove, ScannerKeeps
<1>4. CASE /\ control \in Controls
           /\ AcceptsEvent(publisher)
           /\ encoderValues' = values
           /\ publisher' = QueueEvent(publisher, EncoderEvent(control, 0))
           /\ transport' = popped
           /\ UNCHANGED frame
  <2> DEFINE event == EncoderEvent(control, 0)
  <2>1. event \in PublicationEvents
    BY <1>4, EventsType, DataAssumption
  <2>2. /\ EventPacket(event) = MakeEncoderState(control, 0)
        /\ EventPacket(event).type = "EncoderState" /\ EventPacket(event).index = control
        /\ EventPacket(event).data = ClampSigned24(0)
    BY DEF EncoderEvent, EventPacket, MakeEncoderState
  <2> HIDE DEF event
  <2>3. /\ encoderValues'[control] = 0
        /\ \A c \in Controls : c # control => encoderValues'[c] = encoderValues[c]
    BY <1>2, <1>4
  <2>4. Announces(EventPacket(event))
    <3>1. ASSUME NEW c \in Controls \ changes'.encoders
          PROVE  \/ /\ EventPacket(event).type = "EncoderState" /\ EventPacket(event).index = c
                    /\ EventPacket(event).data = ClampSigned24(encoderValues'[c])
                 \/ /\ ~(EventPacket(event).type = "EncoderState" /\ EventPacket(event).index = c)
                    /\ KeptControl(c)
      <4>1. CASE c = control
        BY <2>2, <2>3, <4>1
      <4>2. CASE c # control
        BY <1>2, <2>2, <2>3, <4>2 DEF KeptControl
      <4> QED
        BY <4>1, <4>2
    <3>2. ~changes'.buttons => EventPacket(event).type # "ButtonState" /\ KeptButtons
      BY <1>1, <2>2 DEF KeptButtons
    <3> QED
      BY <3>1, <3>2 DEF Announces
  <2>5. FirmwareMove
    BY <1>1, <1>2, <1>4, <2>1, <2>4, QueueMove DEF event
  <2> QED
    BY <1>1, <1>2, <1>4, <2>5, LineKept
<1>5. CASE encoderValues' = values /\ Recover(encoderValues', buttons, popped)
  <2>1. /\ FirmwareMove
        /\ \/ SameLine(transport, transport') /\ UNCHANGED frame
           \/ ~transport'.integrityLost /\ ~transport'.loaded /\ ~transport'.staged
    <3>1. Recover(encoderValues', buttons', popped) /\ UNCHANGED host
      BY <1>1, <1>5
    <3> QED
      BY <1>2, <3>1, RecoverMove
  <2> QED
    BY <1>2, <2>1, LineKept
<1> QED
  BY <1>1, <1>3, <1>4, <1>5

\* ControlScanner::service: what it found has yet to be said.
LEMMA ScanMove ==
  ASSUME DeliveryInvariant, SafetyInvariant', Scan
  PROVE  FirmwareMove /\ LineOK'
<1>1. PICK values \in [Controls -> EncoderValues], picture \in ButtonPictures :
        /\ encoderValues' = values
        /\ buttons' = picture
        /\ changes' = [encoders |-> {c \in Controls : values[c] # encoderValues[c]},
                       buttons  |-> picture # buttons]
  BY DEF Scan
<1>2. /\ stage = "scan" /\ stage' = "changes"
      /\ UNCHANGED <<publisher, transport, frame, host>>
  BY DEF Scan
<1>3. LineOK /\ CoreOK /\ CoreOK' /\ changes = NoChanges /\ ~transport.integrityLost
  BY <1>2, DeliveryParts, SafetyNext DEF LineOK
<1>4. Keeps
  <2>1. changes.encoders = {} /\ ~changes.buttons
    BY <1>3 DEF NoChanges
  <2> QED
    BY <1>1, <2>1 DEF Keeps, KeptControl, KeptButtons
<1>5. SameLine(transport, transport')
  BY <1>2 DEF SameLine
<1> QED
  BY <1>2, <1>3, <1>4, <1>5, LineKept, QuietMove

\* A change is queued, or the queue is full and a recovery takes its place.
LEMMA PublishChangeMove ==
  ASSUME DeliveryInvariant, SafetyInvariant', stage = "changes",
         UNCHANGED <<stage, encoderValues, buttons, host>>,
         NEW event \in PublicationEvents,
         \/ /\ AcceptsEvent(publisher)
            /\ publisher' = QueueEvent(publisher, event)
            /\ UNCHANGED <<transport, frame>>
            /\ Announces(EventPacket(event))
         \/ Recover(encoderValues, buttons, transport)
  PROVE  FirmwareMove /\ LineOK'
<1>1. /\ LineOK /\ CoreOK /\ CoreOK' /\ TransportOK(transport)
      /\ encoderValues' \in [Controls -> EncoderValues] /\ buttons' \in ButtonPictures
      /\ ~transport.integrityLost /\ SameLine(transport, transport)
  BY DeliveryParts, SafetyNext DEF LineOK, SameLine
<1>2. CASE /\ AcceptsEvent(publisher)
           /\ publisher' = QueueEvent(publisher, event)
           /\ UNCHANGED <<transport, frame>>
           /\ Announces(EventPacket(event))
  <2>1. SameLine(transport, transport')
    BY <1>1, <1>2
  <2> QED
    BY <1>1, <1>2, <2>1, LineKept, QueueMove
<1>3. CASE Recover(encoderValues, buttons, transport)
  <2>1. Recover(encoderValues', buttons', transport)
    BY <1>3
  <2>2. /\ FirmwareMove
        /\ \/ SameLine(transport, transport') /\ UNCHANGED frame
           \/ ~transport'.integrityLost /\ ~transport'.loaded /\ ~transport'.staged
    BY <1>1, <2>1, RecoverMove
  <2> QED
    BY <1>1, <2>2, LineKept
<1> QED
  BY <1>2, <1>3

\* A changed count, and a changed button picture: queued, or the queue is full and
\* the rest of the scan goes with the recovery.
LEMMA PublishEncoderChangeMove ==
  ASSUME DeliveryInvariant, SafetyInvariant', PublishEncoderChange
  PROVE  FirmwareMove /\ LineOK'
<1>1. stage = "changes" /\ UNCHANGED <<stage, encoderValues, buttons, host>>
  BY DEF PublishEncoderChange, scanVars
<1>2. PICK control \in changes.encoders :
        \/ /\ AcceptsEvent(publisher)
           /\ publisher' = QueueEvent(publisher,
                             EncoderEvent(control, encoderValues[control]))
           /\ changes' = [changes EXCEPT !.encoders = @ \ {control}]
           /\ UNCHANGED <<transport, frame>>
        \/ Recover(encoderValues, buttons, transport)
  BY DEF PublishEncoderChange
<1>3. /\ changes \in [encoders : SUBSET Controls, buttons : BOOLEAN]
      /\ encoderValues \in [Controls -> EncoderValues]
  BY DeliveryParts DEF SurroundingsOK
<1> DEFINE event == EncoderEvent(control, encoderValues[control])
<1>4. control \in Controls /\ event \in PublicationEvents
  BY <1>3, EventsType
<1>5. /\ EventPacket(event).type = "EncoderState" /\ EventPacket(event).index = control
      /\ EventPacket(event).data = ClampSigned24(encoderValues[control])
  BY DEF EncoderEvent, EventPacket, MakeEncoderState
<1> HIDE DEF event
<1>6. ASSUME changes' = [changes EXCEPT !.encoders = @ \ {control}]
      PROVE  Announces(EventPacket(event))
  <2>1. changes'.encoders = changes.encoders \ {control} /\ changes'.buttons = changes.buttons
    BY <1>3, <1>6
  <2>2. ASSUME NEW c \in Controls \ changes'.encoders
        PROVE  \/ /\ EventPacket(event).type = "EncoderState" /\ EventPacket(event).index = c
                  /\ EventPacket(event).data = ClampSigned24(encoderValues'[c])
               \/ /\ ~(EventPacket(event).type = "EncoderState" /\ EventPacket(event).index = c)
                  /\ KeptControl(c)
    <3>1. CASE c = control
      BY <1>1, <1>5, <3>1
    <3>2. CASE c # control
      BY <1>1, <1>5, <2>1, <3>2 DEF KeptControl
    <3> QED
      BY <3>1, <3>2
  <2>3. ~changes'.buttons => EventPacket(event).type # "ButtonState" /\ KeptButtons
    BY <1>1, <1>5, <2>1 DEF KeptButtons
  <2> QED
    BY <2>2, <2>3 DEF Announces
<1>7. \/ /\ AcceptsEvent(publisher)
         /\ publisher' = QueueEvent(publisher, event)
         /\ UNCHANGED <<transport, frame>>
         /\ Announces(EventPacket(event))
      \/ Recover(encoderValues, buttons, transport)
  BY <1>2, <1>6 DEF event
<1> QED
  BY <1>1, <1>4, <1>7, PublishChangeMove

\* The buttons come last.
LEMMA PublishButtonChangeMove ==
  ASSUME DeliveryInvariant, SafetyInvariant', PublishButtonChange
  PROVE  FirmwareMove /\ LineOK'
<1>1. /\ stage = "changes" /\ UNCHANGED <<stage, encoderValues, buttons, host>>
      /\ changes.encoders = {} /\ changes' = NoChanges
  BY DEF PublishButtonChange, scanVars
<1> DEFINE event == ButtonsEvent(buttons)
<1>2. event \in PublicationEvents
  BY DeliveryParts, EventsType
<1>3. /\ EventPacket(event).type = "ButtonState" /\ EventPacket(event).index = ControlCount
      /\ EventPacket(event).data = buttons
  BY DEF ButtonsEvent, EventPacket, MakeButtonState
<1> HIDE DEF event
<1>4. Announces(EventPacket(event))
  BY <1>1, <1>3 DEF Announces, KeptControl
<1>5. \/ /\ AcceptsEvent(publisher)
         /\ publisher' = QueueEvent(publisher, event)
         /\ UNCHANGED <<transport, frame>>
         /\ Announces(EventPacket(event))
      \/ Recover(encoderValues, buttons, transport)
  BY <1>4 DEF PublishButtonChange, event
<1> QED
  BY <1>1, <1>2, <1>5, PublishChangeMove

\* The packet the publisher offers stands in the stream where it stood before,
\* or is the oldest increment behind an empty offer.
LEMMA Served ==
  ASSUME NEW p, PublisherOK(p), NEW served, served = ServicePublisher(p)
  PROVE  \/ Offering(served) = Offering(p) /\ EventPackets(served) = EventPackets(p)
         \/ /\ Offering(p) = <<>> /\ EventPackets(p) # <<>>
            /\ Offering(served) = <<Head(EventPackets(p))>>
            /\ EventPackets(served) = Tail(EventPackets(p))
<1> DEFINE b == BaselinePackets(p)
           e == EventPackets(p)
<1>1. b \in Seq(Packets) /\ e \in Seq(Packets)
  <2>1. EmptyTransport \in TransportRecords /\ TransportOK(EmptyTransport)
    BY EmptyTransportOK DEF TransportOK
  <2> QED
    BY <2>1, StreamTypes
<1>2. /\ <<>> \o b = b
      /\ <<>> \o <<>> = <<>>
      /\ e # <<>> => Head(e) \in Packets /\ <<Head(e)>> \o <<>> = <<Head(e)>>
      /\ b # <<>> => <<Head(b)>> \o Tail(b) = b
  <2>1. <<>> \o b = b /\ <<>> \o <<>> = <<>>
    BY <1>1, ConcatEmptySeq, EmptyPacketType
  <2>2. ASSUME e # <<>>
        PROVE  Head(e) \in Packets /\ <<Head(e)>> \o <<>> = <<Head(e)>>
    <3>1. Head(e) \in Packets
      BY <1>1, <2>2, HeadTailProperties
    <3>2. <<Head(e)>> \in Seq(Packets)
      BY <3>1
    <3> QED
      BY <3>1, <3>2, ConcatEmptySeq
  <2>3. ASSUME b # <<>>
        PROVE  <<Head(b)>> \o Tail(b) = b
    BY <1>1, <2>3, HeadTailProperties
  <2> QED
    BY <2>1, <2>2, <2>3
<1>3. CASE OffersBaseline(p, served)
  <2>1. /\ Offering(p) = <<>> \o b
        /\ Offering(served) = <<Head(b)>> \o Tail(b)
        /\ b # <<>> /\ EventPackets(served) = e
    BY <1>3 DEF OffersBaseline, Offering
  <2> QED
    BY <1>2, <2>1
<1>4. CASE OffersIncrement(p, served)
  <2>1. /\ Offering(p) = <<>> \o <<>>
        /\ Offering(served) = <<Head(e)>> \o <<>>
        /\ e # <<>> /\ EventPackets(served) = Tail(e)
    BY <1>4 DEF OffersIncrement, Offering
  <2> QED
    BY <1>2, <2>1
<1>5. CASE OffersNothing(p, served)
  BY <1>5 DEF OffersNothing, Offering
<1> QED
  BY <1>3, <1>4, <1>5, ServedPacket

\* What a transport and a publisher carry up to the end of the baseline.
Carried(t, p) == Sending(t) \o Offering(p)

\* Handing the packet to the transport does not change what is on its way.
LEMMA Transferred ==
  ASSUME NEW t, TransportOK(t), IrqLevel(t), t.staged => t.loaded,
         NEW served, PublisherOK(served), served.packetReady,
         NEW u, u = EnqueueTxPacket(t, served.packet),
         NEW q, q = ConsumePacket(served)
  PROVE  /\ Carried(u, q) = Carried(t, served)
         /\ EventPackets(q) = EventPackets(served)
         /\ u.integrityLost = t.integrityLost /\ u.staged = t.staged /\ u.loaded
<1> DEFINE a == Sending(t)
           b == BaselinePackets(served)
<1>1. /\ q.phase = served.phase /\ q.snapshot = served.snapshot
      /\ q.encoderIndex = served.encoderIndex /\ q.events = served.events
      /\ ~q.packetReady /\ served.packet \in Packets
  BY DEF ConsumePacket, PublisherOK, PublisherRecords
<1>2. /\ BaselinePackets(q) = b
      /\ EventPackets(q) = EventPackets(served)
  BY <1>1, SameBaseline, SameIncrements
<1>3. /\ Offering(q) = <<>> \o b
      /\ Offering(served) = <<served.packet>> \o b
  BY <1>1, <1>2 DEF Offering, OfferedPacket
<1>4. /\ Sending(u) = a \o <<served.packet>>
      /\ u.integrityLost = t.integrityLost /\ u.staged = t.staged /\ u.loaded
  BY <1>1, SendingEnqueued
<1> SUFFICES ASSUME NEW one, one = <<served.packet>>
             PROVE  Sending(u) \o Offering(q) = Sending(t) \o Offering(served)
  BY <1>2, <1>4 DEF Carried
<1>5. a \in Seq(Packets) /\ b \in Seq(Packets) /\ one \in Seq(Packets)
  BY <1>1, StreamTypes
<1>6. <<>> \o b = b
  BY <1>5, ConcatEmptySeq
<1>7. /\ Sending(u) = a \o one /\ Offering(q) = b
      /\ Sending(t) = a /\ Offering(served) = one \o b
  BY <1>3, <1>4, <1>6
<1> HIDE DEF a, b
<1>8. (a \o one) \o b = a \o (one \o b)
  BY <1>5, ConcatAssociative
<1> QED
  BY <1>7, <1>8

\* publisher_.service() and the transfer: the stream passes an increment on, or
\* stays as it is.
LEMMA PublishAndTransferMove ==
  ASSUME DeliveryInvariant, SafetyInvariant', PublishAndTransfer
  PROVE  FirmwareMove /\ LineOK'
<1> DEFINE served == ServicePublisher(publisher)
           a == Sending(transport)
           o == Offering(publisher)
           e == EventPackets(publisher)
<1>1. /\ stage = "changes" /\ changes = NoChanges
      /\ UNCHANGED <<encoderValues, buttons, changes, frame, host>>
      /\ \/ /\ served.packetReady
            /\ transport' = EnqueueTxPacket(transport, served.packet)
            /\ publisher' = ConsumePacket(served)
         \/ /\ transport' = transport
            /\ publisher' = served
  BY DEF PublishAndTransfer, scanVars
<1>2. /\ CoreOK /\ CoreOK' /\ LineOK /\ IrqLevel(transport)
      /\ TransportOK(transport) /\ PublisherOK(publisher)
      /\ ~transport.integrityLost
      /\ transport.staged => transport.loaded /\ frame # NoCommand
  BY <1>1, DeliveryParts, SafetyNext DEF LineOK
<1>3. PublisherOK(served)
  BY <1>2, ServicePublisherOK
<1>4. \/ Offering(served) = o /\ EventPackets(served) = e
      \/ /\ o = <<>> /\ e # <<>>
         /\ Offering(served) = <<Head(e)>> /\ EventPackets(served) = Tail(e)
  BY <1>2, Served
<1> HIDE DEF served
<1>5. /\ Outbound' = a \o Offering(served)
      /\ Increments' = EventPackets(served)
      /\ ~transport'.integrityLost
      /\ transport'.staged = transport.staged
      /\ transport.loaded => transport'.loaded
  <2>1. Outbound' = Sending(transport') \o Offering(publisher')
    BY <1>2, OutboundIsNext
  <2>2. CASE transport' = transport /\ publisher' = served
    BY <1>2, <2>1, <2>2 DEF Increments
  <2>3. CASE /\ served.packetReady
             /\ transport' = EnqueueTxPacket(transport, served.packet)
             /\ publisher' = ConsumePacket(served)
    <3>1. /\ TransportOK(transport) /\ IrqLevel(transport)
          /\ transport.staged => transport.loaded
      BY <1>2
    <3>2. /\ Carried(transport', publisher') = Carried(transport, served)
          /\ EventPackets(publisher') = EventPackets(served)
          /\ transport'.integrityLost = transport.integrityLost
          /\ transport'.staged = transport.staged /\ transport'.loaded
      BY <1>3, <2>3, <3>1, Transferred
    <3> QED
      BY <1>2, <2>1, <3>2 DEF Increments, Carried
  <2> QED
    BY <1>1, <2>2, <2>3
<1>6. LineOK'
  BY <1>1, <1>2, <1>5 DEF LineOK
<1>7. Keeps
  BY <1>1, ScannerKeeps
<1>8. ~RecoveryDue' => ~RecoveryDue
  BY <1>1, <1>2, <1>5 DEF RecoveryDue
<1>9. Outbound = a \o o /\ Increments = e
  BY <1>2, OutboundIs DEF Increments
<1>10. FirmwareMove
  <2>1. CASE Offering(served) = o /\ EventPackets(served) = e
    BY <1>1, <1>5, <1>7, <1>8, <1>9, <2>1 DEF Quiet, FirmwareMove
  <2>2. CASE /\ o = <<>> /\ e # <<>>
             /\ Offering(served) = <<Head(e)>> /\ EventPackets(served) = Tail(e)
    <3>1. a \in Seq(Packets)
      BY <1>2, StreamTypes
    <3>2. a \o <<>> = a
      BY <3>1, ConcatEmptySeq
    <3>3. Passes
      BY <1>5, <1>9, <2>2, <3>2 DEF Passes
    <3> QED
      BY <1>1, <1>7, <1>8, <3>3 DEF FirmwareMove
  <2> QED
    BY <1>4, <2>1, <2>2
<1> QED
  BY <1>6, <1>10

\* A frame: the host reads what comes first, a starved frame makes a recovery
\* due, and without a loaded packet nothing moves.
LEMMA HostFrameMove ==
  ASSUME DeliveryInvariant, SafetyInvariant', NEW command \in Commands, NEW fed \in BOOLEAN,
         HostFrame(command, fed)
  PROVE  (FirmwareMove \/ HostMove) /\ LineOK'
<1> DEFINE packet == transport.current
           s == transport.queue \o Offering(publisher)
<1>1. /\ frame = NoCommand /\ frame' = command
      /\ transport' = [transport EXCEPT !.staged = transport.loaded /\ fed]
      /\ host' \in
           CASE ~transport.loaded        -> {host}
             [] transport.loaded /\ fed  -> {HostReceives(host, transport.current)}
             [] transport.loaded /\ ~fed ->
                  {host} \cup {HostReceives(host, reading) : reading \in Readings(transport.current)}
      /\ UNCHANGED <<stage, encoderValues, buttons, changes, publisher>>
  BY DEF HostFrame, scanVars
<1>2. /\ CoreOK /\ CoreOK' /\ LineOK
      /\ TransportOK(transport) /\ PublisherOK(publisher)
  BY DeliveryParts, SafetyNext
<1>3. /\ ~transport.staged
      /\ transport.integrityLost => stage = "integrity" /\ ~transport.loaded
  BY <1>1, <1>2 DEF LineOK
<1>4. /\ transport'.queue = transport.queue /\ transport'.current = transport.current
      /\ transport'.loaded = transport.loaded
      /\ transport'.integrityLost = transport.integrityLost
      /\ transport'.staged = (transport.loaded /\ fed)
  BY <1>1, <1>2 DEF TransportOK, TransportRecords
<1>5. frame' # NoCommand
  <2>1. command.type \in CommandTypes /\ NoCommand.type \notin CommandTypes
    BY TransportAssumption DEF NoCommand, CommandTypes
  <2> QED
    BY <1>1, <2>1
<1>6. LineOK'
  <2>1. changes' # NoChanges => stage' = "changes"
    BY <1>1, <1>2 DEF LineOK
  <2> QED
    BY <1>1, <1>3, <1>4, <1>5, <2>1 DEF LineOK
<1>7. Keeps
  BY <1>1, ScannerKeeps
<1>8. CASE ~transport.loaded
  <2>1. host' = host
    BY <1>1, <1>8
  <2>2. Sending(transport') = Sending(transport)
    BY <1>4, <1>8 DEF Sending
  <2>3. Quiet
    BY <1>1, <1>2, <2>2, OutboundIs, OutboundIsNext DEF Quiet, Increments
  <2>4. RecoveryDue' <=> RecoveryDue
    BY <1>4, <1>8 DEF RecoveryDue
  <2> QED
    BY <1>6, <1>7, <2>1, <2>3, <2>4 DEF FirmwareMove
<1>9. CASE transport.loaded
  <2>1. packet \in Packets /\ transport.queue \in Seq(Packets)
        /\ Offering(publisher) \in Seq(Packets)
    BY <1>2, StreamTypes DEF TransportOK, TransportRecords
  <2>2. s \in Seq(Packets)
    BY <2>1, Joined
  <2>3. ~RecoveryDue
    BY <1>1, <1>3, <1>9 DEF RecoveryDue
  <2>4. Outbound = <<packet>> \o s
    <3> SUFFICES ASSUME NEW one, one = <<packet>>
                 PROVE  Outbound = one \o s
      OBVIOUS
    <3> DEFINE q == transport.queue
               o == Offering(publisher)
    <3>1. one \in Seq(Packets) /\ q \in Seq(Packets) /\ o \in Seq(Packets)
      BY <2>1
    <3>2. Sending(transport) = one \o q
      BY <1>3, <1>9 DEF Sending
    <3>3. Outbound = (one \o q) \o o
      BY <1>2, <3>2, OutboundIs
    <3> HIDE DEF q, o
    <3>4. (one \o q) \o o = one \o (q \o o)
      BY <3>1, ConcatAssociative
    <3> QED
      BY <3>3, <3>4 DEF q, o
  <2>5. CASE fed
    <3>1. host' = HostReceives(host, packet)
      BY <1>1, <1>9, <2>5
    <3>2. Sending(transport') = <<>> \o transport.queue
      BY <1>4, <1>9, <2>5 DEF Sending
    <3>3. Sending(transport') = transport.queue
      BY <2>1, <3>2, ConcatEmptySeq
    <3>4. Outbound' = s /\ Increments' = Increments
      BY <1>1, <1>2, <3>3, OutboundIsNext DEF Increments
    <3> HIDE DEF packet, s
    <3>5. HostMove
      BY <1>7, <2>1, <2>2, <2>3, <2>4, <3>1, <3>4 DEF HostMove
    <3> QED
      BY <1>6, <3>5
  <2>6. CASE ~fed
    <3>1. RecoveryDue'
      BY <1>4, <1>5, <1>9, <2>6 DEF RecoveryDue
    <3>2. \/ host' = host
          \/ \E reading \in {packet} \cup Readings(packet) : host' = HostReceives(host, reading)
      BY <1>1, <1>9, <2>6
    <3>3. CASE host' = host
      BY <1>6, <3>1, <3>3 DEF FirmwareMove
    <3>4. CASE \E reading \in {packet} \cup Readings(packet) : host' = HostReceives(host, reading)
      <4> HIDE DEF packet, s
      <4>1. HostMove
        BY <2>1, <2>2, <2>3, <2>4, <3>1, <3>4 DEF HostMove
      <4> QED
        BY <1>6, <4>1
    <3> QED
      BY <3>2, <3>3, <3>4
  <2> QED
    BY <2>5, <2>6
<1> QED
  BY <1>8, <1>9

\* begin(): the first snapshot, or a silent Fault.
LEMMA BeginMove ==
  ASSUME DeliveryInvariant, SafetyInvariant', Begin
  PROVE  /\ LineOK'
         /\ \/ /\ FirmwareMove
               /\ \E snapshot : Captures(snapshot, encoderValues', buttons') /\ Recovers(snapshot)
            \/ state' = "Fault" /\ Outbound' = <<>> /\ host' = EmptyHost
<1>1. /\ SafetyInvariant /\ LineOK /\ CoreOK /\ CoreOK'
      /\ stage = "setup" /\ state = "Starting"
      /\ host = EmptyHost /\ publisher = EmptyPublisher
      /\ encoderValues \in [Controls -> EncoderValues]
      /\ buttons' \in ButtonPictures
  BY DeliveryParts, SafetyNext DEF Begin, SafetyInvariant
<1>2. UNCHANGED <<encoderValues, changes, host>> /\ changes = NoChanges
  BY <1>1 DEF Begin, LineOK
<1>3. \/ RequestFreshSnapshot(encoderValues, buttons', EmptyTransport)
      \/ /\ state' = "Fault"
         /\ transport' = EmptyTransport
         /\ publisher' = publisher
  BY DEF Begin
<1>4. /\ Sending(EmptyTransport) = <<>> /\ Offering(EmptyPublisher) = <<>>
      /\ EventPackets(EmptyPublisher) = <<>>
      /\ ~EmptyTransport.loaded /\ ~EmptyTransport.staged /\ ~EmptyTransport.integrityLost
      /\ TransportOK(EmptyTransport)
  BY NothingSent, EmptyTransportOK DEF EmptyTransport
<1>5. CASE /\ state' = "Fault"
           /\ transport' = EmptyTransport
           /\ publisher' = publisher
  <2>1. Outbound' = <<>> \o <<>> /\ <<>> \o <<>> = <<>>
    BY <1>1, <1>4, <1>5, OutboundIsNext, ConcatEmptySeq, EmptyPacketType
  <2>2. LineOK'
    BY <1>2, <1>4, <1>5 DEF LineOK
  <2> QED
    BY <1>1, <1>2, <1>5, <2>1, <2>2
<1>6. CASE RequestFreshSnapshot(encoderValues, buttons', EmptyTransport)
  <2> DEFINE sequence == NextSequence(snapshotSequence)
             snapshot == CaptureSnapshot(encoderValues, buttons', sequence)
  <2>1. snapshot \in Snapshots /\ Captures(snapshot, encoderValues, buttons')
    <3>1. snapshotSequence \in Sequences
      BY <1>1 DEF CoreOK
    <3>2. snapshot \in Snapshots
      BY <1>1, <3>1, CaptureType
    <3> QED
      BY <3>2 DEF Captures, CaptureSnapshot
  <2>2. /\ publisher' = RequestSnapshot(EmptyPublisher, snapshot)
        /\ transport' = EmptyTransport
    BY <1>1, <1>6, ClearedPublisher DEF RequestFreshSnapshot
  <2> HIDE DEF snapshot
  <2>3. /\ BaselinePackets(publisher') = SnapshotPackets(snapshot)
        /\ OfferedPacket(publisher') = <<>>
        /\ EventPackets(publisher') = <<>>
    BY <1>4, <2>1, <2>2, ClearedPublisher, RequestedSnapshot
  <2>4. /\ SnapshotPackets(snapshot) \in Seq(Packets)
        /\ <<>> \o SnapshotPackets(snapshot) = SnapshotPackets(snapshot)
    <3>1. SnapshotPackets(snapshot) \in Seq(Packets)
      BY <2>1, FramedSnapshot
    <3> QED
      BY <3>1, ConcatEmptySeq
  <2>5. Outbound' = SnapshotPackets(snapshot)
    BY <1>1, <1>4, <2>2, <2>3, <2>4, OutboundIsNext DEF Offering
  <2>6. ~RecoveryDue'
    BY <1>4, <2>2 DEF RecoveryDue
  <2>7. Recovers(snapshot)
    BY <2>3, <2>5, <2>6 DEF Recovers, Increments
  <2>8. LineOK'
    BY <1>2, <1>4, <2>2 DEF LineOK
  <2>9. Captures(snapshot, encoderValues', buttons')
    BY <1>2, <2>1
  <2> QED
    BY <1>2, <2>7, <2>8, <2>9 DEF FirmwareMove
<1> QED
  BY <1>3, <1>5, <1>6

-----------------------------------------------------------------------------
(* The host never rejects what the MCM sends *)

EndComing(packets) == \E at \in DOMAIN packets : packets[at].type = "SnapshotEnd"

\* An END stays on its way behind and in front of other packets, until the
\* host reads it.
LEMMA EndStays ==
  ASSUME NEW s \in Seq(Packets), NEW t \in Seq(Packets), NEW packet \in Packets
  PROVE  /\ EndComing(s) \/ EndComing(t) => EndComing(s \o t)
         /\ EndComing(<<packet>> \o s) => packet.type = "SnapshotEnd" \/ EndComing(s)
<1>1. ASSUME EndComing(s) \/ EndComing(t)
      PROVE  EndComing(s \o t)
  <2> DEFINE w == s \o t
             m == Len(s)
             n == Len(t)
  <2>1. /\ w \in Seq(Packets) /\ m \in Nat /\ n \in Nat /\ Len(w) = m + n
        /\ \A i \in 1 .. m : w[i] = s[i]
        /\ \A i \in 1 .. n : w[m + i] = t[i]
    BY Joined
  <2>2. DOMAIN s = 1 .. m /\ DOMAIN t = 1 .. n /\ DOMAIN w = 1 .. m + n
    BY <2>1, LenProperties
  <2> HIDE DEF w, m, n
  <2>3. EndComing(w)
    <3>1. CASE EndComing(s)
      <4>1. PICK i \in 1 .. m : s[i].type = "SnapshotEnd"
        BY <2>2, <3>1 DEF EndComing
      <4>2. i \in 1 .. m + n /\ w[i].type = "SnapshotEnd"
        BY <2>1, <4>1
      <4> QED
        BY <2>2, <4>2 DEF EndComing
    <3>2. CASE EndComing(t)
      <4>1. PICK i \in 1 .. n : t[i].type = "SnapshotEnd"
        BY <2>2, <3>2 DEF EndComing
      <4>2. m + i \in 1 .. m + n /\ w[m + i].type = "SnapshotEnd"
        BY <2>1, <4>1
      <4> QED
        BY <2>2, <4>2 DEF EndComing
    <3> QED
      BY <1>1, <3>1, <3>2
  <2> QED
    BY <2>3 DEF w
<1>2. ASSUME EndComing(<<packet>> \o s), packet.type # "SnapshotEnd"
      PROVE  EndComing(s)
  <2> DEFINE w == <<packet>> \o s
             n == Len(s)
  <2>1. /\ w \in Seq(Packets) /\ n \in Nat /\ Len(w) = n + 1 /\ w[1] = packet
        /\ \A i \in 1 .. n : w[i + 1] = s[i]
    BY Fronted
  <2>2. EndComing(w)
    BY <1>2
  <2>3. DOMAIN s = 1 .. n /\ DOMAIN w = 1 .. n + 1
    BY <2>1, LenProperties
  <2> HIDE DEF w, n
  <2>4. PICK at \in 1 .. n + 1 : w[at].type = "SnapshotEnd"
    BY <2>2, <2>3 DEF EndComing
  <2> DEFINE i == at - 1
  <2>5. at # 1
    BY <1>2, <2>1, <2>4
  <2>6. i \in 1 .. n /\ at = i + 1
    BY <2>1, <2>5
  <2> HIDE DEF i
  <2>7. s[i].type = "SnapshotEnd"
    BY <2>1, <2>4, <2>6
  <2> QED
    BY <2>3, <2>6, <2>7 DEF EndComing
<1> QED
  BY <1>1, <1>2

\* A snapshot brings its own END.
LEMMA SnapshotHasEnd ==
  ASSUME NEW snapshot \in Snapshots
  PROVE  EndComing(SnapshotPackets(snapshot))
<1> DEFINE s == SnapshotPackets(snapshot)
<1>1. /\ s \in Seq(Packets) /\ Len(s) = SnapshotPacketCount
      /\ s[SnapshotPacketCount].type = "SnapshotEnd"
  <2>1. \A buffer : /\ s \in Seq(Packets) /\ Len(s) = SnapshotPacketCount
                    /\ s[SnapshotPacketCount].type = "SnapshotEnd"
    BY FramedSnapshot
  <2> QED
    BY <2>1
<1> HIDE DEF s
<1>2. SnapshotPacketCount \in DOMAIN s
  BY <1>1, Count, LenProperties
<1>3. EndComing(s)
  BY <1>1, <1>2 DEF EndComing
<1> QED
  BY <1>3 DEF s

\* The part of DeliveryInvariant about the stream, and the rest.
StreamOK ==
  /\ Framed(Outbound, host.buffer)
  /\ host.known \/ state \in {"Starting", "Fault"} \/ EndComing(Outbound)

\* DeliveryInvariant in its two parts,
LEMMA DeliveryIs ==
  DeliveryInvariant <=> /\ SafetyInvariant
                        /\ HostNeverRejects
                        /\ LineOK
                        /\ PartOfSnapshot(host.buffer)
                        /\ ~RecoveryDue => StreamOK
BY DEF DeliveryInvariant, LineOK, StreamOK, EndComing

\* and what is to be shown of the next state.
LEMMA DeliveryIsNext ==
  ASSUME SafetyInvariant', HostNeverRejects', LineOK', PartOfSnapshot(host'.buffer),
         ~RecoveryDue' => StreamOK'
  PROVE  DeliveryInvariant'
BY DEF DeliveryInvariant, LineOK, StreamOK, EndComing

\* A snapshot or an increment behind a well framed stream.
LEMMA StreamGrows ==
  ASSUME NEW s \in Seq(Packets), NEW buffer \in Seq(Packets),
         Framed(s, buffer), PartOfSnapshot(buffer)
  PROVE  /\ \A snapshot \in Snapshots :
              /\ Framed(s \o SnapshotPackets(snapshot), buffer)
              /\ EndComing(s \o SnapshotPackets(snapshot))
         /\ \A packet \in Packets : IsIncrement(packet) =>
              /\ Framed(s \o <<packet>>, buffer)
              /\ EndComing(s) => EndComing(s \o <<packet>>)
<1>1. ASSUME NEW snapshot \in Snapshots
      PROVE  /\ Framed(s \o SnapshotPackets(snapshot), buffer)
             /\ EndComing(s \o SnapshotPackets(snapshot))
  <2>1. /\ SnapshotPackets(snapshot) \in Seq(Packets)
        /\ Framed(SnapshotPackets(snapshot), <<>>)
        /\ EndComing(SnapshotPackets(snapshot))
    BY FramedSnapshot, SnapshotHasEnd
  <2>2. EmptyPacket \in Packets
    BY EmptyPacketType
  <2> QED
    BY <2>1, <2>2, FramedJoined, EndStays
<1>2. ASSUME NEW packet \in Packets, IsIncrement(packet)
      PROVE  /\ Framed(s \o <<packet>>, buffer)
             /\ EndComing(s) => EndComing(s \o <<packet>>)
  <2>1. <<packet>> \in Seq(Packets) /\ Framed(<<packet>>, <<>>)
    BY <1>2, FramedIncrement DEF IsIncrement
  <2> QED
    BY <2>1, FramedJoined, EndStays
<1> QED
  BY <1>1, <1>2

\* A step of the firmware.
LEMMA FirmwareDelivers ==
  ASSUME DeliveryInvariant, SafetyInvariant', FirmwareMove, LineOK',
         \/ state \in {"Starting", "Fault"} => state' = state
         \/ \E snapshot \in Snapshots : Recovers(snapshot)
  PROVE  DeliveryInvariant'
<1>1. /\ host' = host /\ HostNeverRejects' /\ PartOfSnapshot(host'.buffer)
      /\ PartOfSnapshot(host.buffer)
      /\ ~RecoveryDue => StreamOK
  BY DeliveryIs DEF FirmwareMove, HostNeverRejects
<1>2. /\ Outbound \in Seq(Packets) /\ Increments \in Seq(Packets)
      /\ \A k \in 1 .. Len(Increments) : IsIncrement(Increments[k])
      /\ host.buffer \in Seq(Packets)
  <2>1. CoreOK /\ TransportOK(transport) /\ PublisherOK(publisher) /\ host \in Hosts
    BY DeliveryParts
  <2> QED
    BY <2>1, OutboundIs, StreamTypes DEF Increments, Hosts
<1>3. CASE RecoveryDue'
  BY <1>1, <1>3, DeliveryIsNext
<1>4. CASE \E snapshot \in Snapshots : Recovers(snapshot)
  <2>1. PICK snapshot \in Snapshots : Outbound' = SnapshotPackets(snapshot)
    BY <1>4 DEF Recovers
  <2>2. Framed(Outbound', host'.buffer) /\ EndComing(Outbound')
    BY <2>1, FramedSnapshot, SnapshotHasEnd
  <2> QED
    BY <1>1, <2>2, DeliveryIsNext DEF StreamOK
<1>5. CASE /\ ~RecoveryDue
           /\ state \in {"Starting", "Fault"} => state' = state
           /\ \/ Outbound' = Outbound
              \/ Passes
              \/ \E snapshot \in Snapshots : Requests(snapshot)
  <2>1. /\ Framed(Outbound, host.buffer)
        /\ host.known \/ state \in {"Starting", "Fault"} \/ EndComing(Outbound)
    BY <1>1, <1>5 DEF StreamOK
  <2>2. CASE Outbound' = Outbound
    BY <1>1, <1>5, <2>1, <2>2, DeliveryIsNext DEF StreamOK
  <2>3. CASE Passes
    <3>1. Head(Increments) \in Packets /\ IsIncrement(Head(Increments))
      <4>1. Head(Increments) \in Packets /\ Head(Increments) = Increments[1]
            /\ 1 \in 1 .. Len(Increments)
        BY <1>2, <2>3, HeadTailProperties, EmptySeq, LenProperties DEF Passes
      <4> QED
        BY <1>2, <4>1
    <3>2. /\ Framed(Outbound', host.buffer)
          /\ EndComing(Outbound) => EndComing(Outbound')
      BY <1>1, <1>2, <2>1, <2>3, <3>1, StreamGrows DEF Passes
    <3> QED
      BY <1>1, <1>5, <2>1, <3>2, DeliveryIsNext DEF StreamOK
  <2>4. CASE \E snapshot \in Snapshots : Requests(snapshot)
    <3>1. Framed(Outbound', host.buffer) /\ EndComing(Outbound')
      BY <1>1, <1>2, <2>1, <2>4, StreamGrows DEF Requests
    <3> QED
      BY <1>1, <3>1, DeliveryIsNext DEF StreamOK
  <2> QED
    BY <1>5, <2>2, <2>3, <2>4
<1>6. \/ RecoveryDue'
      \/ \E snapshot \in Snapshots : Recovers(snapshot)
      \/ /\ ~RecoveryDue
         /\ \/ Outbound' = Outbound
            \/ Passes
            \/ \E snapshot \in Snapshots : Requests(snapshot)
  BY DEF FirmwareMove, Quiet, Queues, Captures
<1> QED
  BY <1>3, <1>4, <1>5, <1>6

\* The host reads.
LEMMA HostDelivers ==
  ASSUME DeliveryInvariant, SafetyInvariant', HostMove, LineOK', UNCHANGED state
  PROVE  DeliveryInvariant'
<1>1. PICK packet \in Packets, s \in Seq(Packets) :
        /\ Outbound = <<packet>> \o s
        /\ \/ /\ host' = HostReceives(host, packet)
              /\ Outbound' = s
           \/ /\ RecoveryDue'
              /\ \E reading \in {packet} \cup Readings(packet) :
                   host' = HostReceives(host, reading)
  BY DEF HostMove
<1>2. /\ ~host.malformed /\ PartOfSnapshot(host.buffer) /\ host \in Hosts
      /\ Framed(<<packet>> \o s, host.buffer)
      /\ host.known \/ state \in {"Starting", "Fault"} \/ EndComing(<<packet>> \o s)
  BY <1>1, DeliveryIs, DeliveryParts DEF HostMove, HostNeverRejects, StreamOK
<1>3. ASSUME NEW reading \in {packet} \cup Readings(packet),
             host' = HostReceives(host, reading)
      PROVE  /\ HostNeverRejects' /\ PartOfSnapshot(host'.buffer)
             /\ host.known => host'.known
             /\ packet.type = "SnapshotEnd" => host'.known
  <2>1. reading \in Packets /\ reading.type = packet.type
    BY ReadingKeepsKind
  <2>2. \/ BeginsBuffer(host, reading, host')
        \/ GrowsBuffer(host, reading, host')
        \/ CommitsBuffer(host, reading, host')
        \/ TakesEncoder(host, reading, host')
        \/ TakesButtons(host, reading, host')
    BY <1>2, <1>3, HostMoves
  <2> QED
    BY <1>2, <2>1, <2>2, HostMoveOK DEF HostNeverRejects
<1>4. CASE RecoveryDue' /\ \E reading \in {packet} \cup Readings(packet) :
                             host' = HostReceives(host, reading)
  BY <1>3, <1>4, DeliveryIsNext
<1>5. CASE host' = HostReceives(host, packet) /\ Outbound' = s
  <2>1. Framed(s, host'.buffer)
    BY <1>2, <1>5, FramedRead
  <2>2. /\ HostNeverRejects' /\ PartOfSnapshot(host'.buffer)
        /\ host.known => host'.known
        /\ packet.type = "SnapshotEnd" => host'.known
    BY <1>3, <1>5
  <2>3. EndComing(<<packet>> \o s) => packet.type = "SnapshotEnd" \/ EndComing(s)
    BY EndStays
  <2>4. StreamOK'
    BY <1>2, <1>5, <2>1, <2>2, <2>3 DEF StreamOK
  <2> QED
    BY <2>2, <2>4, DeliveryIsNext
<1> QED
  BY <1>1, <1>4, <1>5

\* begin() alone leaves Starting, and nothing leaves Fault.
LEMMA StartupKept ==
  ASSUME SafetyInvariant, Next, ~Begin, state \in {"Starting", "Fault"}
  PROVE  state' = state
<1>1. CASE state = "Starting"
  <2>1. stage = "setup"
    BY <1>1 DEF SafetyInvariant
  <2> QED
    BY <2>1 DEF Next, FirmwareStep, TransportService, RecoverIntegrity, HandleIgnored,
                HandleRequestSnapshot, HandleResetControl, HandleResetAll, HandleResync,
                Handles, Scan, PublishEncoderChange, PublishButtonChange,
                PublishAndTransfer, HostFrame
<1>2. CASE state = "Fault"
  BY <1>2, FaultKept
<1> QED
  BY <1>1, <1>2

\* Every step behind begin() is a move of the stream.
LEMMA FirmwareMoves ==
  ASSUME DeliveryInvariant, SafetyInvariant', FirmwareStep, ~Begin
  PROVE  FirmwareMove /\ LineOK'
BY TransportServiceMove, RecoverIntegrityMove, HandleIgnoredMove, SnapshotCommandsMove,
   HandleResetControlMove, HandleResyncMove, ScanMove, PublishEncoderChangeMove,
   PublishButtonChangeMove, PublishAndTransferMove DEF FirmwareStep

\* At power-up nothing is on its way.
LEMMA InitDelivers == Init => DeliveryInvariant
<1> SUFFICES ASSUME Init PROVE DeliveryInvariant
  OBVIOUS
<1>1. SafetyInvariant
  BY InitInvariant
<1>2. /\ transport = EmptyTransport /\ publisher = EmptyPublisher
      /\ host = EmptyHost /\ changes = NoChanges /\ state = "Starting"
  BY DEF Init
<1>3. HostNeverRejects /\ LineOK /\ host.buffer = <<>>
  BY <1>2 DEF HostNeverRejects, LineOK, EmptyHost, EmptyTransport
<1>4. Outbound = <<>>
  <2>1. CoreOK
    BY <1>1, InvariantParts
  <2>2. Outbound = <<>> \o <<>> /\ <<>> \o <<>> = <<>>
    BY <1>2, <2>1, OutboundIs, NothingSent, ConcatEmptySeq, EmptyPacketType
  <2> QED
    BY <2>2
<1>5. PartOfSnapshot(host.buffer) /\ StreamOK
  BY <1>2, <1>3, <1>4, FramedNothing DEF StreamOK
<1> QED
  BY <1>1, <1>3, <1>5, DeliveryIs

\* Every step of the system keeps the stream well framed.
LEMMA NextDelivers ==
  ASSUME DeliveryInvariant, SafetyInvariant', [Next]_vars
  PROVE  DeliveryInvariant'
<1>1. SafetyInvariant
  BY DeliveryParts
<1>2. CASE Begin
  <2>1. /\ LineOK'
        /\ \/ FirmwareMove /\ \E snapshot \in Snapshots : Recovers(snapshot)
           \/ state' = "Fault" /\ Outbound' = <<>> /\ host' = EmptyHost
    <3>1. \A snapshot : Captures(snapshot, encoderValues', buttons') => snapshot \in Snapshots
      BY DEF Captures
    <3> QED
      BY <1>2, <3>1, BeginMove
  <2>2. CASE state' = "Fault" /\ Outbound' = <<>> /\ host' = EmptyHost
    <3>1. HostNeverRejects' /\ host'.buffer = <<>>
      BY <2>2 DEF HostNeverRejects, EmptyHost
    <3> QED
      BY <2>1, <2>2, <3>1, FramedNothing, DeliveryIsNext DEF StreamOK
  <2> QED
    BY <2>1, <2>2, FirmwareDelivers
<1>3. CASE FirmwareStep /\ ~Begin
  <2>1. FirmwareMove /\ LineOK'
    BY <1>3, FirmwareMoves
  <2>2. state \in {"Starting", "Fault"} => state' = state
    BY <1>1, <1>3, StartupKept DEF Next
  <2> QED
    BY <2>1, <2>2, FirmwareDelivers
<1>4. CASE \E command \in Commands, fed \in BOOLEAN : HostFrame(command, fed)
  <2>1. (FirmwareMove \/ HostMove) /\ LineOK'
    BY <1>4, HostFrameMove
  <2>2. UNCHANGED state
    BY <1>4 DEF HostFrame
  <2> QED
    BY <2>1, <2>2, FirmwareDelivers, HostDelivers
<1>5. CASE UNCHANGED vars
  BY <1>5 DEF vars, DeliveryInvariant, HostNeverRejects, RecoveryDue, Outbound
<1> QED
  BY <1>2, <1>3, <1>4, <1>5 DEF Next, FirmwareStep

\* The invariant about the stream holds in every reachable state.
THEOREM StreamIsFramed == Spec => []DeliveryInvariant
<1>1. DeliveryInvariant /\ [Next]_vars /\ SafetyInvariant' => DeliveryInvariant'
  BY NextDelivers
<1> QED
  BY <1>1, InitDelivers, SafetyInvariantHolds, PTL DEF Spec

\* The host's parser never meets a packet its rules reject: no snapshot
\* overlaps another, is interleaved with increments, or ends with a foreign
\* sequence byte, recoveries and starved frames included.
THEOREM HostAcceptsEverything == Spec => []HostNeverRejects
<1>1. DeliveryInvariant => HostNeverRejects
  BY DEF DeliveryInvariant
<1> QED
  BY <1>1, StreamIsFramed, PTL

-----------------------------------------------------------------------------
(* The newest statement of a sequence *)

\* What packets can be about: a control's count or the button picture.
Topic(type, index) ==
  \/ type = "EncoderState" /\ index \in Controls
  \/ type = "ButtonState" /\ index = ControlCount

About(packet, type, index) == packet.type = type /\ packet.index = index

\* The last packet about something, counted from the front.
LastAbout(s, type, index, k) ==
  /\ k \in 1 .. Len(s)
  /\ About(s[k], type, index)
  /\ \A j \in 1 .. Len(s) : About(s[j], type, index) => j <= k

\* Newest reads the last packet about its topic.
LEMMA NewestLast ==
  ASSUME NEW s \in Seq(Packets), NEW type, NEW index, NEW k, LastAbout(s, type, index, k),
         NEW held
  PROVE  Newest(s, type, index, held) = s[k].data
<1> DEFINE about == {j \in DOMAIN s : s[j].type = type /\ s[j].index = index}
           last == CHOOSE m \in about : \A j \in about : j <= m
<1>1. DOMAIN s = 1 .. Len(s) /\ Len(s) \in Nat
  BY LenProperties
<1>2. k \in about /\ \A j \in about : j <= k
  BY <1>1 DEF LastAbout, About
<1>3. last \in about /\ \A j \in about : j <= last
  BY <1>2
<1>4. about \subseteq Int
  BY <1>1
<1>5. about # {} /\ last = k
  <2> HIDE DEF about, last
  <2> QED
    BY <1>2, <1>3, <1>4
<1>6. Newest(s, type, index, held) = IF about = {} THEN held ELSE s[last].data
  BY Zenon DEF Newest
<1> QED
  BY <1>5, <1>6

\* Without such a packet it returns what is held.
LEMMA NewestNone ==
  ASSUME NEW s \in Seq(Packets), NEW type, NEW index,
         \A j \in 1 .. Len(s) : ~About(s[j], type, index),
         NEW held
  PROVE  Newest(s, type, index, held) = held
<1>1. DOMAIN s = 1 .. Len(s)
  BY LenProperties
<1>2. {j \in DOMAIN s : s[j].type = type /\ s[j].index = index} = {}
  BY <1>1 DEF About
<1> QED
  BY <1>2 DEF Newest

\* There is a last packet about anything the sequence speaks of.
LEMMA LastExists ==
  ASSUME NEW s \in Seq(Packets), NEW type, NEW index,
         NEW i \in 1 .. Len(s), About(s[i], type, index)
  PROVE  \E k : LastAbout(s, type, index, k)
<1> DEFINE about == {j \in 1 .. Len(s) : About(s[j], type, index)}
<1>1. Len(s) \in Nat
  BY LenProperties
<1>2. about \subseteq 1 .. Len(s) /\ about # {}
  OBVIOUS
<1>3. PICK k \in about : \A j \in about : j <= k
  <2> HIDE DEF about
  <2> QED
    BY <1>1, <1>2, Greatest
<1> QED
  BY <1>3 DEF LastAbout

\* A sequence that speaks of a topic makes what is held irrelevant.
LEMMA NewestSpoken ==
  ASSUME NEW s \in Seq(Packets), NEW type, NEW index,
         NEW i \in 1 .. Len(s), About(s[i], type, index), NEW one, NEW other
  PROVE  Newest(s, type, index, one) = Newest(s, type, index, other)
<1>1. PICK k : LastAbout(s, type, index, k)
  BY LastExists
<1> QED
  BY <1>1, NewestLast

\* What two joined sequences say is what the second says behind the first.
LEMMA NewestJoined ==
  ASSUME NEW s \in Seq(Packets), NEW t \in Seq(Packets), NEW type, NEW index, NEW held
  PROVE  Newest(s \o t, type, index, held)
           = Newest(t, type, index, Newest(s, type, index, held))
<1> DEFINE w == s \o t
           m == Len(s)
           n == Len(t)
<1>1. /\ w \in Seq(Packets) /\ m \in Nat /\ n \in Nat /\ Len(w) = m + n
      /\ \A i \in 1 .. m : w[i] = s[i]
      /\ \A i \in 1 .. n : w[m + i] = t[i]
  BY Joined
<1> SUFFICES Newest(w, type, index, held)
               = Newest(t, type, index, Newest(s, type, index, held))
  OBVIOUS
<1> HIDE DEF w
<1>2. ASSUME NEW j \in 1 .. m + n, ~(j \in 1 .. m)
      PROVE  \E i \in 1 .. n : j = m + i
  <2>1. j - m \in 1 .. n /\ j = m + (j - m)
    BY <1>1, <1>2
  <2> QED
    BY <2>1
<1>3. CASE \E i \in 1 .. n : About(t[i], type, index)
  <2>1. PICK k : LastAbout(t, type, index, k)
    BY <1>3, LastExists
  <2>2. LastAbout(w, type, index, m + k)
    <3>1. /\ k \in 1 .. n /\ About(t[k], type, index)
          /\ \A j \in 1 .. n : About(t[j], type, index) => j <= k
      BY <2>1 DEF LastAbout
    <3>2. m + k \in 1 .. m + n /\ About(w[m + k], type, index)
      BY <1>1, <3>1
    <3>3. ASSUME NEW j \in 1 .. m + n, About(w[j], type, index)
          PROVE  j <= m + k
      <4>1. CASE j \in 1 .. m
        BY <1>1, <3>1, <4>1
      <4>2. CASE ~(j \in 1 .. m)
        <5>1. PICK i \in 1 .. n : j = m + i
          BY <1>2, <4>2
        <5>2. i <= k
          BY <1>1, <3>1, <3>3, <5>1
        <5> QED
          BY <1>1, <3>1, <5>1, <5>2
      <4> QED
        BY <4>1, <4>2
    <3> QED
      BY <1>1, <3>2, <3>3 DEF LastAbout
  <2>3. w[m + k] = t[k]
    BY <1>1, <2>1 DEF LastAbout
  <2> QED
    BY <1>1, <2>1, <2>2, <2>3, NewestLast
<1>4. CASE \A i \in 1 .. n : ~About(t[i], type, index)
  <2>1. Newest(t, type, index, Newest(s, type, index, held)) = Newest(s, type, index, held)
    BY <1>4, NewestNone
  <2>2. CASE \E i \in 1 .. m : About(s[i], type, index)
    <3>1. PICK k : LastAbout(s, type, index, k)
      BY <2>2, LastExists
    <3>2. /\ k \in 1 .. m /\ About(s[k], type, index)
          /\ \A j \in 1 .. m : About(s[j], type, index) => j <= k
      BY <3>1 DEF LastAbout
    <3>3. k \in 1 .. m + n /\ About(w[k], type, index) /\ w[k] = s[k]
      BY <1>1, <3>2
    <3>4. ASSUME NEW j \in 1 .. m + n, About(w[j], type, index)
          PROVE  j <= k
      <4>1. CASE j \in 1 .. m
        BY <1>1, <3>2, <3>4, <4>1
      <4>2. CASE ~(j \in 1 .. m)
        BY <1>1, <1>2, <1>4, <3>4, <4>2
      <4> QED
        BY <4>1, <4>2
    <3>5. LastAbout(w, type, index, k)
      BY <1>1, <3>3, <3>4 DEF LastAbout
    <3> QED
      BY <1>1, <2>1, <3>1, <3>3, <3>5, NewestLast
  <2>3. CASE \A i \in 1 .. m : ~About(s[i], type, index)
    <3>1. ASSUME NEW j \in 1 .. m + n
          PROVE  ~About(w[j], type, index)
      <4>1. CASE j \in 1 .. m
        BY <1>1, <2>3, <4>1
      <4>2. CASE ~(j \in 1 .. m)
        BY <1>1, <1>2, <1>4, <4>2
      <4> QED
        BY <4>1, <4>2
    <3>2. \A j \in 1 .. Len(w) : ~About(w[j], type, index)
      BY <1>1, <3>1
    <3> QED
      BY <1>1, <2>1, <2>3, <3>2, NewestNone
  <2> QED
    BY <2>2, <2>3
<1> QED
  BY <1>3, <1>4

\* No packet at all.
LEMMA NewestOfNothing ==
  ASSUME NEW type, NEW index, NEW held
  PROVE  Newest(<<>>, type, index, held) = held
<1>1. ASSUME NEW none \in Seq(Packets), Len(none) = 0
      PROVE  Newest(none, type, index, held) = held
  <2>1. \A j \in 1 .. Len(none) : ~About(none[j], type, index)
    BY <1>1
  <2> QED
    BY <2>1, NewestNone
<1>2. <<>> \in Seq(Packets) /\ Len(<<>>) = 0
  OBVIOUS
<1> QED
  BY <1>1, <1>2, Zenon

\* One packet, and none.
LEMMA NewestOfOne ==
  ASSUME NEW packet \in Packets, NEW type, NEW index, NEW held
  PROVE  /\ Newest(<<packet>>, type, index, held)
              = IF About(packet, type, index) THEN packet.data ELSE held
         /\ Newest(<<>>, type, index, held) = held
<1>2. ASSUME NEW one \in Seq(Packets), Len(one) = 1, one[1] = packet
      PROVE  Newest(one, type, index, held)
               = IF About(packet, type, index) THEN packet.data ELSE held
  <2>1. CASE About(packet, type, index)
    <3>1. LastAbout(one, type, index, 1)
      BY <1>2, <2>1 DEF LastAbout
    <3> QED
      BY <1>2, <2>1, <3>1, NewestLast
  <2>2. CASE ~About(packet, type, index)
    <3>1. \A j \in 1 .. Len(one) : ~About(one[j], type, index)
      BY <1>2, <2>2
    <3> QED
      BY <2>2, <3>1, NewestNone
  <2> QED
    BY <2>1, <2>2
<1>3. /\ <<packet>> \in Seq(Packets) /\ Len(<<packet>>) = 1 /\ <<packet>>[1] = packet
  OBVIOUS
<1> QED
  BY <1>2, <1>3, NewestOfNothing, Zenon

-----------------------------------------------------------------------------
(* What the host will have read when everything on its way has arrived *)

Held(h, type, index) == IF type = "EncoderState" THEN h.encoders[index] ELSE h.buttons

Value(type, index, values, picture) ==
  IF type = "EncoderState" THEN ClampSigned24(values[index]) ELSE picture

\* Nothing the scan found about it is still to be queued.
Settled(type, index) ==
  IF type = "EncoderState" THEN index \notin changes.encoders ELSE ~changes.buttons

Seen(type, index) ==
  Newest(Increments, type, index,
    Newest(Outbound, type, index,
      Newest(host.buffer, type, index, Held(host, type, index))))

Working == stage # "setup" /\ state # "Fault" /\ ~RecoveryDue

\* NewestStatementIsCurrent, one topic at a time.
ViewIsCurrent ==
  Working =>
    \A type \in {"EncoderState", "ButtonState"}, index \in 0 .. ControlCount :
      Topic(type, index) /\ Settled(type, index)
        => Seen(type, index) = Value(type, index, encoderValues, buttons)

\* The host never sends RESET_ALL.  Increments queued before that command stay
\* queued behind its snapshot, see app_reset_all.cfg.
NoResetAll == \A command \in Commands : command.type # "ResetAll"

\* Read in one piece, the stream from the buffer to the youngest event says what
\* its three parts say one behind the other.
LEMMA ViewIs == DeliveryInvariant /\ ViewIsCurrent => NewestStatementIsCurrent
<1> SUFFICES ASSUME DeliveryInvariant, ViewIsCurrent, Working
             PROVE  /\ \A c \in Controls \ changes.encoders :
                         Newest(InFlight, "EncoderState", c, host.encoders[c])
                           = ClampSigned24(encoderValues[c])
                    /\ ~changes.buttons =>
                         Newest(InFlight, "ButtonState", ControlCount, host.buttons) = buttons
  BY DEF NewestStatementIsCurrent, Working
<1>1. /\ host.buffer \in Seq(Packets) /\ Outbound \in Seq(Packets)
      /\ Increments \in Seq(Packets)
  BY DeliveryParts, OutboundIs, StreamTypes DEF Hosts, Increments
<1>2. ASSUME NEW type, NEW index
      PROVE  Newest(InFlight, type, index, Held(host, type, index)) = Seen(type, index)
  <2>1. host.buffer \o Outbound \in Seq(Packets)
    BY <1>1, Joined
  <2>2. InFlight = (host.buffer \o Outbound) \o Increments
    BY DEF InFlight, Increments
  <2> DEFINE held == Held(host, type, index)
             front == host.buffer \o Outbound
  <2>3. Newest(front, type, index, held)
          = Newest(Outbound, type, index, Newest(host.buffer, type, index, held))
    BY <1>1, NewestJoined
  <2>4. ASSUME NEW a \in Seq(Packets)
        PROVE  Newest(a \o Increments, type, index, held)
                 = Newest(Increments, type, index, Newest(a, type, index, held))
    BY <1>1, NewestJoined
  <2> HIDE DEF held, front
  <2>5. Newest(front \o Increments, type, index, held)
          = Newest(Increments, type, index, Newest(front, type, index, held))
    BY <2>1, <2>4 DEF front
  <2>6. InFlight = front \o Increments
    BY <2>2 DEF front
  <2> QED
    BY <2>3, <2>5, <2>6, Zenon DEF Seen, held
<1>3. ASSUME NEW c \in Controls \ changes.encoders
      PROVE  Newest(InFlight, "EncoderState", c, host.encoders[c])
               = ClampSigned24(encoderValues[c])
  <2>1. c \in 0 .. ControlCount /\ Topic("EncoderState", c) /\ Settled("EncoderState", c)
    BY Count DEF Controls, Topic, Settled
  <2>2. Seen("EncoderState", c) = ClampSigned24(encoderValues[c])
    BY <2>1 DEF ViewIsCurrent, Value
  <2>3. Held(host, "EncoderState", c) = host.encoders[c]
    BY DEF Held
  <2> QED
    BY <1>2, <2>2, <2>3
<1>4. ASSUME ~changes.buttons
      PROVE  Newest(InFlight, "ButtonState", ControlCount, host.buttons) = buttons
  <2>1. /\ ControlCount \in 0 .. ControlCount
        /\ Topic("ButtonState", ControlCount) /\ Settled("ButtonState", ControlCount)
    BY <1>4, Count DEF Topic, Settled
  <2>2. Seen("ButtonState", ControlCount) = buttons
    BY <2>1 DEF ViewIsCurrent, Value
  <2>3. Held(host, "ButtonState", ControlCount) = host.buttons
    BY DEF Held
  <2> QED
    BY <1>2, <2>2, <2>3
<1> QED
  BY <1>3, <1>4

\* In a snapshot each topic has one place.
LEMMA PlaceOfTopic ==
  ASSUME NEW type, NEW index, Topic(type, index), NEW packet, NEW sequence,
         NEW k \in 1 .. SnapshotPacketCount, InPlace(packet, k, sequence)
  PROVE  /\ index + 2 \in 1 .. SnapshotPacketCount - 1
         /\ About(packet, type, index) <=> k = index + 2
<1>1. CASE type = "EncoderState" /\ index \in Controls
  BY <1>1, Count DEF InPlace, About, Controls
<1>2. CASE type = "ButtonState" /\ index = ControlCount
  BY <1>2, Count DEF InPlace, About
<1> QED
  BY <1>1, <1>2 DEF Topic

\* A sequence that has the packets of a snapshot says what stands in that place.
LEMMA PlacesSay ==
  ASSUME NEW s \in Seq(Packets), NEW sequence, NEW type, NEW index, Topic(type, index),
         Len(s) \in {SnapshotPacketCount - 1, SnapshotPacketCount},
         \A k \in 1 .. Len(s) : InPlace(s[k], k, sequence),
         NEW held
  PROVE  /\ index + 2 \in 1 .. Len(s)
         /\ Newest(s, type, index, held) = s[index + 2].data
<1>1. Len(s) \in Nat /\ 1 \in 1 .. Len(s) /\ 1 .. Len(s) \subseteq 1 .. SnapshotPacketCount
  BY Count
<1>2. \A k \in 1 .. Len(s) : About(s[k], type, index) <=> k = index + 2
  BY <1>1, PlaceOfTopic
<1>3. index + 2 \in 1 .. Len(s)
  <2>1. index + 2 \in 1 .. SnapshotPacketCount - 1
    BY <1>1, PlaceOfTopic
  <2> QED
    BY <2>1, Count
<1>4. LastAbout(s, type, index, index + 2)
  BY <1>1, <1>2, <1>3 DEF LastAbout
<1> QED
  BY <1>3, <1>4, NewestLast

\* A snapshot says what was captured, whatever was held before.
LEMMA SnapshotSays ==
  ASSUME NEW snapshot, NEW values, NEW picture, Captures(snapshot, values, picture),
         NEW type, NEW index, Topic(type, index), NEW held
  PROVE  Newest(SnapshotPackets(snapshot), type, index, held)
           = Value(type, index, values, picture)
<1> DEFINE s == SnapshotPackets(snapshot)
<1>1. /\ snapshot \in Snapshots
      /\ snapshot.encoderValues = values /\ snapshot.buttons = picture
  BY DEF Captures
<1>2. /\ \A c \in Controls : s[c + 2] = MakeEncoderState(c, values[c])
      /\ s[ControlCount + 2] = MakeButtonState(picture)
  BY <1>1, SnapshotPacketsAre
<1>3. /\ s \in Seq(Packets) /\ Len(s) = SnapshotPacketCount
      /\ \A k \in 1 .. SnapshotPacketCount : InPlace(s[k], k, snapshot.sequence)
  <2>1. \A buffer : /\ s \in Seq(Packets) /\ Len(s) = SnapshotPacketCount
                    /\ \A k \in 1 .. SnapshotPacketCount : InPlace(s[k], k, snapshot.sequence)
    BY <1>1, FramedSnapshot
  <2> QED
    BY <2>1
<1> HIDE DEF s
<1>4. Newest(s, type, index, held) = s[index + 2].data
  BY <1>3, PlacesSay
<1>5. s[index + 2].data = Value(type, index, values, picture)
  <2>1. CASE type = "EncoderState" /\ index \in Controls
    <3>1. s[index + 2] = MakeEncoderState(index, values[index])
      BY <1>2, <2>1
    <3>2. s[index + 2].data = ClampSigned24(values[index])
      BY <3>1 DEF MakeEncoderState
    <3> QED
      BY <2>1, <3>2 DEF Value
  <2>2. CASE type = "ButtonState" /\ index = ControlCount
    BY <1>2, <2>2 DEF Value, MakeButtonState
  <2> QED
    BY <2>1, <2>2 DEF Topic
<1>6. Newest(s, type, index, held) = Value(type, index, values, picture)
  BY <1>4, <1>5
<1> QED
  BY <1>6 DEF s

\* A BEGIN at the front of a well framed stream has every topic behind it.
LEMMA BeginSpeaks ==
  ASSUME NEW packet \in Packets, NEW s \in Seq(Packets), NEW buffer,
         Framed(<<packet>> \o s, buffer), packet.type = "SnapshotBegin",
         NEW type, NEW index, Topic(type, index), NEW one, NEW other
  PROVE  Newest(<<packet>> \o s, type, index, one) = Newest(<<packet>> \o s, type, index, other)
<1> DEFINE w == <<packet>> \o s
<1>1. /\ w \in Seq(Packets) /\ Len(w) = Len(s) + 1 /\ Len(s) \in Nat /\ w[1] = packet
      /\ Framed(w, buffer)
  BY Fronted
<1> HIDE DEF w
<1>2. 1 \in DOMAIN w
  BY <1>1, LenProperties
<1>3. SnapshotFrom(w, 1, 1, packet.data)
  BY <1>1, <1>2 DEF Framed
<1>4. index + 2 \in 1 .. SnapshotPacketCount /\ index + 2 \in Int
      /\ index + 2 = 1 + ((index + 2) - 1)
  BY Count DEF Topic, Controls
<1>5. index + 2 <= Len(w) /\ InPlace(w[index + 2], index + 2, packet.data)
  BY <1>3, <1>4, SnapshotAt
<1>6. About(w[index + 2], type, index)
  BY <1>4, <1>5, PlaceOfTopic
<1>7. index + 2 \in 1 .. Len(w)
  BY <1>1, <1>4, <1>5
<1>8. Newest(w, type, index, one) = Newest(w, type, index, other)
  BY <1>1, <1>6, <1>7, NewestSpoken
<1> QED
  BY <1>8 DEF w

\* Reading the first packet does not change what the host will have seen in
\* the end: what the packet said now stands in the buffer or in the host's view.
LEMMA ReadKeepsView ==
  ASSUME NEW h \in Hosts, NEW packet \in Packets, NEW s \in Seq(Packets),
         PartOfSnapshot(h.buffer), Framed(<<packet>> \o s, h.buffer),
         NEW g, g = HostReceives(h, packet),
         NEW type, NEW index, Topic(type, index)
  PROVE  Newest(s, type, index, Newest(g.buffer, type, index, Held(g, type, index)))
           = Newest(<<packet>> \o s, type, index,
               Newest(h.buffer, type, index, Held(h, type, index)))
<1> DEFINE held == Held(h, type, index)
           after == Newest(g.buffer, type, index, Held(g, type, index))
           before == Newest(h.buffer, type, index, held)
           N(x, y) == Newest(x, type, index, y)
<1>1. /\ h.buffer \in Seq(Packets) /\ Len(h.buffer) \in Nat
      /\ h.encoders \in [Controls -> Int]
      /\ <<packet>> \in Seq(Packets)
  BY LenProperties DEF Hosts
<1>2. \A y : N(<<packet>> \o s, y) = N(s, N(<<packet>>, y))
  <2>1. \A one \in Seq(Packets) : \A y : N(one \o s, y) = N(s, N(one, y))
    BY NewestJoined
  <2> QED
    BY <1>1, <2>1, Zenon
<1>3. \A y : /\ N(<<packet>>, y) = IF About(packet, type, index) THEN packet.data ELSE y
             /\ N(<<>>, y) = y
  BY NewestOfOne
<1>4. type \in {"EncoderState", "ButtonState"}
  BY DEF Topic
<1>5. \/ BeginsBuffer(h, packet, g)
      \/ GrowsBuffer(h, packet, g)
      \/ CommitsBuffer(h, packet, g)
      \/ TakesEncoder(h, packet, g)
      \/ TakesButtons(h, packet, g)
  BY HostMoves
<1>6. CASE BeginsBuffer(h, packet, g)
  <2>1. /\ packet.type = "SnapshotBegin" /\ g.buffer = <<packet>>
        /\ g.encoders = h.encoders /\ g.buttons = h.buttons
    BY <1>6 DEF BeginsBuffer, Hosts
  <2>2. Held(g, type, index) = held
    BY <2>1 DEF Held
  <2>3. after = N(<<packet>>, held)
    BY <2>1, <2>2
  <2>4. N(s, after) = N(<<packet>> \o s, held)
    BY <1>2, <2>3
  <2>5. N(<<packet>> \o s, held) = N(<<packet>> \o s, before)
    BY <2>1, BeginSpeaks
  <2> QED
    BY <2>4, <2>5
<1>7. CASE GrowsBuffer(h, packet, g)
  <2>1. /\ g.buffer = Append(h.buffer, packet)
        /\ g.encoders = h.encoders /\ g.buttons = h.buttons
    BY <1>7 DEF GrowsBuffer, Hosts
  <2>2. Held(g, type, index) = held
    BY <2>1 DEF Held
  <2>3. g.buffer = h.buffer \o <<packet>>
    BY <1>1, <2>1, AppendIsConcat
  <2>4. N(h.buffer \o <<packet>>, held) = N(<<packet>>, before)
    <3>1. \A one \in Seq(Packets) : N(h.buffer \o one, held) = N(one, before)
      BY <1>1, NewestJoined
    <3> QED
      BY <1>1, <3>1, Zenon
  <2>5. after = N(<<packet>>, before)
    BY <2>2, <2>3, <2>4
  <2> QED
    BY <1>2, <2>5
<1>8. CASE CommitsBuffer(h, packet, g)
  <2>1. /\ packet.type = "SnapshotEnd" /\ Len(h.buffer) + 1 = SnapshotPacketCount
        /\ g.buffer = <<>>
        /\ g.encoders = [c \in Controls |-> h.buffer[c + 2].data]
        /\ g.buttons = h.buffer[ControlCount + 2].data
    BY <1>8 DEF CommitsBuffer, Hosts
  <2>2. /\ Len(h.buffer) \in {SnapshotPacketCount - 1, SnapshotPacketCount}
        /\ \A k \in 1 .. Len(h.buffer) : InPlace(h.buffer[k], k, h.buffer[1].data)
    BY <1>1, <2>1, Count, LenProperties DEF PartOfSnapshot
  <2>3. before = h.buffer[index + 2].data
    <3> DEFINE b        == h.buffer
               sequence == b[1].data
    <3>1. /\ b \in Seq(Packets) /\ Len(b) \in {SnapshotPacketCount - 1, SnapshotPacketCount}
          /\ \A k \in 1 .. Len(b) : InPlace(b[k], k, sequence)
      BY <1>1, <2>2
    <3> HIDE DEF b, sequence
    <3>2. Newest(b, type, index, held) = b[index + 2].data
      BY <3>1, PlacesSay, Zenon
    <3> QED
      BY <3>2 DEF b
  <2>4. Held(g, type, index) = h.buffer[index + 2].data
    <3>1. CASE type = "EncoderState" /\ index \in Controls
      BY <2>1, <3>1 DEF Held
    <3>2. CASE type = "ButtonState" /\ index = ControlCount
      BY <2>1, <3>2 DEF Held
    <3> QED
      BY <3>1, <3>2 DEF Topic
  <2>5. after = before
    BY <1>3, <2>1, <2>3, <2>4
  <2>6. N(<<packet>>, before) = before
    BY <1>3, <1>4, <2>1 DEF About
  <2> QED
    BY <1>2, <2>5, <2>6
<1>9. CASE TakesEncoder(h, packet, g)
  <2>1. /\ packet.type = "EncoderState" /\ packet.index \in Controls
        /\ h.buffer = <<>> /\ g.buffer = <<>>
        /\ g.encoders = [h.encoders EXCEPT ![packet.index] = packet.data]
        /\ g.buttons = h.buttons
    BY <1>9 DEF TakesEncoder, Hosts
  <2>2. Held(g, type, index) = IF About(packet, type, index) THEN packet.data ELSE held
    <3>1. CASE type = "EncoderState" /\ index \in Controls
      <4>1. g.encoders[index] = IF packet.index = index THEN packet.data ELSE h.encoders[index]
        BY <1>1, <2>1, <3>1
      <4> QED
        BY <2>1, <3>1, <4>1 DEF Held, About
    <3>2. CASE type = "ButtonState" /\ index = ControlCount
      BY <2>1, <3>2 DEF Held, About
    <3> QED
      BY <3>1, <3>2 DEF Topic
  <2>3. after = N(<<packet>>, before)
    BY <1>3, <2>1, <2>2
  <2> QED
    BY <1>2, <2>3
<1>10. CASE TakesButtons(h, packet, g)
  <2>1. /\ packet.type = "ButtonState" /\ packet.index = ControlCount
        /\ h.buffer = <<>> /\ g.buffer = <<>>
        /\ g.encoders = h.encoders /\ g.buttons = packet.data
    BY <1>10 DEF TakesButtons, Hosts
  <2>2. Held(g, type, index) = IF About(packet, type, index) THEN packet.data ELSE held
    BY <2>1 DEF Held, About, Topic
  <2>3. after = N(<<packet>>, before)
    BY <1>3, <2>1, <2>2
  <2> QED
    BY <1>2, <2>3
<1> QED
  BY <1>5, <1>6, <1>7, <1>8, <1>9, <1>10

\* What a settled topic was before a step that has nothing new to say about it.
LEMMA KeptTopic ==
  ASSUME NEW type, NEW index, Topic(type, index), Settled(type, index)'
  PROVE  /\ Keeps =>
              /\ Settled(type, index)
              /\ Value(type, index, encoderValues', buttons')
                   = Value(type, index, encoderValues, buttons)
         /\ \A packet \in Packets : Announces(packet) =>
              \/ /\ About(packet, type, index)
                 /\ packet.data = Value(type, index, encoderValues', buttons')
              \/ /\ ~About(packet, type, index)
                 /\ Settled(type, index)
                 /\ Value(type, index, encoderValues', buttons')
                      = Value(type, index, encoderValues, buttons)
<1>1. CASE type = "EncoderState" /\ index \in Controls
  <2>1. index \in Controls \ changes'.encoders
    BY <1>1 DEF Settled
  <2>2. KeptControl(index) =>
          /\ Settled(type, index)
          /\ Value(type, index, encoderValues', buttons')
               = Value(type, index, encoderValues, buttons)
    BY <1>1 DEF KeptControl, Settled, Value
  <2>3. Value(type, index, encoderValues', buttons') = ClampSigned24(encoderValues'[index])
    BY <1>1 DEF Value
  <2> QED
    BY <1>1, <2>1, <2>2, <2>3 DEF Keeps, Announces, About
<1>2. CASE type = "ButtonState" /\ index = ControlCount
  <2>1. ~changes'.buttons
    BY <1>2 DEF Settled
  <2>2. KeptButtons =>
          /\ Settled(type, index)
          /\ Value(type, index, encoderValues', buttons')
               = Value(type, index, encoderValues, buttons)
    BY <1>2 DEF KeptButtons, Settled, Value
  <2>3. Value(type, index, encoderValues', buttons') = buttons'
    BY <1>2 DEF Value
  <2> QED
    BY <1>2, <2>1, <2>2, <2>3 DEF Keeps, Announces, About
<1> QED
  BY <1>1, <1>2 DEF Topic

\* A step of the firmware keeps the view current, in the absence of a RESET_ALL
\* that would leave older increments behind its snapshot.
LEMMA FirmwareKeepsView ==
  ASSUME DeliveryInvariant, ViewIsCurrent, FirmwareMove,
         transport.rxPacket.type # "ResetAll",
         state = "Fault" => state' = "Fault",
         \/ stage # "setup"
         \/ \E snapshot : Captures(snapshot, encoderValues', buttons') /\ Recovers(snapshot)
  PROVE  ViewIsCurrent'
<1> SUFFICES ASSUME Working', NEW type \in {"EncoderState", "ButtonState"},
                    NEW index \in 0 .. ControlCount,
                    Topic(type, index), Settled(type, index)'
             PROVE  Seen(type, index)' = Value(type, index, encoderValues', buttons')
  BY DEF ViewIsCurrent
<1> DEFINE N(s, y) == Newest(s, type, index, y)
           x == N(host.buffer, Held(host, type, index))
           value == Value(type, index, encoderValues', buttons')
<1>1. /\ Seen(type, index)' = N(Increments', N(Outbound', x))
      /\ Seen(type, index) = N(Increments, N(Outbound, x))
  BY DEF Seen, FirmwareMove
<1>2. /\ Outbound \in Seq(Packets) /\ Increments \in Seq(Packets)
  BY DeliveryParts, OutboundIs, StreamTypes DEF Increments
<1>3. ~RecoveryDue' /\ state # "Fault"
  BY DEF Working
<1>4. \A snapshot : Captures(snapshot, encoderValues', buttons') =>
        /\ snapshot \in Snapshots
        /\ \A y : N(SnapshotPackets(snapshot), y) = value
  BY SnapshotSays DEF Captures
<1>5. Keeps /\ Working => Seen(type, index) = value
  <2>1. Keeps => Settled(type, index) /\ value = Value(type, index, encoderValues, buttons)
    BY KeptTopic
  <2> QED
    BY <2>1 DEF ViewIsCurrent
<1>6. \A y : N(<<>>, y) = y
  <2> TAKE y
  <2> QED
    BY NewestOfNothing, Zenon
<1> HIDE DEF N, x, value
<1>7. CASE \E snapshot : Captures(snapshot, encoderValues', buttons') /\ Recovers(snapshot)
  <2>1. PICK snapshot : Captures(snapshot, encoderValues', buttons') /\ Recovers(snapshot)
    BY <1>7
  <2>2. Outbound' = SnapshotPackets(snapshot) /\ Increments' = <<>>
    BY <2>1 DEF Recovers
  <2>3. N(SnapshotPackets(snapshot), x) = value
    BY <1>4, <2>1, Zenon
  <2>4. N(Increments', N(Outbound', x)) = N(<<>>, N(SnapshotPackets(snapshot), x))
    BY <2>2, Zenon
  <2>5. N(<<>>, N(SnapshotPackets(snapshot), x)) = N(SnapshotPackets(snapshot), x)
    BY <1>6, Zenon
  <2> QED
    BY <1>1, <2>3, <2>4, <2>5, Zenon DEF value
<1>8. CASE stage # "setup" /\ ~RecoveryDue
  <2>1. Working
    BY <1>3, <1>8 DEF Working
  <2>2. CASE Quiet /\ Keeps
    BY <1>1, <1>5, <2>1, <2>2 DEF Quiet, value
  <2>3. CASE Passes /\ Keeps
    <3> DEFINE packet == Head(Increments)
               rest == Tail(Increments)
    <3>1. /\ packet \in Packets /\ <<packet>> \in Seq(Packets) /\ rest \in Seq(Packets)
          /\ Increments = <<packet>> \o rest
      <4>1. packet \in Packets /\ rest \in Seq(Packets) /\ Increments = <<packet>> \o rest
        BY <1>2, <2>3, HeadTailProperties DEF Passes
      <4> QED
        BY <4>1
    <3>2. Outbound' = Outbound \o <<packet>> /\ Increments' = rest
      BY <2>3 DEF Passes
    <3> HIDE DEF packet, rest
    <3>3. \A one \in Seq(Packets) : \A y :
            /\ N(Outbound \o one, y) = N(one, N(Outbound, y))
            /\ N(one \o rest, y) = N(rest, N(one, y))
      BY <1>2, <3>1, NewestJoined DEF N
    <3>4. N(Outbound \o <<packet>>, x) = N(<<packet>>, N(Outbound, x))
      BY <3>1, <3>3, Zenon
    <3>5. N(<<packet>> \o rest, N(Outbound, x)) = N(rest, N(<<packet>>, N(Outbound, x)))
      BY <3>1, <3>3, Zenon
    <3>6. N(Increments', N(Outbound', x)) = N(rest, N(Outbound \o <<packet>>, x))
      BY <3>2, Zenon
    <3>7. N(Increments, N(Outbound, x)) = N(<<packet>> \o rest, N(Outbound, x))
      BY <3>1, Zenon
    <3>8. N(Increments', N(Outbound', x)) = N(Increments, N(Outbound, x))
      BY <3>4, <3>5, <3>6, <3>7, Zenon
    <3> QED
      BY <1>1, <1>5, <2>1, <2>3, <3>8 DEF value
  <2>4. CASE \E packet \in Packets : IsIncrement(packet) /\ Queues(packet) /\ Announces(packet)
    <3>1. PICK packet \in Packets : Queues(packet) /\ Announces(packet)
      BY <2>4
    <3>2. /\ <<packet>> \in Seq(Packets)
          /\ Outbound' = Outbound /\ Increments' = Increments \o <<packet>>
      <4>1. Append(Increments, packet) = Increments \o <<packet>>
        BY <1>2, AppendIsConcat
      <4> QED
        BY <3>1, <4>1 DEF Queues
    <3>3. \A one \in Seq(Packets) : \A y : N(Increments \o one, y) = N(one, N(Increments, y))
      BY <1>2, NewestJoined DEF N
    <3>4. N(Increments', N(Outbound', x)) = N(<<packet>>, Seen(type, index))
      <4>1. N(Increments', N(Outbound', x)) = N(Increments \o <<packet>>, N(Outbound, x))
        BY <3>2, Zenon
      <4>2. N(Increments \o <<packet>>, N(Outbound, x)) = N(<<packet>>, N(Increments, N(Outbound, x)))
        BY <3>2, <3>3, Zenon
      <4> QED
        BY <1>1, <4>1, <4>2, Zenon
    <3>5. N(<<packet>>, Seen(type, index))
            = IF About(packet, type, index) THEN packet.data ELSE Seen(type, index)
      BY NewestOfOne DEF N
    <3>6. CASE About(packet, type, index)
      BY <1>1, <3>1, <3>4, <3>5, <3>6, KeptTopic DEF value
    <3>7. CASE ~About(packet, type, index)
      <4>1. /\ Settled(type, index)
            /\ value = Value(type, index, encoderValues, buttons)
        BY <3>1, <3>7, KeptTopic DEF value
      <4>2. Seen(type, index) = value
        BY <2>1, <4>1 DEF ViewIsCurrent
      <4> QED
        BY <1>1, <3>4, <3>5, <3>7, <4>2 DEF value
    <3> QED
      BY <3>6, <3>7
  <2>5. CASE /\ Keeps \/ Increments = <<>>
             /\ \E snapshot : Captures(snapshot, encoderValues', buttons') /\ Requests(snapshot)
    <3>1. PICK snapshot : Captures(snapshot, encoderValues', buttons') /\ Requests(snapshot)
      BY <2>5
    <3>2. /\ Outbound' = Outbound \o SnapshotPackets(snapshot) /\ Increments' = Increments
          /\ SnapshotPackets(snapshot) \in Seq(Packets)
      <4>1. \A buffer : SnapshotPackets(snapshot) \in Seq(Packets)
        BY <1>4, <3>1, FramedSnapshot
      <4> QED
        BY <3>1, <4>1 DEF Requests
    <3>3. N(Outbound', x) = value
      <4>1. N(Outbound', x) = N(SnapshotPackets(snapshot), N(Outbound, x))
        BY <1>2, <3>2, NewestJoined DEF N
      <4> QED
        BY <1>4, <3>1, <4>1
    <3>4. CASE Increments = <<>>
      BY <1>1, <1>6, <3>2, <3>3, <3>4 DEF value
    <3>5. CASE Keeps
      <4>1. N(Increments, N(Outbound, x)) = value
        BY <1>1, <1>5, <2>1, <3>5
      <4>2. CASE \E i \in 1 .. Len(Increments) : About(Increments[i], type, index)
        <5>1. N(Increments, value) = N(Increments, N(Outbound, x))
          BY <1>2, <4>2, NewestSpoken DEF N
        <5> QED
          BY <1>1, <3>2, <3>3, <4>1, <5>1 DEF value
      <4>3. CASE \A i \in 1 .. Len(Increments) : ~About(Increments[i], type, index)
        <5>1. N(Increments, value) = value
          BY <1>2, <4>3, NewestNone DEF N
        <5> QED
          BY <1>1, <3>2, <3>3, <5>1 DEF value
      <4> QED
        BY <4>2, <4>3
    <3> QED
      BY <2>5, <3>4, <3>5
  <2> QED
    BY <1>3, <1>7, <2>2, <2>3, <2>4, <2>5 DEF FirmwareMove
<1>9. RecoveryDue => \E snapshot : Captures(snapshot, encoderValues', buttons') /\ Recovers(snapshot)
  BY <1>3 DEF FirmwareMove
<1> QED
  BY <1>7, <1>8, <1>9

\* So does the host.
LEMMA HostKeepsView ==
  ASSUME DeliveryInvariant, ViewIsCurrent, HostMove, UNCHANGED <<stage, state>>
  PROVE  ViewIsCurrent'
<1> SUFFICES ASSUME Working', NEW type \in {"EncoderState", "ButtonState"},
                    NEW index \in 0 .. ControlCount,
                    Topic(type, index), Settled(type, index)'
             PROVE  Seen(type, index)' = Value(type, index, encoderValues', buttons')
  BY DEF ViewIsCurrent
<1>1. ~RecoveryDue' /\ Working
  BY DEF Working, HostMove
<1>2. PICK packet \in Packets, s \in Seq(Packets) :
        /\ Outbound = <<packet>> \o s
        /\ host' = HostReceives(host, packet)
        /\ Outbound' = s /\ Increments' = Increments /\ Keeps
  BY <1>1 DEF HostMove
<1>3. /\ host \in Hosts /\ PartOfSnapshot(host.buffer)
      /\ Framed(<<packet>> \o s, host.buffer)
  BY <1>1, <1>2, DeliveryIs, DeliveryParts DEF Working, StreamOK
<1>4. Newest(Outbound', type, index, Newest(host'.buffer, type, index, Held(host', type, index)))
        = Newest(Outbound, type, index, Newest(host.buffer, type, index, Held(host, type, index)))
  <2>1. ASSUME NEW g, g = HostReceives(host, packet)
        PROVE  Newest(s, type, index, Newest(g.buffer, type, index, Held(g, type, index)))
                 = Newest(<<packet>> \o s, type, index,
                     Newest(host.buffer, type, index, Held(host, type, index)))
    BY <1>2, <1>3, <2>1, ReadKeepsView
  <2>2. Newest(s, type, index, Newest(host'.buffer, type, index, Held(host', type, index)))
          = Newest(<<packet>> \o s, type, index,
              Newest(host.buffer, type, index, Held(host, type, index)))
    BY <1>2, <2>1, Zenon
  <2> QED
    BY <1>2, <2>2, Zenon
<1>5. Seen(type, index)' = Seen(type, index)
  BY <1>2, <1>4, Zenon DEF Seen
<1>6. /\ Settled(type, index)
      /\ Value(type, index, encoderValues', buttons')
           = Value(type, index, encoderValues, buttons)
  BY <1>2, KeptTopic
<1> QED
  BY <1>1, <1>5, <1>6 DEF ViewIsCurrent

\* A step of the system keeps the view current.
LEMMA NextKeepsView ==
  ASSUME NoResetAll, DeliveryInvariant, DeliveryInvariant', ViewIsCurrent, [Next]_vars
  PROVE  ViewIsCurrent'
<1>1. SafetyInvariant /\ SafetyInvariant' /\ transport.rxPacket.type # "ResetAll"
  <2>1. SafetyInvariant /\ SafetyInvariant' /\ TransportOK(transport)
    BY DeliveryParts DEF DeliveryInvariant
  <2>2. transport.rxPacket \in Commands \cup {NoCommand}
    BY <2>1 DEF TransportOK, TransportRecords
  <2> QED
    BY <2>1, <2>2 DEF NoResetAll, NoCommand
<1>2. state = "Fault" => state' = "Fault"
  BY <1>1, FaultKept
<1>3. CASE Begin
  <2>1. CASE state' = "Fault"
    BY <2>1 DEF ViewIsCurrent, Working
  <2>2. CASE /\ FirmwareMove
             /\ \E snapshot : Captures(snapshot, encoderValues', buttons') /\ Recovers(snapshot)
    BY <1>1, <1>2, <2>2, FirmwareKeepsView
  <2> QED
    BY <1>1, <1>3, <2>1, <2>2, BeginMove
<1>4. CASE FirmwareStep /\ ~Begin
  <2>1. FirmwareMove
    BY <1>1, <1>4, FirmwareMoves
  <2>2. CASE stage = "setup"
    <3>1. state' = "Starting"
      BY <1>1, <1>4, <2>2, StartupKept DEF SafetyInvariant, Next
    <3>2. stage' = "setup"
      BY <1>1, <3>1 DEF SafetyInvariant
    <3> QED
      BY <3>2 DEF ViewIsCurrent, Working
  <2>3. CASE stage # "setup"
    BY <1>1, <1>2, <2>1, <2>3, FirmwareKeepsView
  <2> QED
    BY <2>2, <2>3
<1>5. CASE \E command \in Commands, fed \in BOOLEAN : HostFrame(command, fed)
  <2>1. FirmwareMove \/ HostMove
    BY <1>1, <1>5, HostFrameMove
  <2>2. stage # "setup" /\ UNCHANGED <<stage, state>>
    BY <1>5 DEF HostFrame
  <2> QED
    BY <1>1, <1>2, <2>1, <2>2, FirmwareKeepsView, HostKeepsView
<1>6. CASE UNCHANGED vars
  BY <1>6 DEF vars, ViewIsCurrent, Working, RecoveryDue, Outbound, Increments, Seen, Held,
              Settled
<1> QED
  BY <1>3, <1>4, <1>5, <1>6 DEF Next, FirmwareStep

\* Without RESET_ALL the view stays current for ever.
LEMMA ViewStaysCurrent ==
  ASSUME NoResetAll
  PROVE  Spec => []ViewIsCurrent
<1>1. Init => ViewIsCurrent
  BY DEF Init, ViewIsCurrent, Working
<1>2. DeliveryInvariant /\ DeliveryInvariant' /\ ViewIsCurrent /\ [Next]_vars => ViewIsCurrent'
  BY NextKeepsView
<1> QED
  BY <1>1, <1>2, StreamIsFramed, PTL DEF Spec

\* As long as the host sends no RESET_ALL, the newest statement about every
\* control and the buttons, wherever it is between the publisher and the host, is
\* the MCM's current value: no overflow, recovery, snapshot or starved frame
\* leaves an older one behind it.
THEOREM NewestIsCurrent ==
  ASSUME NoResetAll
  PROVE  Spec => []NewestStatementIsCurrent
<1>1. DeliveryInvariant /\ ViewIsCurrent => NewestStatementIsCurrent
  BY ViewIs
<1> QED
  BY <1>1, StreamIsFramed, ViewStaysCurrent, PTL

-----------------------------------------------------------------------------
(* Running means that the host is current *)

\* When nothing is on its way, the host holds what the MCM holds.
IdleMeansCurrent ==
  stage = "transport" /\ state = "Running" /\ PublisherIdle(publisher) /\ TxIdle(transport)
    => HostCurrent

\* With an empty stream the view is what the host holds.
LEMMA IdleIsCurrent == DeliveryInvariant /\ ViewIsCurrent => IdleMeansCurrent
<1> SUFFICES ASSUME DeliveryInvariant, ViewIsCurrent, stage = "transport", state = "Running",
                    PublisherIdle(publisher), TxIdle(transport)
             PROVE  HostCurrent
  BY DEF IdleMeansCurrent
<1>1. /\ CoreOK /\ PublisherOK(publisher) /\ TransportOK(transport) /\ host \in Hosts
      /\ changes = NoChanges /\ ~transport.integrityLost
  BY DeliveryParts DEF LineOK
<1>2. Working
  BY <1>1 DEF Working, RecoveryDue, TxIdle
<1>3. Outbound = <<>> /\ Increments = <<>>
  <2>1. Sending(transport) = <<>>
    BY DEF Sending, TxIdle
  <2>2. Offering(publisher) = <<>> /\ EventPackets(publisher) = <<>>
    BY <1>1, IdlePublisher
  <2>3. <<>> \o <<>> = <<>>
    BY EmptyPacketType, ConcatEmptySeq
  <2> QED
    BY <1>1, <2>1, <2>2, <2>3, OutboundIs DEF Increments
<1>4. host.buffer = <<>> /\ host.known
  <2>1. /\ PartOfSnapshot(host.buffer) /\ Framed(<<>>, host.buffer)
        /\ host.known \/ EndComing(<<>>)
    BY <1>2, <1>3, DeliveryIs DEF Working, StreamOK
  <2>2. ~EndComing(<<>>)
    BY DEF EndComing
  <2>3. host.buffer \in Seq(Packets)
    BY <1>1 DEF Hosts
  <2> QED
    BY <2>1, <2>2, <2>3, FramedNothing
<1>5. ASSUME NEW type \in {"EncoderState", "ButtonState"}, NEW index \in 0 .. ControlCount,
             Topic(type, index)
      PROVE  Held(host, type, index) = Value(type, index, encoderValues, buttons)
  <2>1. Settled(type, index)
    BY <1>1 DEF Settled, NoChanges
  <2>2. Seen(type, index) = Held(host, type, index)
    <3> DEFINE N(y) == Newest(<<>>, type, index, y)
    <3>1. \A y : N(y) = y
      BY NewestOfNothing, Zenon
    <3>2. Seen(type, index) = N(N(N(Held(host, type, index))))
      BY <1>3, <1>4, Zenon DEF Seen
    <3> HIDE DEF N
    <3> QED
      BY <3>1, <3>2
  <2> QED
    BY <1>2, <1>5, <2>1, <2>2 DEF ViewIsCurrent
<1>6. ASSUME NEW c \in Controls
      PROVE  host.encoders[c] = ClampSigned24(encoderValues[c])
  <2>1. c \in 0 .. ControlCount /\ Topic("EncoderState", c)
    BY Count DEF Controls, Topic
  <2> QED
    BY <1>5, <2>1 DEF Held, Value
<1>7. host.buttons = buttons
  <2>1. ControlCount \in 0 .. ControlCount /\ Topic("ButtonState", ControlCount)
    BY Count DEF Topic
  <2> QED
    BY <1>5, <2>1 DEF Held, Value
<1> QED
  BY <1>4, <1>6, <1>7 DEF HostCurrent

\* updateRecoveryState alone enters Running, with nothing left to send.
LEMMA RunningEntered ==
  ASSUME Next, state # "Running", state' = "Running"
  PROVE  stage' = "transport" /\ PublisherIdle(publisher') /\ TxIdle(transport')
<1>1. CASE PublishAndTransfer
  BY <1>1 DEF PublishAndTransfer, UpdatedState
<1>2. CASE Begin \/ HandleRequestSnapshot \/ HandleResetAll
  BY <1>2 DEF Begin, HandleRequestSnapshot, HandleResetAll, RequestFreshSnapshot,
              RecoverPublicationIntegrity, StayInFault
<1>3. CASE RecoverIntegrity \/ HandleResetControl \/ HandleResync \/ PublishEncoderChange
             \/ PublishButtonChange
  BY <1>3 DEF RecoverIntegrity, HandleResetControl, HandleResync, PublishEncoderChange,
              PublishButtonChange, Recover, RecoverPublicationIntegrity, StayInFault
<1>4. CASE TransportService \/ HandleIgnored \/ Scan
  BY <1>4 DEF TransportService, HandleIgnored, Scan
<1>5. CASE \E command \in Commands, fed \in BOOLEAN : HostFrame(command, fed)
  BY <1>5 DEF HostFrame
<1> QED
  BY <1>1, <1>2, <1>3, <1>4, <1>5 DEF Next, FirmwareStep

\* As long as the host sends no RESET_ALL, a resynchronisation ends only with a
\* host that holds exactly the MCM's values.
THEOREM RunningIsCurrent ==
  ASSUME NoResetAll
  PROVE  Spec => RunningMeansHostCurrent
<1>1. DeliveryInvariant /\ ViewIsCurrent => IdleMeansCurrent
  BY IdleIsCurrent
<1>2. IdleMeansCurrent' /\ [Next]_vars
        => [(state # "Running" /\ state' = "Running") => HostCurrent']_vars
  BY RunningEntered DEF IdleMeansCurrent
<1> QED
  BY <1>1, <1>2, StreamIsFramed, ViewStaysCurrent, PTL DEF Spec, RunningMeansHostCurrent
=============================================================================
