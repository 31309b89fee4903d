---------------------------- MODULE StudioProofs ----------------------------
(***************************************************************************)
(* The two connections Studio has to the Edge.                             *)
(*                                                                         *)
(* ResultStream: for every size of a packet, every capacity of the wire    *)
(* and every history of connections, what is on its way to Studio is a     *)
(* sequence of whole packets, each newer than the one before.              *)
(*                                                                         *)
(* Control: for every length of the backlog, Studio never takes the answer *)
(* to a command it has given up for the answer to the one it waits for.    *)
(***************************************************************************)
EXTENDS ResultStream, Control, SequenceTheorems, FiniteSetTheorems, TLAPS

(***************************************************************************)
(*                       The stream of results                             *)
(***************************************************************************)

(* A piece of a packet, and its place in it.                               *)
Piece == Nat \X (1 .. Chunks)

(* How a connection that exists may look from the server's side.           *)
Looks == {"up", "fin", "reset", "silent", "broken"}

(* Types.                                                                  *)
StreamTypeOK ==
    /\ generation \in Nat /\ delivered \in Nat /\ packet \in Nat /\ sent \in Nat
    /\ received \in Nat /\ faults \in Nat
    /\ serverOwner \in {"idle", "startup", "running", "join", "down"}
    /\ serverStop \in BOOLEAN
    /\ startup \in {"unknown", "listening", "failed"}
    /\ thread \in {"none", "bind", "accept", "wait", "send", "done", "killed"}
    /\ link \in Looks \cup {"none"}
    /\ pending \in Seq(Looks) /\ Len(pending) <= StreamBacklog
    /\ wire \in Seq(Piece) /\ Len(wire) <= WireCapacity
    /\ buffer \in Seq(Piece)
    /\ ending \in BOOLEAN /\ desired \in BOOLEAN /\ reconnectTimer \in BOOLEAN
    /\ streamSocket \in {"unconnected", "connecting", "connected"}

(* A sequence of pieces that Studio can decode: whole packets but for the  *)
(* last, each newer than the one before, none older than `oldest` or newer *)
(* than `newest`.                                                          *)
InOrder(pieces) ==
    /\ \A i, j \in 1 .. Len(pieces) : i < j => pieces[i][1] <= pieces[j][1]
    /\ \A i \in 1 .. (Len(pieces) - Chunks) : pieces[i][1] < pieces[i + Chunks][1]
Between(pieces, oldest, newest) ==
    \A i \in 1 .. Len(pieces) : oldest <= pieces[i][1] /\ pieces[i][1] <= newest
Framed(pieces, oldest, newest) ==
    /\ \A i \in 1 .. Len(pieces) : InPlace(pieces, i)
    /\ InOrder(pieces)
    /\ Between(pieces, oldest, newest)

(* The thread serves a connection exactly while it waits and sends; a      *)
(* packet that is being sent is the one counted as delivered, and is not   *)
(* complete.                                                               *)
SendInv ==
    /\ serverOwner = "idle" => thread = "none"
    /\ thread \in {"wait", "send"} <=> link # "none"
    /\ delivered <= generation /\ received <= generation
    /\ thread = "send" => sent < Chunks /\ packet = delivered

(* Studio's connection has carried nothing that was not read.              *)
NothingOnTheWay == buffer = <<>> /\ wire = <<>>
NoneWaits == \A i \in 1 .. Len(pending) : pending[i] # "up"

(* Only Studio's newest connection is up: it is accepted, or it waits and  *)
(* has carried nothing.                                                    *)
LinkInv ==
    /\ streamSocket # "connected" => NothingOnTheWay /\ link # "up" /\ NoneWaits
    /\ \A i \in 1 .. Len(pending) : pending[i] = "up" =>
          /\ NothingOnTheWay /\ link # "up"
          /\ \A j \in 1 .. Len(pending) : pending[j] = "up" => i = j
    /\ ~desired => streamSocket = "unconnected"

(* The newest packet that may be on the way.                               *)
Newest == IF link = "up" THEN delivered ELSE generation

(* What is on the way is framed, and complete on a connection that is up.  *)
ContentInv ==
    /\ Framed(Stream, received, Newest)
    /\ link = "up" => Len(Stream) % Chunks = 0

StreamInv == StreamTypeOK /\ SendInv /\ LinkInv /\ ContentInv

-----------------------------------------------------------------------------
(* Quotient and remainder, which the prover uses only when they are named. *)
LEMMA DivMod ==
    \A n \in Nat, c \in Nat \ {0} : n = (n \div c) * c + (n % c) /\ n \div c \in Nat /\ n % c \in 0 .. c - 1
<1>1. \A n \in Nat, c \in Nat \ {0} : n = (n \div c) * c + (n % c)
  BY Z3
<1>2. \A n \in Nat, c \in Nat \ {0} : n % c \in 0 .. c - 1 /\ n \div c \in Int
  OBVIOUS
<1>3. \A n \in Nat, c \in Nat \ {0}, d \in Int : \A r \in 0 .. c - 1 : n = d * c + r => d \in Nat
  OBVIOUS
<1>4. ASSUME NEW n \in Nat, NEW c \in Nat \ {0}
      PROVE  n = (n \div c) * c + (n % c) /\ n \div c \in Nat /\ n % c \in 0 .. c - 1
  <2>1. n = (n \div c) * c + (n % c) /\ n % c \in 0 .. c - 1 /\ n \div c \in Int
    BY <1>1, <1>2
  <2>2. QED  BY <1>3, <2>1
<1>5. QED  BY <1>4

(* A remainder is unique.                                                  *)
LEMMA ModUnique ==
    ASSUME NEW c \in Nat \ {0}, NEW q \in Nat, NEW r \in 0 .. c - 1
    PROVE  (q * c + r) % c = r
OBVIOUS

(* Whole multiples do not change a remainder.                              *)
LEMMA ModShift ==
    ASSUME NEW c \in Nat \ {0}, NEW q \in Nat, NEW n \in Nat
    PROVE  (q * c + n) % c = n % c
<1>1. PICK d \in Nat, r \in 0 .. c - 1 : n = d * c + r /\ r = n % c
  BY DivMod
<1>2. q * c + n = (q + d) * c + r /\ q + d \in Nat
  BY <1>1
<1>3. ((q + d) * c + r) % c = r
  BY <1>2, ModUnique
<1>4. QED  BY <1>1, <1>2, <1>3

-----------------------------------------------------------------------------
(* What is left of a sequence without its first k elements.                *)
LEMMA RestProperties ==
    ASSUME NEW s \in Seq(Piece), NEW k \in 0 .. Len(s)
    PROVE  /\ SubSeq(s, k + 1, Len(s)) \in Seq(Piece)
           /\ Len(SubSeq(s, k + 1, Len(s))) = Len(s) - k
           /\ \A i \in 1 .. Len(s) - k : SubSeq(s, k + 1, Len(s))[i] = s[k + i]
OBVIOUS

(* Concatenation of three sequences of pieces.                             *)
LEMMA ThreeParts ==
    ASSUME NEW s \in Seq(Piece), NEW t \in Seq(Piece), NEW u \in Seq(Piece)
    PROVE  (s \o t) \o u = s \o (t \o u)
BY ConcatAssociative

(* The same under a name, for the prover to find the parts.                *)
Regroups(s, t, u) == (s \o t) \o u = s \o (t \o u)
LEMMA PiecesRegroup == \A s, t, u \in Seq(Piece) : Regroups(s, t, u)
BY ThreeParts DEF Regroups

(* What was not sent of a packet may be missing.                           *)
LEMMA FramedPrefix ==
    ASSUME NEW s \in Seq(Piece), NEW t \in Seq(Piece), NEW old \in Nat, NEW new \in Nat,
           Framed(s \o t, old, new)
    PROVE  Framed(s, old, new)
<1> DEFINE u == s \o t
<1>1. Len(u) = Len(s) + Len(t) /\ Len(s) \in Nat /\ Len(t) \in Nat
  BY ConcatProperties
<1>2. \A i \in 1 .. Len(s) : u[i] = s[i]
  BY ConcatProperties
<1>3. Chunks \in Nat \ {0}
  BY StreamAssumption
<1> HIDE DEF u
<1>4. Framed(u, old, new)
  BY DEF u
<1>5. \A i \in 1 .. Len(s) : InPlace(s, i)
  <2>1. TAKE i \in 1 .. Len(s)
  <2>2. InPlace(u, i)
    BY <1>1, <1>4 DEF Framed
  <2>3. s[i] = u[i] /\ (i > 1 => s[i - 1] = u[i - 1])
    BY <1>1, <1>2
  <2>4. CASE i > 1
    BY <2>2, <2>3, <2>4 DEF InPlace
  <2>5. CASE i = 1
    <3>1. (i - 1) % Chunks = 0
      BY <1>3, <2>5
    <3>2. s[i][2] = 1
      BY <2>2, <2>3, <3>1 DEF InPlace
    <3>3. QED  BY <2>2, <2>3, <3>2 DEF InPlace
  <2>6. QED  BY <2>4, <2>5
<1>6. InOrder(s)
  BY <1>1, <1>2, <1>3, <1>4 DEF Framed, InOrder
<1>7. Between(s, old, new)
  BY <1>1, <1>2, <1>4 DEF Framed, Between
<1>8. QED  BY <1>5, <1>6, <1>7 DEF Framed

(* Whole packets may be taken from the front: what is left is as new as    *)
(* the last of them.                                                       *)
LEMMA FramedSuffix ==
    ASSUME NEW s \in Seq(Piece), NEW q \in Nat, q * Chunks <= Len(s),
           NEW old \in Nat, NEW new \in Nat, Framed(s, old, new)
    PROVE  LET k == q * Chunks
               oldest == IF k > 0 THEN s[k][1] ELSE old
           IN  Framed(SubSeq(s, k + 1, Len(s)), oldest, new)
<1> DEFINE k == q * Chunks
           oldest == IF k > 0 THEN s[k][1] ELSE old
           t == SubSeq(s, k + 1, Len(s))
<1>1. Chunks \in Nat \ {0} /\ k \in Nat /\ k <= Len(s) /\ Len(s) \in Nat
  BY StreamAssumption
<1>2. Len(t) = Len(s) - k /\ \A i \in 1 .. Len(t) : t[i] = s[k + i]
  <2> HIDE DEF k
  <2>1. QED  BY <1>1
<1>3. ASSUME NEW i \in 1 .. Len(t) PROVE InPlace(t, i)
  <2>1. InPlace(s, k + i) /\ k + i \in 1 .. Len(s)
    <3> HIDE DEF k, t
    <3>1. QED  BY <1>1, <1>2, <1>3 DEF Framed
  <2>2. (k + i - 1) % Chunks = (i - 1) % Chunks
    <3>1. i - 1 \in Nat /\ k + i - 1 = q * Chunks + (i - 1)
      BY <1>1, <1>2, <1>3
    <3>2. QED  BY <1>1, <3>1, ModShift
  <2> HIDE DEF k, t
  <2>3. t[i] = s[k + i] /\ (i > 1 => t[i - 1] = s[k + i - 1])
    <3>1. i > 1 => i - 1 \in 1 .. Len(t) /\ k + (i - 1) = k + i - 1
      BY <1>1, <1>2
    <3>2. QED  BY <1>2, <3>1
  <2>4. t[i][2] = ((i - 1) % Chunks) + 1
    BY <1>1, <1>2, <2>1, <2>2, <2>3 DEF InPlace
  <2>5. CASE i > 1
    <3>1. s[k + i][2] > 1 => s[k + i][1] = s[k + i - 1][1]
      BY <1>1, <1>2, <2>1 DEF InPlace
    <3>2. QED  BY <2>3, <2>4, <2>5, <3>1 DEF InPlace
  <2>6. CASE i = 1
    <3>1. (i - 1) % Chunks = 0
      BY <1>1, <2>6
    <3>2. QED  BY <2>4, <3>1 DEF InPlace
  <2>7. QED  BY <1>1, <1>2, <2>5, <2>6
<1>4. InOrder(t)
  <2> HIDE DEF k, t
  <2>1. ASSUME NEW i \in 1 .. Len(t), NEW j \in 1 .. Len(t), i < j PROVE t[i][1] <= t[j][1]
    <3>1. k + i \in 1 .. Len(s) /\ k + j \in 1 .. Len(s) /\ k + i < k + j
      BY <1>1, <1>2, <2>1
    <3>2. s[k + i][1] <= s[k + j][1]
      BY <3>1 DEF Framed, InOrder
    <3>3. QED  BY <1>2, <3>2
  <2>2. ASSUME NEW i \in 1 .. Len(t) - Chunks PROVE t[i][1] < t[i + Chunks][1]
    <3>1. /\ k + i \in 1 .. Len(s) - Chunks /\ k + (i + Chunks) = (k + i) + Chunks
          /\ i \in 1 .. Len(t) /\ i + Chunks \in 1 .. Len(t)
      <4>1. Len(t) = Len(s) - k
        BY <1>2
      <4>2. \A m, c, l, h \in Int : \A j \in 1 .. (m - h) - c : m >= h /\ h >= 0 /\ c >= 0 =>
              /\ h + j \in 1 .. m - c /\ h + (j + c) = (h + j) + c
              /\ j \in 1 .. m - h /\ j + c \in 1 .. m - h
        OBVIOUS
      <4>3. QED  BY <1>1, <4>1, <4>2
    <3>2. s[k + i][1] < s[(k + i) + Chunks][1]
      BY <3>1 DEF Framed, InOrder
    <3>3. QED  BY <1>2, <3>1, <3>2
  <2>3. QED  BY <2>1, <2>2 DEF InOrder
<1>5. Between(t, oldest, new)
  <2> HIDE DEF k, t
  <2>1. ASSUME NEW i \in 1 .. Len(t) PROVE oldest <= t[i][1] /\ t[i][1] <= new
    <3>1. t[i] = s[k + i] /\ k + i \in 1 .. Len(s)
      BY <1>1, <1>2
    <3>2. k > 0 => s[k][1] <= s[k + i][1]
      BY <1>1, <3>1 DEF Framed, InOrder
    <3>3. QED  BY <3>1, <3>2 DEF Framed, Between
  <2>2. QED  BY <2>1 DEF Between
<1>6. QED  BY <1>3, <1>4, <1>5 DEF Framed

(* A whole packet newer than all others may be put behind whole packets.   *)
LEMMA FramedPacket ==
    ASSUME NEW s \in Seq(Piece), Len(s) % Chunks = 0,
           NEW old \in Nat, NEW new \in Nat, Framed(s, old, new),
           NEW g \in Nat, new < g, old <= g,
           NEW t \in Seq(Piece), Len(t) = Chunks, \A i \in 1 .. Chunks : t[i] = <<g, i>>
    PROVE  Framed(s \o t, old, g) /\ Len(s \o t) % Chunks = 0
<1> DEFINE u == s \o t
<1>1. Len(u) = Len(s) + Chunks /\ Len(s) \in Nat /\ Chunks \in Nat \ {0}
  <2>1. Len(u) = Len(s) + Len(t)
    BY ConcatProperties
  <2>2. QED  BY <2>1, StreamAssumption
<1>2. (\A i \in 1 .. Len(s) : u[i] = s[i])
      /\ \A i \in Len(s) + 1 .. Len(s) + Chunks : u[i] = <<g, i - Len(s)>>
  <2>1. \A i \in 1 .. Len(s) : u[i] = s[i]
    BY ConcatProperties
  <2>2. \A i \in Len(s) + 1 .. Len(s) + Chunks : u[i] = t[i - Len(s)] /\ i - Len(s) \in 1 .. Chunks
    BY <1>1, ConcatProperties
  <2>3. QED  BY <2>1, <2>2
<1>3. PICK q \in Nat : Len(s) = q * Chunks
  <2>1. Len(s) = (Len(s) \div Chunks) * Chunks + (Len(s) % Chunks) /\ Len(s) \div Chunks \in Nat
    BY <1>1, DivMod
  <2>2. (Len(s) \div Chunks) * Chunks \in Nat
    BY <1>1, <2>1
  <2>3. QED  BY <2>1, <2>2
<1> HIDE DEF u
<1>4. Len(u) % Chunks = 0
  <2>1. Chunks % Chunks = 0
    BY <1>1, ModUnique
  <2>2. (q * Chunks + Chunks) % Chunks = Chunks % Chunks
    BY <1>1, ModShift
  <2>3. QED  BY <1>1, <1>3, <2>1, <2>2
<1>5. ASSUME NEW i \in 1 .. Len(u) PROVE InPlace(u, i)
  <2>1. CASE i <= Len(s)
    <3>1. InPlace(s, i) /\ u[i] = s[i] /\ (i > 1 => u[i - 1] = s[i - 1])
      BY <1>1, <1>2, <2>1 DEF Framed
    <3>2. CASE i > 1
      BY <3>1, <3>2 DEF InPlace
    <3>3. CASE i = 1
      <4>1. (i - 1) % Chunks = 0
        BY <1>1, <3>3
      <4>2. u[i][2] = 1
        BY <3>1, <4>1 DEF InPlace
      <4>3. QED  BY <3>1, <4>2 DEF InPlace
    <3>4. QED  BY <1>1, <3>2, <3>3
  <2>2. CASE i > Len(s)
    <3> DEFINE k == i - Len(s)
    <3>1. k \in 1 .. Chunks /\ u[i] = <<g, k>> /\ (k > 1 => u[i - 1] = <<g, k - 1>>)
      <4>1. k \in 1 .. Chunks /\ i \in Len(s) + 1 .. Len(s) + Chunks
        BY <1>1, <2>2
      <4>2. u[i] = <<g, k>>
        BY <1>2, <4>1
      <4>3. k > 1 => i - 1 \in Len(s) + 1 .. Len(s) + Chunks /\ (i - 1) - Len(s) = k - 1
        BY <1>1, <4>1
      <4>4. k > 1 => u[i - 1] = <<g, (i - 1) - Len(s)>>
        BY <1>2, <4>3
      <4>5. QED  BY <4>1, <4>2, <4>3, <4>4
    <3>2. i - 1 = q * Chunks + (k - 1) /\ k - 1 \in 0 .. Chunks - 1
      BY <1>1, <1>3, <3>1
    <3> HIDE DEF k
    <3>3. (i - 1) % Chunks = k - 1
      <4>1. (q * Chunks + (k - 1)) % Chunks = k - 1
        BY <1>1, <3>2, ModUnique
      <4>2. QED  BY <3>2, <4>1
    <3>4. QED  BY <3>1, <3>3 DEF InPlace
  <2>3. QED  BY <1>1, <2>1, <2>2
<1>6. \A i \in 1 .. Len(s) : s[i][1] \in Nat /\ old <= s[i][1] /\ s[i][1] < g
  <2>1. \A i \in 1 .. Len(s) : s[i] \in Piece
    OBVIOUS
  <2>2. \A i \in 1 .. Len(s) : s[i][1] \in Nat
    BY <2>1 DEF Piece
  <2>3. QED  BY <2>2 DEF Framed, Between
<1>7. (\A i \in 1 .. Len(s) : u[i][1] = s[i][1])
      /\ \A i \in Len(s) + 1 .. Len(s) + Chunks : u[i][1] = g
  BY <1>2
<1>8. InOrder(u)
  <2>1. ASSUME NEW i \in 1 .. Len(u), NEW j \in 1 .. Len(u), i < j PROVE u[i][1] <= u[j][1]
    <3>1. CASE j <= Len(s)
      BY <1>1, <1>7, <2>1, <3>1 DEF Framed, InOrder
    <3>2. CASE j > Len(s)
      <4>1. j \in Len(s) + 1 .. Len(s) + Chunks
        BY <1>1, <3>2
      <4>2. u[j][1] = g
        BY <1>7, <4>1
      <4>3. i \in 1 .. Len(s) \/ i \in Len(s) + 1 .. Len(s) + Chunks
        BY <1>1
      <4>4. u[i][1] <= g
        <5>1. CASE i \in 1 .. Len(s)
          <6>1. u[i][1] = s[i][1] /\ s[i][1] \in Nat /\ s[i][1] < g
            BY <1>6, <1>7, <5>1
          <6> HIDE DEF u
          <6>2. QED  BY <6>1
        <5>2. CASE i \in Len(s) + 1 .. Len(s) + Chunks
          <6>1. u[i][1] = g
            BY <1>7, <5>2
          <6> HIDE DEF u
          <6>2. QED  BY <6>1
        <5>3. QED  BY <4>3, <5>1, <5>2
      <4>5. QED  BY <4>2, <4>4
    <3>3. QED  BY <1>1, <3>1, <3>2
  <2>2. ASSUME NEW i \in 1 .. Len(u) - Chunks PROVE u[i][1] < u[i + Chunks][1]
    <3>1. CASE i + Chunks <= Len(s)
      BY <1>1, <1>7, <3>1 DEF Framed, InOrder
    <3>2. CASE i + Chunks > Len(s)
      <4>1. i \in 1 .. Len(s) /\ i + Chunks \in Len(s) + 1 .. Len(s) + Chunks
        BY <1>1, <3>2
      <4>2. QED  BY <1>6, <1>7, <4>1
    <3>3. QED  BY <1>1, <3>1, <3>2
  <2>3. QED  BY <2>1, <2>2 DEF InOrder
<1>9. Between(u, old, g)
  BY <1>1, <1>6, <1>7 DEF Between
<1>10. QED  BY <1>4, <1>5, <1>8, <1>9 DEF Framed, u
-----------------------------------------------------------------------------
(* What is still to be sent of a packet when some pieces of it were.        *)
Remaining(g, n) == [i \in 1 .. (Chunks - n) |-> <<g, n + i>>]

(* These are pieces, one for each call of send that is left.               *)
LEMMA RemainingPieces ==
    ASSUME NEW g \in Nat, NEW n \in 0 .. Chunks
    PROVE  /\ Remaining(g, n) \in Seq(Piece)
           /\ Len(Remaining(g, n)) = Chunks - n
           /\ \A i \in 1 .. Chunks - n : Remaining(g, n)[i] = <<g, n + i>>
<1> DEFINE s == [i \in 1 .. (Chunks - n) |-> <<g, n + i>>]
<1>1. Chunks - n \in Nat /\ n \in Nat /\ Chunks \in Nat
  BY StreamAssumption
<1>2. \A i \in 1 .. Chunks - n : <<g, n + i>> \in Piece
  BY <1>1 DEF Piece
<1>3. s \in Seq(Piece) /\ Len(s) = Chunks - n
  BY <1>1, <1>2
<1>4. QED  BY <1>3 DEF Remaining

(* Unsent is what remains of the packet in hand.                           *)
LEMMA UnsentPieces ==
    ASSUME StreamTypeOK, SendInv
    PROVE  /\ Unsent \in Seq(Piece)
           /\ thread = "send" /\ link = "up" =>
                 Unsent = Remaining(packet, sent) /\ sent \in 0 .. Chunks /\ packet \in Nat
<1>1. CASE thread = "send" /\ link = "up"
  <2>1. sent \in 0 .. Chunks /\ packet \in Nat
    BY <1>1, StreamAssumption DEF StreamTypeOK, SendInv
  <2>2. Unsent = Remaining(packet, sent)
    BY <1>1 DEF Unsent, Remaining
  <2>3. QED  BY <2>1, <2>2, RemainingPieces
<1>2. CASE ~(thread = "send" /\ link = "up")
  BY <1>2 DEF Unsent
<1>3. QED  BY <1>1, <1>2

(* What is on the way consists of pieces.                                  *)
LEMMA StreamType == ASSUME StreamTypeOK, SendInv PROVE Stream \in Seq(Piece) /\ buffer \o wire \in Seq(Piece)
<1>1. buffer \in Seq(Piece) /\ wire \in Seq(Piece) /\ Unsent \in Seq(Piece)
  BY UnsentPieces DEF StreamTypeOK
<1>2. QED  BY <1>1 DEF Stream

(* The order of the pieces is kept when newer ones are allowed.            *)
LEMMA FramedMonotone ==
    ASSUME NEW s \in Seq(Piece), NEW old \in Nat, NEW new \in Nat, NEW newer \in Nat,
           new <= newer, Framed(s, old, new)
    PROVE  Framed(s, old, newer)
<1>1. \A i \in 1 .. Len(s) : s[i][1] \in Nat
  BY DEF Piece
<1>2. Between(s, old, newer)
  BY <1>1 DEF Framed, Between
<1>3. QED  BY <1>2 DEF Framed

(* Nothing on the way is in order.                                         *)
LEMMA NothingFramed ==
    ASSUME NEW old, NEW new PROVE Framed(<<>>, old, new)
<1>1. Len(<<>>) = 0 /\ Chunks \in Nat
  BY StreamAssumption
<1>2. QED  BY <1>1 DEF Framed, InOrder, Between

-----------------------------------------------------------------------------
(* The connection is not up any more, or still not: at most the pieces     *)
(* that were not sent are gone.                                            *)
LEMMA ContentOfDownKept ==
    ASSUME StreamInv, StreamTypeOK', UNCHANGED <<buffer, wire, received>>,
           link' # "up", generation <= generation'
    PROVE  ContentInv'
<1>1. Stream' = buffer \o wire
  <2>1. Unsent' = <<>>
    BY DEF Unsent
  <2>2. buffer \o wire \in Seq(Piece)
    BY StreamType DEF StreamInv
  <2>3. Stream' = (buffer \o wire) \o <<>>
    BY <2>1 DEF Stream
  <2>4. QED  BY <2>2, <2>3, ConcatEmptySeq
<1>2. Newest \in Nat /\ Newest <= generation /\ received \in Nat /\ generation \in Nat /\ generation' \in Nat
  BY DEF StreamInv, StreamTypeOK, SendInv, Newest
<1>3. Framed(buffer \o wire, received, Newest)
  <2>1. buffer \o wire \in Seq(Piece) /\ Unsent \in Seq(Piece)
    BY StreamType, UnsentPieces DEF StreamInv
  <2>2. Framed((buffer \o wire) \o Unsent, received, Newest)
    BY DEF StreamInv, ContentInv, Stream
  <2>3. QED  BY <1>2, <2>1, <2>2, FramedPrefix
<1>4. Framed(buffer \o wire, received, generation')
  <2>1. buffer \o wire \in Seq(Piece)
    BY StreamType DEF StreamInv
  <2>2. QED  BY <1>2, <1>3, <2>1, FramedMonotone
<1>5. Newest' = generation' /\ received' = received
  BY DEF Newest
<1>6. QED  BY <1>1, <1>4, <1>5 DEF ContentInv

(* A connection that is up stays so, with the same pieces.                 *)
LEMMA ContentOfUpKept ==
    ASSUME StreamInv, link = "up", link' = "up", Stream' = Stream,
           received' = received, delivered' = delivered
    PROVE  ContentInv'
<1>1. Newest' = Newest
  BY DEF Newest
<1>2. QED  BY <1>1 DEF StreamInv, ContentInv

(* Neither the connection nor what is sent on it changes.                  *)
LEMMA ContentKept ==
    ASSUME StreamInv, StreamTypeOK',
           UNCHANGED <<thread, sendVars, link, wire, buffer, received>>, generation <= generation'
    PROVE  ContentInv'
<1>1. CASE link = "up"
  <2>1. Stream' = Stream
    BY DEF Stream, Unsent, sendVars
  <2>2. QED  BY <1>1, <2>1, ContentOfUpKept DEF sendVars
<1>2. CASE link # "up"
  BY <1>2, ContentOfDownKept
<1>3. QED  BY <1>1, <1>2

(* Studio has read nothing of a connection that just came up, and forgets  *)
(* one that it leaves.                                                     *)
LEMMA ContentForgotten ==
    ASSUME buffer' = <<>>, wire' = <<>>, link' # "up" \/ thread' # "send"
    PROVE  ContentInv'
<1>1. Stream' = <<>>
  <2>1. Unsent' = <<>>
    BY DEF Unsent
  <2>2. QED  BY <2>1 DEF Stream
<1>2. Len(Stream') % Chunks = 0
  <2>1. Len(Stream') = 0
    BY <1>1
  <2>2. 0 % Chunks = 0
    BY StreamAssumption
  <2>3. QED  BY <2>1, <2>2
<1>3. Framed(<<>>, received', Newest')
  BY NothingFramed
<1>4. QED  BY <1>1, <1>2, <1>3 DEF ContentInv

-----------------------------------------------------------------------------
(* The owner.                                                              *)
LEMMA OwnerKeepsContent ==
    ASSUME StreamInv, StreamTypeOK', OwnerAsks \/ OwnerContinues
    PROVE  ContentInv'
<1>1. generation <= generation'
  BY DEF OwnerAsks, OwnerContinues, Publish, Start, Stop, StartReturns, StartThrows,
         StartTimesOut, StopReturns, StreamInv, StreamTypeOK
<1>2. UNCHANGED <<buffer, wire, received, link>>
  BY DEF OwnerAsks, OwnerContinues, Publish, Start, Stop, StartReturns, StartThrows,
         StartTimesOut, StopReturns, connection, studio
<1>3. CASE link # "up"
  BY <1>1, <1>2, <1>3, ContentOfDownKept
<1>4. CASE link = "up"
  <2>1. UNCHANGED <<thread, sendVars>>
    BY <1>4 DEF OwnerAsks, OwnerContinues, Publish, Start, Stop, StartReturns, StartThrows,
         StartTimesOut, StopReturns, StreamInv, StreamTypeOK, SendInv
  <2>2. QED  BY <1>1, <1>2, <2>1, ContentKept
<1>5. QED  BY <1>3, <1>4

-----------------------------------------------------------------------------
(* The server's thread.                                                    *)

(* A connection that is up when it is accepted has carried nothing yet.    *)
LEMMA AcceptKeepsContent ==
    ASSUME StreamInv, StreamTypeOK', AcceptStream
    PROVE  ContentInv'
<1>1. pending \in Seq(Looks) /\ Len(pending) \in Nat /\ Len(pending) > 0
  BY DEF StreamInv, StreamTypeOK, AcceptStream
<1>2. link' = pending[1] /\ 1 \in 1 .. Len(pending)
  BY <1>1 DEF AcceptStream
<1>3. CASE pending[1] = "up"
  <2>1. buffer = <<>> /\ wire = <<>>
    BY <1>2, <1>3 DEF StreamInv, LinkInv, NothingOnTheWay
  <2>2. buffer' = <<>> /\ wire' = <<>> /\ thread' # "send"
    BY <2>1 DEF AcceptStream, studio
  <2>3. QED  BY <2>2, ContentForgotten
<1>4. CASE pending[1] # "up"
  <2>1. UNCHANGED <<buffer, wire, received, generation>> /\ link' # "up"
    BY <1>2, <1>4 DEF AcceptStream, studio
  <2>2. generation <= generation'
    BY <2>1 DEF StreamInv, StreamTypeOK
  <2>3. QED  BY <2>1, <2>2, ContentOfDownKept
<1>5. QED  BY <1>3, <1>4

(* The publication that is taken is newer than all that was sent on this   *)
(* connection.                                                             *)
LEMMA TakeKeepsContent ==
    ASSUME StreamInv, StreamTypeOK', SendInv', TakeLatest
    PROVE  ContentInv'
<1>1. UNCHANGED <<buffer, wire, received, link, generation>> /\ generation \in Nat
  BY DEF TakeLatest, connection, studio, StreamInv, StreamTypeOK
<1>2. CASE link # "up"
  <2>1. generation <= generation'
    BY <1>1
  <2>2. QED  BY <1>1, <1>2, <2>1, ContentOfDownKept
<1>3. CASE link = "up"
  <2> DEFINE s == buffer \o wire
             t == Unsent'
  <2>1. thread = "wait" /\ thread' = "send" /\ link' = "up" /\ sent' = 0
        /\ packet' = generation /\ delivered' = generation
    BY <1>1, <1>3 DEF TakeLatest
  <2>2. s \in Seq(Piece)
    BY StreamType DEF StreamInv
  <2>3. t \in Seq(Piece) /\ Len(t) = Chunks /\ \A i \in 1 .. Chunks : t[i] = <<generation, i>>
    <3>1. t = Remaining(generation, 0)
      BY <2>1 DEF Unsent, Remaining
    <3>2. Chunks - 0 = Chunks /\ 0 \in 0 .. Chunks /\ \A i \in 1 .. Chunks : 0 + i = i
      BY StreamAssumption
    <3> HIDE DEF t
    <3>3. /\ t \in Seq(Piece) /\ Len(t) = Chunks - 0
          /\ \A i \in 1 .. Chunks - 0 : t[i] = <<generation, 0 + i>>
      BY <1>1, <3>1, <3>2, RemainingPieces
    <3>4. QED  BY <3>2, <3>3
  <2>4. Stream = s
    <3>1. Unsent = <<>>
      BY <2>1 DEF Unsent
    <3>2. Stream = s \o <<>>
      BY <3>1 DEF Stream
    <3>3. QED  BY <2>2, <3>2, ConcatEmptySeq
  <2>5. Stream' = s \o t
    BY <1>1 DEF Stream
  <2>6. Framed(s, received, delivered) /\ Len(s) % Chunks = 0
    BY <1>3, <2>4 DEF StreamInv, ContentInv, Newest
  <2>7. delivered \in Nat /\ received \in Nat /\ delivered < generation /\ received <= generation
    BY DEF StreamInv, StreamTypeOK, SendInv, TakeLatest
  <2> HIDE DEF s, t
  <2>8. Framed(s \o t, received, generation) /\ Len(s \o t) % Chunks = 0
    BY <1>1, <2>2, <2>3, <2>6, <2>7, FramedPacket
  <2>9. Newest' = generation
    BY <2>1 DEF Newest
  <2>10. QED  BY <1>1, <2>5, <2>8, <2>9 DEF ContentInv
<1>4. QED  BY <1>2, <1>3

(* A call of send moves a piece from what is unsent to the wire.           *)
LEMMA SendKeepsContent ==
    ASSUME StreamInv, StreamTypeOK', SendInv', SendChunk
    PROVE  ContentInv'
<1>1. UNCHANGED <<buffer, received, generation, delivered, packet>> /\ generation <= generation'
  BY DEF SendChunk, studio, StreamInv, StreamTypeOK
<1>2. CASE link # "up"
  <2>1. UNCHANGED wire /\ link' # "up"
    BY <1>2 DEF SendChunk
  <2>2. QED  BY <1>1, <2>1, ContentOfDownKept
<1>3. CASE link = "up"
  <2> DEFINE p == <<packet, sent + 1>>
             rest == Unsent'
  <2>1. thread = "send" /\ link' = "up" /\ wire' = Append(wire, p) /\ sent' = sent + 1
    BY <1>3 DEF SendChunk
  <2>2. sent \in Nat /\ sent < Chunks /\ Chunks \in Nat /\ packet \in Nat
    BY <2>1, StreamAssumption DEF StreamInv, StreamTypeOK, SendInv
  <2>3. /\ Unsent \in Seq(Piece) /\ Len(Unsent) = Chunks - sent
        /\ \A i \in 1 .. Chunks - sent : Unsent[i] = <<packet, sent + i>>
    BY <1>3, <2>1, UnsentPieces, RemainingPieces DEF StreamInv
  <2>4. rest \in Seq(Piece) /\ Len(rest) = Chunks - (sent + 1)
        /\ \A i \in 1 .. Chunks - (sent + 1) : rest[i] = <<packet, sent + 1 + i>>
    <3>1. rest = Remaining(packet, sent + 1)
      <4>1. CASE thread' = "send"
        BY <1>1, <2>1, <4>1 DEF Unsent, Remaining
      <4>2. CASE thread' # "send"
        <5>1. sent + 1 = Chunks /\ 1 .. (Chunks - (sent + 1)) = {}
          BY <2>1, <2>2, <4>2 DEF SendChunk
        <5>2. Remaining(packet, sent + 1) = <<>>
          BY <5>1 DEF Remaining
        <5>3. QED  BY <4>2, <5>2 DEF Unsent
      <4>3. QED  BY <4>1, <4>2
    <3>2. sent + 1 \in 0 .. Chunks
      BY <2>2
    <3> HIDE DEF rest
    <3>3. QED  BY <2>2, <3>1, <3>2, RemainingPieces
  <2> HIDE DEF rest
  <2>5. p \in Piece
    BY <2>2 DEF Piece
  <2>6. Unsent = <<p>> \o rest
    <3>1. <<p>> \in Seq(Piece) /\ Len(<<p>>) = 1 /\ <<p>>[1] = p
      BY <2>5
    <3>2. <<p>> \o rest \in Seq(Piece) /\ Len(<<p>> \o rest) = 1 + (Chunks - (sent + 1))
      BY <2>4, <3>1, ConcatProperties
    <3>3. (<<p>> \o rest)[1] = p
      BY <2>4, <3>1, ConcatProperties
    <3>4. ASSUME NEW i \in 2 .. Chunks - sent PROVE (<<p>> \o rest)[i] = <<packet, sent + i>>
      <4>1. i - 1 \in 1 .. Chunks - (sent + 1) /\ i \in 1 .. Len(<<p>>) + Len(rest) /\ i > Len(<<p>>)
        BY <2>2, <2>4, <3>1
      <4>2. (<<p>> \o rest)[i] = rest[i - 1]
        BY <2>4, <3>1, <4>1, ConcatProperties
      <4>3. rest[i - 1] = <<packet, sent + 1 + (i - 1)>> /\ sent + 1 + (i - 1) = sent + i
        BY <2>2, <2>4, <4>1
      <4>4. QED  BY <4>2, <4>3
    <3>5. Len(Unsent) = Len(<<p>> \o rest)
      BY <2>2, <2>3, <3>2
    <3>6. \A i \in 1 .. Len(Unsent) : Unsent[i] = (<<p>> \o rest)[i]
      <4>1. TAKE i \in 1 .. Len(Unsent)
      <4>2. i = 1 \/ i \in 2 .. Chunks - sent
        BY <2>2, <2>3
      <4>3. i \in 1 .. Chunks - sent /\ Unsent[i] = <<packet, sent + i>>
        BY <2>3
      <4>4. QED  BY <3>3, <3>4, <4>2, <4>3
    <3>7. QED  BY <2>3, <3>2, <3>5, <3>6, SeqEqual
  <2>7. Stream' = Stream
    <3>1. wire' = wire \o <<p>>
      BY <2>1, <2>5, AppendIsConcat DEF StreamInv, StreamTypeOK
    <3>2. Stream' = (buffer \o (wire \o <<p>>)) \o rest
      BY <1>1, <3>1 DEF Stream, rest
    <3>3. Stream = (buffer \o wire) \o (<<p>> \o rest)
      BY <2>6 DEF Stream
    <3> HIDE DEF p
    <3>4. buffer \in Seq(Piece) /\ wire \in Seq(Piece) /\ <<p>> \in Seq(Piece) /\ rest \in Seq(Piece)
      BY <2>4, <2>5 DEF StreamInv, StreamTypeOK
    <3>5. wire \o <<p>> \in Seq(Piece) /\ <<p>> \o rest \in Seq(Piece) /\ buffer \o wire \in Seq(Piece)
      BY <3>4, ConcatProperties
    <3> HIDE DEF rest
    <3>6. Regroups(buffer, wire \o <<p>>, rest) /\ Regroups(wire, <<p>>, rest)
            /\ Regroups(buffer, wire, <<p>> \o rest)
      BY <3>4, <3>5, PiecesRegroup
    <3>7. (buffer \o (wire \o <<p>>)) \o rest = buffer \o ((wire \o <<p>>) \o rest)
            /\ (wire \o <<p>>) \o rest = wire \o (<<p>> \o rest)
      BY <3>6 DEF Regroups
    <3>8. (buffer \o wire) \o (<<p>> \o rest) = buffer \o (wire \o (<<p>> \o rest))
      BY <3>6 DEF Regroups
    <3>9. QED  BY <3>2, <3>3, <3>7, <3>8
  <2>8. QED  BY <1>1, <1>3, <2>1, <2>7, ContentOfUpKept
<1>4. QED  BY <1>2, <1>3

(* A connection that is given up within a packet leaves Studio a packet    *)
(* that is cut off, and nothing behind it.                                 *)
LEMMA HangUpKeepsContent ==
    ASSUME StreamInv, StreamTypeOK', WaitStops \/ SendFails \/ SendKills \/ Listen \/ ListenFails \/ StopListening
    PROVE  ContentInv'
<1>1. link' # "up"
  BY DEF WaitStops, SendFails, HangUp, SendKills, Listen, ListenFails, StopListening, connection,
         StreamInv, SendInv
<1>2. UNCHANGED <<buffer, wire, received, generation>>
  BY DEF WaitStops, SendFails, HangUp, SendKills, Listen, ListenFails, StopListening, connection,
         studio
<1>3. generation <= generation'
  BY <1>2 DEF StreamInv, StreamTypeOK
<1>4. QED  BY <1>1, <1>2, <1>3, ContentOfDownKept

-----------------------------------------------------------------------------
(* Studio's client.                                                        *)

(* What ReadPackets does to the pieces that are on the way.                *)
LEMMA ReadIsSuffix ==
    ASSUME StreamInv, NEW n \in 1 .. Len(wire),
           buffer' = SubSeq(buffer \o SubSeq(wire, 1, n), Whole(buffer \o SubSeq(wire, 1, n)) + 1,
                            Len(buffer \o SubSeq(wire, 1, n))),
           wire' = SubSeq(wire, n + 1, Len(wire)),
           Unsent' = Unsent
    PROVE  LET arrived == buffer \o SubSeq(wire, 1, n)
               whole == Whole(arrived)
           IN  /\ whole \in 0 .. Len(Stream)
               /\ Stream' = SubSeq(Stream, whole + 1, Len(Stream))
               /\ whole > 0 => arrived[whole] = Stream[whole]
               /\ \E q \in Nat : whole = q * Chunks
<1> DEFINE front == SubSeq(wire, 1, n)
           back == SubSeq(wire, n + 1, Len(wire))
           arrived == buffer \o front
           whole == Whole(arrived)
           rest == SubSeq(arrived, whole + 1, Len(arrived))
           behind == back \o Unsent
<1>1. buffer \in Seq(Piece) /\ wire \in Seq(Piece) /\ Unsent \in Seq(Piece)
  BY UnsentPieces DEF StreamInv, StreamTypeOK
<1>2. front \in Seq(Piece) /\ back \in Seq(Piece) /\ wire = front \o back
  <2>1. front \in Seq(Piece) /\ back \in Seq(Piece)
    BY <1>1, SubSeqProperties
  <2>2. 1 \in 1 .. Len(wire) + 1 /\ n \in 0 .. Len(wire) /\ Len(wire) \in n .. Len(wire)
    BY <1>1
  <2>3. front \o back = SubSeq(wire, 1, Len(wire))
    BY <1>1, <2>2, ConcatAdjacentSubSeq
  <2>4. QED  BY <1>1, <2>1, <2>3, SubSeqFull
<1> HIDE DEF front, back
<1>3. arrived \in Seq(Piece) /\ behind \in Seq(Piece) /\ Stream = arrived \o behind
  <2>1. arrived \in Seq(Piece) /\ behind \in Seq(Piece)
    BY <1>1, <1>2, ConcatProperties
  <2>2. buffer \o (front \o back) = arrived \o back
    <3>1. Regroups(buffer, front, back)
      BY <1>1, <1>2, PiecesRegroup
    <3>2. QED  BY <3>1 DEF Regroups
  <2>3. Stream = (arrived \o back) \o Unsent
    BY <1>2, <2>2 DEF Stream
  <2> HIDE DEF arrived
  <2>4. (arrived \o back) \o Unsent = arrived \o (back \o Unsent)
    <3>1. arrived \in Seq(Piece) /\ back \in Seq(Piece) /\ Unsent \in Seq(Piece)
      BY <1>1, <1>2, <2>1
    <3>2. QED  BY <3>1, ThreeParts
  <2>5. QED  BY <2>1, <2>3, <2>4
<1> HIDE DEF arrived, behind
<1>4. /\ whole \in 0 .. Len(arrived) /\ \E q \in Nat : whole = q * Chunks
  <2> DEFINE q == Len(arrived) \div Chunks
             r == Len(arrived) % Chunks
  <2>1. Len(arrived) = q * Chunks + r /\ q \in Nat /\ r \in 0 .. Chunks - 1
    <3>1. Len(arrived) \in Nat /\ Chunks \in Nat \ {0}
      BY <1>3, StreamAssumption
    <3>2. QED  BY <3>1, DivMod
  <2> HIDE DEF q, r
  <2>2. q * Chunks \in 0 .. Len(arrived)
    BY <2>1, StreamAssumption
  <2>3. QED  BY <2>1, <2>2 DEF Whole, q
<1> HIDE DEF whole
<1>5. rest \in Seq(Piece) /\ Len(rest) = Len(arrived) - whole
      /\ \A i \in 1 .. Len(arrived) - whole : rest[i] = arrived[whole + i]
  BY <1>3, <1>4, RestProperties
<1> HIDE DEF rest
<1>6. Stream' = rest \o behind
  <2>1. buffer' = rest /\ wire' = back
    BY DEF rest, whole, arrived, front, back
  <2>2. Stream' = (rest \o back) \o Unsent
    BY <2>1 DEF Stream
  <2>3. (rest \o back) \o Unsent = rest \o (back \o Unsent)
    <3>1. rest \in Seq(Piece) /\ back \in Seq(Piece) /\ Unsent \in Seq(Piece)
      BY <1>1, <1>2, <1>5
    <3>2. QED  BY <3>1, ThreeParts
  <2>4. QED  BY <2>2, <2>3 DEF behind
<1>7. /\ Len(Stream) = Len(arrived) + Len(behind) /\ whole \in 0 .. Len(Stream)
      /\ Stream \in Seq(Piece)
      /\ Len(arrived) \in Nat /\ Len(behind) \in Nat /\ whole \in Nat
  BY <1>3, <1>4, ConcatProperties
<1>8. whole > 0 => arrived[whole] = Stream[whole]
  <2>1. \A i \in 1 .. Len(arrived) : Stream[i] = arrived[i]
    BY <1>3, ConcatProperties
  <2>2. QED  BY <1>3, <1>4, <2>1
<1>9. Stream' = SubSeq(Stream, whole + 1, Len(Stream))
  <2> DEFINE tail == SubSeq(Stream, whole + 1, Len(Stream))
  <2>1. tail \in Seq(Piece) /\ Len(tail) = Len(Stream) - whole
        /\ \A i \in 1 .. Len(Stream) - whole : tail[i] = Stream[whole + i]
    BY <1>7, RestProperties
  <2>2. /\ Stream' \in Seq(Piece) /\ Len(Stream') = Len(rest) + Len(behind)
        /\ \A i \in 1 .. Len(rest) + Len(behind) :
              Stream'[i] = IF i <= Len(rest) THEN rest[i] ELSE behind[i - Len(rest)]
    BY <1>3, <1>5, <1>6, ConcatProperties
  <2>3. \A i \in 1 .. Len(arrived) + Len(behind) :
            Stream[i] = IF i <= Len(arrived) THEN arrived[i] ELSE behind[i - Len(arrived)]
    BY <1>3, ConcatProperties
  <2>4. /\ whole \in Nat /\ Len(arrived) \in Nat /\ Len(behind) \in Nat /\ whole <= Len(arrived)
        /\ Len(rest) = Len(arrived) - whole /\ Len(Stream) = Len(arrived) + Len(behind)
    BY <1>4, <1>5, <1>7
  <2> HIDE DEF tail
  <2>5. Len(Stream') = Len(tail) /\ Len(tail) = (Len(arrived) - whole) + Len(behind)
    BY <2>1, <2>2, <2>4
  <2>6. ASSUME NEW i \in 1 .. Len(tail) PROVE Stream'[i] = tail[i]
    <3> DEFINE j == whole + i
    <3>1. i \in 1 .. Len(Stream) - whole /\ i \in 1 .. Len(rest) + Len(behind)
          /\ j \in 1 .. Len(arrived) + Len(behind)
      BY <2>4, <2>5
    <3>2. tail[i] = Stream[j]
      BY <2>1, <3>1
    <3>3. CASE i <= Len(rest)
      <4>1. Stream'[i] = rest[i]
        BY <2>2, <3>1, <3>3
      <4>2. i \in 1 .. Len(arrived) - whole /\ j <= Len(arrived)
        BY <2>4, <3>1, <3>3
      <4>3. rest[i] = arrived[j]
        BY <1>5, <4>2
      <4> HIDE DEF j
      <4>4. Stream[j] = arrived[j]
        BY <2>3, <3>1, <4>2
      <4>5. QED  BY <3>2, <4>1, <4>3, <4>4
    <3>4. CASE ~(i <= Len(rest))
      <4>1. Stream'[i] = behind[i - Len(rest)]
        BY <2>2, <3>1, <3>4
      <4>2. ~(j <= Len(arrived)) /\ j - Len(arrived) = i - Len(rest)
        BY <2>4, <3>1, <3>4
      <4> HIDE DEF j
      <4>3. Stream[j] = behind[j - Len(arrived)]
        BY <2>3, <3>1, <4>2
      <4>4. QED  BY <3>2, <4>1, <4>2, <4>3
    <3>5. QED  BY <3>3, <3>4
  <2>7. QED  BY <2>1, <2>2, <2>5, <2>6, SeqEqual DEF tail
<1>10. QED  BY <1>4, <1>7, <1>8, <1>9 DEF whole, arrived, front

(* Studio decodes whole packets, and what it shows does not go back.       *)
LEMMA ReadKeepsContent ==
    ASSUME StreamInv, StreamTypeOK', ReadPackets
    PROVE  ContentInv' /\ received <= received' /\ received' <= generation
<1>1. PICK n \in 1 .. Len(wire) :
        LET arrived == buffer \o SubSeq(wire, 1, n)
            whole == Whole(arrived)
        IN  /\ received' = IF whole > 0 THEN arrived[whole][1] ELSE received
            /\ buffer' = SubSeq(arrived, whole + 1, Len(arrived))
            /\ wire' = SubSeq(wire, n + 1, Len(wire))
  BY DEF ReadPackets
<1> DEFINE arrived == buffer \o SubSeq(wire, 1, n)
           k == Whole(arrived)
<1>2. UNCHANGED <<generation, thread, delivered, packet, sent, link>>
  BY DEF ReadPackets, sendVars
<1>3. Unsent' = Unsent
  BY <1>2 DEF Unsent
<1>4. /\ k \in 0 .. Len(Stream)
      /\ Stream' = SubSeq(Stream, k + 1, Len(Stream))
      /\ k > 0 => arrived[k] = Stream[k]
      /\ \E q \in Nat : k = q * Chunks
  BY <1>1, <1>3, ReadIsSuffix
<1>5. received' = IF k > 0 THEN arrived[k][1] ELSE received
  BY <1>1
<1> HIDE DEF arrived, k
<1>6. received' = IF k > 0 THEN Stream[k][1] ELSE received
  BY <1>4, <1>5
<1>7. /\ Stream \in Seq(Piece) /\ Framed(Stream, received, Newest)
      /\ Newest \in Nat /\ Newest <= generation /\ received \in Nat /\ received <= generation
      /\ generation \in Nat
  BY StreamType DEF StreamInv, ContentInv, StreamTypeOK, SendInv, Newest
<1>8. PICK q \in Nat : k = q * Chunks
  BY <1>4
<1>9. Newest' = Newest
  BY <1>2 DEF Newest
<1>10. Framed(Stream', received', Newest')
  <2>1. q * Chunks <= Len(Stream)
    BY <1>4, <1>7, <1>8
  <2>2. LET oldest == IF q * Chunks > 0 THEN Stream[q * Chunks][1] ELSE received
        IN  Framed(SubSeq(Stream, q * Chunks + 1, Len(Stream)), oldest, Newest)
    BY <1>7, <2>1, FramedSuffix
  <2>3. QED  BY <1>4, <1>6, <1>8, <1>9, <2>2
<1>11. link' = "up" => Len(Stream') % Chunks = 0
  <2> SUFFICES ASSUME link = "up" PROVE Len(Stream') % Chunks = 0
    BY <1>2
  <2>1. Len(Stream) % Chunks = 0 /\ Chunks \in Nat \ {0} /\ Len(Stream) \in Nat
    BY <1>7, StreamAssumption DEF StreamInv, ContentInv
  <2> DEFINE n1 == Len(Stream)
             n2 == Len(Stream')
  <2>2. n2 = n1 - k
    BY <1>4, <1>7, RestProperties
  <2> HIDE DEF n1, n2
  <2>3. n2 \in Nat /\ n1 = k + n2
    <3>1. n1 \in Nat /\ k \in 0 .. n1
      BY <1>4, <2>1 DEF n1
    <3>2. QED  BY <2>2, <3>1
  <2> USE DEF n1, n2
  <2>4. (q * Chunks + Len(Stream')) % Chunks = Len(Stream') % Chunks
    BY <2>1, <2>3, ModShift
  <2>5. QED  BY <1>8, <2>1, <2>3, <2>4
<1>12. received <= received' /\ received' <= generation
  <2>1. CASE k > 0
    <3>1. k \in 1 .. Len(Stream)
      BY <1>4, <1>7, <2>1
    <3>2. Stream[k] \in Piece
      BY <1>7, <3>1
    <3>3. Stream[k][1] \in Nat
      BY <3>2 DEF Piece
    <3>4. received <= Stream[k][1] /\ Stream[k][1] <= Newest
      BY <1>7, <3>1 DEF Framed, Between
    <3>5. QED  BY <1>6, <1>7, <2>1, <3>3, <3>4
  <2>2. CASE ~(k > 0)
    BY <1>6, <1>7, <2>2
  <2>3. QED  BY <2>1, <2>2
<1>13. QED  BY <1>10, <1>11, <1>12 DEF ContentInv

(* No step of Studio breaks the order of the pieces.                       *)
LEMMA ClientKeepsContent ==
    ASSUME StreamInv, StreamTypeOK', UserAsks \/ ClientStep
    PROVE  ContentInv'
<1>1. generation' = generation /\ generation \in Nat
  BY DEF UserAsks, ClientStep, Connect, Disconnect, StreamConnected, ConnectFails, Reconnect,
         ReadPackets, FailProtocol, ConnectionLost, StreamInv, StreamTypeOK
<1>2. CASE Connect
  <2>1. streamSocket # "connected"
    BY <1>2 DEF Connect, StreamInv, LinkInv
  <2>2. wire = <<>> /\ link # "up"
    BY <2>1 DEF StreamInv, LinkInv, NothingOnTheWay
  <2>3. buffer' = <<>> /\ wire' = <<>> /\ link' # "up"
    BY <1>2, <2>2 DEF Connect, connection
  <2>4. QED  BY <2>3, ContentForgotten
<1>3. CASE Disconnect \/ FailProtocol \/ ConnectionLost
  <2>1. buffer' = <<>>
    BY <1>3 DEF Disconnect, FailProtocol, ConnectionLost
  <2>2. wire' = <<>> /\ link' # "up"
    BY <1>3 DEF Disconnect, FailProtocol, ConnectionLost, Abandon
  <2>3. QED  BY <2>1, <2>2, ContentForgotten
<1>4. CASE StreamConnected \/ ConnectFails \/ Reconnect
  <2>1. UNCHANGED <<thread, sendVars, link, wire, buffer, received>>
    BY <1>4 DEF StreamConnected, ConnectFails, Reconnect, connection
  <2>2. generation <= generation'
    BY <1>1
  <2>3. QED  BY <2>1, <2>2, ContentKept
<1>5. CASE ReadPackets
  BY <1>5, ReadKeepsContent
<1>6. QED  BY <1>2, <1>3, <1>4, <1>5 DEF UserAsks, ClientStep

-----------------------------------------------------------------------------
(* Types, the sender and the connections.                                  *)

(* When Studio leaves, no connection is up.                                *)
LEMMA AbandonType ==
    ASSUME StreamTypeOK, NEW how \in Looks \ {"up"}, Abandon(how)
    PROVE  /\ link' \in (Looks \cup {"none"}) \ {"up"}
           /\ pending' \in Seq(Looks) /\ Len(pending') = Len(pending)
           /\ \A i \in 1 .. Len(pending') : pending'[i] # "up"
           /\ wire' = <<>> /\ ending' = FALSE
           /\ link' = "none" <=> link = "none"
<1>1. pending \in Seq(Looks) /\ link \in Looks \cup {"none"}
  BY DEF StreamTypeOK
<1>2. \A i \in 1 .. Len(pending) : (IF pending[i] = "up" THEN how ELSE pending[i]) \in Looks \ {"up"}
  BY <1>1
<1>3. /\ pending' \in Seq(Looks) /\ Len(pending') = Len(pending)
      /\ \A i \in 1 .. Len(pending) : pending'[i] = IF pending[i] = "up" THEN how ELSE pending[i]
  BY <1>1, <1>2 DEF Abandon
<1>4. "none" \notin Looks
  BY DEF Looks
<1>5. QED  BY <1>1, <1>2, <1>3, <1>4 DEF Abandon

(* Steps of the owner.                                                     *)
LEMMA OwnerKeepsType ==
    ASSUME StreamInv, OwnerAsks \/ OwnerContinues
    PROVE  StreamTypeOK' /\ SendInv' /\ LinkInv'
<1> USE DEF OwnerAsks, OwnerContinues, Publish, Start, Stop, StartReturns, StartThrows,
            StartTimesOut, StopReturns, ownerVars, sendVars, connection, studio
<1>1. StreamTypeOK'
  <2>1. UNCHANGED <<sendVars, connection, studio, faults>>
    OBVIOUS
  <2>2. generation' \in Nat
    BY DEF StreamInv, StreamTypeOK
  <2>3. /\ serverOwner' \in {"idle", "startup", "running", "join", "down"}
        /\ serverStop' \in BOOLEAN
        /\ startup' \in {"unknown", "listening", "failed"}
        /\ thread' \in {"none", "bind", "accept", "wait", "send", "done", "killed"}
    BY DEF StreamInv, StreamTypeOK
  <2>4. QED  BY <2>1, <2>2, <2>3 DEF StreamInv, StreamTypeOK
<1>2. SendInv'
  BY DEF StreamInv, StreamTypeOK, SendInv
<1>3. LinkInv'
  BY DEF StreamInv, LinkInv, NothingOnTheWay, NoneWaits
<1>4. QED  BY <1>1, <1>2, <1>3

(* Steps of the server's thread.                                           *)
LEMMA ThreadKeepsType ==
    ASSUME StreamInv, ThreadStep
    PROVE  StreamTypeOK' /\ SendInv' /\ LinkInv'
<1> USE DEF ownerVars, sendVars, connection, studio
<1>1. pending \in Seq(Looks) /\ wire \in Seq(Piece) /\ link \in Looks \cup {"none"}
      /\ "up" \in Looks /\ "fin" \in Looks /\ "broken" \in Looks /\ "none" \notin Looks
  BY DEF StreamInv, StreamTypeOK, Looks
<1>2. CASE Listen \/ ListenFails
  BY <1>2 DEF Listen, ListenFails, StreamInv, StreamTypeOK, SendInv, LinkInv, NothingOnTheWay, NoneWaits
<1>3. CASE AcceptStream
  <2>1. /\ Head(pending) = pending[1] /\ pending[1] \in Looks /\ 1 \in 1 .. Len(pending)
        /\ Tail(pending) \in Seq(Looks) /\ Len(Tail(pending)) = Len(pending) - 1
        /\ \A i \in 1 .. Len(Tail(pending)) : Tail(pending)[i] = pending[i + 1] /\ i + 1 \in 1 .. Len(pending)
    BY <1>1, <1>3, HeadTailProperties DEF AcceptStream
  <2>2. StreamTypeOK'
    BY <1>1, <1>3, <2>1, StreamAssumption DEF AcceptStream, StreamInv, StreamTypeOK
  <2>3. SendInv'
    BY <1>1, <1>3, <2>1 DEF AcceptStream, StreamInv, StreamTypeOK, SendInv
  <2>4. LinkInv'
    <3>1. link' = pending[1] /\ Len(pending') = Len(pending) - 1
          /\ \A i \in 1 .. Len(pending') : pending'[i] = pending[i + 1] /\ i + 1 \in 1 .. Len(pending)
      BY <1>3, <2>1 DEF AcceptStream
    <3>2. UNCHANGED <<desired, streamSocket, buffer, wire>>
      BY <1>3 DEF AcceptStream
    <3>3. Len(pending) \in Nat
      BY <1>1
    <3>4. LinkInv
      BY DEF StreamInv
    <3>5. QED  BY <2>1, <3>1, <3>2, <3>3, <3>4 DEF LinkInv, NothingOnTheWay, NoneWaits
  <2>5. QED  BY <2>2, <2>3, <2>4
<1>4. CASE StopListening \/ SendKills
  <2>1. /\ pending' = <<>> /\ ending' \in BOOLEAN
        /\ UNCHANGED <<generation, ownerVars, sendVars, wire, studio, faults>>
        /\ link' = "none" /\ thread' \in {"done", "killed"}
    BY <1>4 DEF StopListening, SendKills, StreamInv, StreamTypeOK, SendInv
  <2>2. pending' \in Seq(Looks) /\ Len(pending') = 0
    BY <2>1
  <2>3. StreamTypeOK'
    BY <2>1, <2>2, StreamAssumption DEF StreamInv, StreamTypeOK
  <2>4. SendInv'
    BY <1>4, <2>1 DEF StopListening, SendKills, StreamInv, StreamTypeOK, SendInv
  <2>5. LinkInv'
    BY <2>1, <2>2 DEF StreamInv, LinkInv, NothingOnTheWay, NoneWaits
  <2>6. QED  BY <2>3, <2>4, <2>5
<1>5. CASE TakeLatest
  BY <1>5, StreamAssumption DEF TakeLatest, StreamInv, StreamTypeOK, SendInv, LinkInv, NothingOnTheWay, NoneWaits
<1>6. CASE WaitStops \/ SendFails
  BY <1>6 DEF WaitStops, SendFails, HangUp, StreamInv, StreamTypeOK, SendInv, LinkInv, NothingOnTheWay, NoneWaits
<1>7. CASE SendChunk
  <2>1. wire' \in Seq(Piece) /\ Len(wire') <= WireCapacity
    <3>1. CASE wire' = wire
      BY <3>1 DEF StreamInv, StreamTypeOK
    <3>2. CASE wire' = Append(wire, <<packet, sent + 1>>) /\ Len(wire) < WireCapacity
      <4>1. <<packet, sent + 1>> \in Piece
        BY <1>7, StreamAssumption DEF SendChunk, StreamInv, StreamTypeOK, SendInv, Piece
      <4>2. QED  BY <1>1, <3>2, <4>1, StreamAssumption, AppendProperties
    <3>3. QED  BY <1>7, <3>1, <3>2 DEF SendChunk
  <2>2. link' \in Looks /\ (link' = "up" <=> link = "up") /\ (wire' # wire => link = "up")
    BY <1>1, <1>7 DEF SendChunk
  <2>3. StreamTypeOK'
    BY <1>7, <2>1, <2>2 DEF SendChunk, StreamInv, StreamTypeOK
  <2>4. SendInv'
    BY <1>1, <1>7, <2>2, StreamAssumption DEF SendChunk, StreamInv, StreamTypeOK, SendInv
  <2>5. LinkInv'
    BY <1>7, <2>2 DEF SendChunk, StreamInv, LinkInv, NothingOnTheWay, NoneWaits
  <2>6. QED  BY <2>3, <2>4, <2>5
<1>8. QED  BY <1>2, <1>3, <1>4, <1>5, <1>6, <1>7 DEF ThreadStep

(* Steps in which Studio leaves its connection.                            *)
LEMMA LeavingKeepsType ==
    ASSUME StreamInv, NEW how \in Looks \ {"up"}, Abandon(how),
           streamSocket' = "unconnected", buffer' = <<>>,
           UNCHANGED <<generation, ownerVars, thread, sendVars, received>>,
           desired' \in BOOLEAN, reconnectTimer' \in BOOLEAN, faults' \in Nat
    PROVE  StreamTypeOK' /\ SendInv' /\ LinkInv'
<1>1. /\ link' \in (Looks \cup {"none"}) \ {"up"}
      /\ pending' \in Seq(Looks) /\ Len(pending') = Len(pending)
      /\ \A i \in 1 .. Len(pending') : pending'[i] # "up"
      /\ wire' = <<>> /\ ending' = FALSE
      /\ link' = "none" <=> link = "none"
  BY AbandonType DEF StreamInv
<1>2. <<>> \in Seq(Piece) /\ Len(<<>>) = 0 /\ WireCapacity \in Nat
  BY StreamAssumption
<1>3. StreamTypeOK'
  <2>1. wire' \in Seq(Piece) /\ Len(wire') <= WireCapacity /\ buffer' \in Seq(Piece)
    BY <1>1, <1>2
  <2>2. link' \in Looks \cup {"none"} /\ ending' \in BOOLEAN
        /\ pending' \in Seq(Looks) /\ Len(pending') <= StreamBacklog
    BY <1>1 DEF StreamInv, StreamTypeOK
  <2>3. streamSocket' \in {"unconnected", "connecting", "connected"}
    OBVIOUS
  <2>4. QED  BY <2>1, <2>2, <2>3 DEF StreamInv, StreamTypeOK, ownerVars, sendVars
<1>4. SendInv'
  BY <1>1 DEF StreamInv, SendInv, ownerVars, sendVars
<1>5. LinkInv'
  BY <1>1 DEF LinkInv, NothingOnTheWay, NoneWaits
<1>6. QED  BY <1>3, <1>4, <1>5

(* Steps of Studio.                                                        *)
LEMMA ClientKeepsType ==
    ASSUME StreamInv, UserAsks \/ ClientStep
    PROVE  StreamTypeOK' /\ SendInv' /\ LinkInv'
<1>1. desired \in BOOLEAN /\ reconnectTimer \in BOOLEAN /\ faults \in Nat
      /\ {"fin", "reset", "silent"} \subseteq Looks \ {"up"}
  BY DEF StreamInv, StreamTypeOK, Looks
<1>2. CASE Connect
  <2>1. /\ ~desired \/ streamSocket = "unconnected"
        /\ desired' = TRUE /\ reconnectTimer' = FALSE /\ buffer' = <<>>
        /\ streamSocket' = "connecting"
        /\ UNCHANGED <<generation, ownerVars, thread, sendVars, connection, received, faults>>
    BY <1>2 DEF Connect
  <2>2. StreamTypeOK'
    <3>1. StreamTypeOK /\ <<>> \in Seq(Piece)
      BY DEF StreamInv
    <3>2. QED  BY <2>1, <3>1 DEF StreamTypeOK, ownerVars, sendVars, connection
  <2>3. SendInv'
    BY <2>1 DEF StreamInv, SendInv, ownerVars, sendVars, connection
  <2>4. NothingOnTheWay /\ link # "up" /\ NoneWaits
    BY <2>1 DEF StreamInv, LinkInv
  <2>5. NothingOnTheWay' /\ link' # "up" /\ NoneWaits'
    BY <2>1, <2>4 DEF NothingOnTheWay, NoneWaits, connection
  <2>6. LinkInv'
    BY <2>1, <2>5 DEF LinkInv, NoneWaits
  <2>7. QED  BY <2>2, <2>3, <2>6
<1>3. CASE Disconnect
  <2>1. PICK how \in {"fin", "reset"} : Abandon(how)
    BY <1>3 DEF Disconnect
  <2>2. QED  BY <1>1, <1>3, <2>1, LeavingKeepsType DEF Disconnect
<1>4. CASE FailProtocol
  <2>1. PICK how \in {"fin", "reset"} : Abandon(how)
    BY <1>4 DEF FailProtocol
  <2>2. faults' \in Nat
    BY <1>1, <1>4 DEF FailProtocol
  <2>3. QED  BY <1>1, <1>4, <2>1, <2>2, LeavingKeepsType DEF FailProtocol
<1>5. CASE ConnectionLost
  <2>1. PICK how \in {"fin", "silent"} : Abandon(how)
    BY <1>5 DEF ConnectionLost
  <2>2. faults' \in Nat
    BY <1>1, <1>5 DEF ConnectionLost
  <2>3. QED  BY <1>1, <1>5, <2>1, <2>2, LeavingKeepsType DEF ConnectionLost
<1>6. CASE StreamConnected
  <2>1. pending' = Append(pending, "up") /\ pending \in Seq(Looks) /\ "up" \in Looks
        /\ Len(pending) < StreamBacklog /\ streamSocket = "connecting" /\ streamSocket' = "connected"
    BY <1>6 DEF StreamConnected, StreamInv, StreamTypeOK, Looks
  <2>2. /\ pending' \in Seq(Looks) /\ Len(pending') = Len(pending) + 1 /\ Len(pending) \in Nat
        /\ \A i \in 1 .. Len(pending) : pending'[i] = pending[i]
    BY <2>1, AppendProperties
  <2>3. StreamTypeOK'
    BY <1>6, <2>1, <2>2, StreamAssumption DEF StreamConnected, StreamInv, StreamTypeOK, ownerVars, sendVars
  <2>4. SendInv'
    BY <1>6 DEF StreamConnected, StreamInv, SendInv, ownerVars, sendVars
  <2>5. UNCHANGED <<buffer, wire, link, desired>>
    BY <1>6 DEF StreamConnected
  <2>6. NothingOnTheWay /\ link # "up" /\ NoneWaits /\ desired
    BY <2>1 DEF StreamInv, LinkInv
  <2>7. LinkInv'
    BY <2>1, <2>2, <2>5, <2>6 DEF LinkInv, NothingOnTheWay, NoneWaits
  <2>8. QED  BY <2>3, <2>4, <2>7
<1>7. CASE ConnectFails \/ Reconnect
  <2>1. /\ UNCHANGED <<generation, ownerVars, thread, sendVars, connection, desired, buffer, received>>
        /\ streamSocket' = "connected" <=> streamSocket = "connected"
        /\ streamSocket' \in {"unconnected", "connecting", "connected"}
        /\ reconnectTimer' \in BOOLEAN /\ faults' \in Nat
        /\ ~desired => streamSocket' = "unconnected"
    <3>1. streamSocket \in {"unconnected", "connecting", "connected"}
          /\ (~desired => streamSocket = "unconnected")
      BY DEF StreamInv, StreamTypeOK, LinkInv
    <3>2. CASE ConnectFails
      BY <1>1, <3>1, <3>2 DEF ConnectFails
    <3>3. CASE Reconnect
      BY <1>1, <3>1, <3>3 DEF Reconnect
    <3>4. QED  BY <1>7, <3>2, <3>3
  <2>2. StreamTypeOK'
    BY <2>1 DEF StreamInv, StreamTypeOK, ownerVars, sendVars, connection
  <2>3. SendInv'
    BY <2>1 DEF StreamInv, SendInv, ownerVars, sendVars, connection
  <2>4. LinkInv'
    BY <2>1 DEF StreamInv, LinkInv, NothingOnTheWay, NoneWaits, connection
  <2>5. QED  BY <2>2, <2>3, <2>4
<1>8. CASE ReadPackets
  <2>1. PICK n \in 1 .. Len(wire) :
        LET arrived == buffer \o SubSeq(wire, 1, n)
            whole == Whole(arrived)
        IN  /\ received' = IF whole > 0 THEN arrived[whole][1] ELSE received
            /\ buffer' = SubSeq(arrived, whole + 1, Len(arrived))
            /\ wire' = SubSeq(wire, n + 1, Len(wire))
    BY <1>8 DEF ReadPackets
  <2> DEFINE arrived == buffer \o SubSeq(wire, 1, n)
             k == Whole(arrived)
  <2>2. wire \in Seq(Piece) /\ buffer \in Seq(Piece) /\ arrived \in Seq(Piece)
    <3>1. wire \in Seq(Piece) /\ buffer \in Seq(Piece)
      BY DEF StreamInv, StreamTypeOK
    <3>2. SubSeq(wire, 1, n) \in Seq(Piece)
      BY <3>1
    <3>3. QED  BY <3>1, <3>2, ConcatProperties
  <2> HIDE DEF arrived
  <2>3. k \in 0 .. Len(arrived)
    <3>1. Len(arrived) \in Nat /\ Chunks \in Nat \ {0}
      BY <2>2, StreamAssumption
    <3> DEFINE q == Len(arrived) \div Chunks
               r == Len(arrived) % Chunks
    <3>2. Len(arrived) = q * Chunks + r /\ q \in Nat /\ r \in 0 .. Chunks - 1
      BY <3>1, DivMod
    <3> HIDE DEF q, r
    <3>3. k = q * Chunks /\ q * Chunks \in Nat
      BY <3>1, <3>2 DEF Whole, q
    <3> HIDE DEF k
    <3>4. QED  BY <3>1, <3>2, <3>3
  <2> HIDE DEF k
  <2>4. buffer' \in Seq(Piece) /\ wire' \in Seq(Piece) /\ Len(wire') = Len(wire) - n
    <3>1. buffer' = SubSeq(arrived, k + 1, Len(arrived)) /\ wire' = SubSeq(wire, n + 1, Len(wire))
      BY <2>1 DEF k, arrived
    <3>2. n \in 0 .. Len(wire)
      OBVIOUS
    <3>3. QED  BY <2>2, <2>3, <3>1, <3>2, RestProperties
  <2>5. received' \in Nat
    <3>1. CASE k > 0
      <4>1. k \in 1 .. Len(arrived)
        BY <2>3, <3>1
      <4>2. arrived[k] \in Piece
        BY <2>2, <4>1
      <4>3. arrived[k][1] \in Nat
        BY <4>2 DEF Piece
      <4>4. QED  BY <2>1, <3>1, <4>3 DEF k, arrived
    <3>2. CASE ~(k > 0)
      BY <2>1, <3>2 DEF k, arrived, StreamInv, StreamTypeOK
    <3>3. QED  BY <3>1, <3>2
  <2>6. StreamTypeOK'
    <3>1. Len(wire') <= WireCapacity
      BY <2>2, <2>4, StreamAssumption DEF StreamInv, StreamTypeOK
    <3>2. UNCHANGED <<generation, ownerVars, thread, sendVars, link, pending, ending, desired,
                      streamSocket, reconnectTimer, faults>>
      BY <1>8 DEF ReadPackets
    <3>3. StreamTypeOK
      BY DEF StreamInv
    <3>4. QED  BY <2>4, <2>5, <3>1, <3>2, <3>3 DEF StreamTypeOK, ownerVars, sendVars
  <2>7. received' <= generation
    BY <1>8, <2>6, ReadKeepsContent
  <2>8. SendInv'
    BY <1>8, <2>7 DEF ReadPackets, StreamInv, SendInv, ownerVars, sendVars
  <2>9. LinkInv'
    <3>1. streamSocket = "connected" /\ wire # <<>>
      BY <1>8, <2>2 DEF ReadPackets
    <3>2. NoneWaits
      BY <3>1 DEF StreamInv, LinkInv, NothingOnTheWay, NoneWaits
    <3>3. UNCHANGED <<streamSocket, pending, desired, link>>
      BY <1>8 DEF ReadPackets
    <3>4. QED  BY <3>1, <3>2, <3>3 DEF StreamInv, LinkInv, NothingOnTheWay, NoneWaits
  <2>10. QED  BY <2>6, <2>8, <2>9
<1>9. QED  BY <1>2, <1>3, <1>4, <1>5, <1>6, <1>7, <1>8 DEF UserAsks, ClientStep

-----------------------------------------------------------------------------
(* The theorems.                                                           *)

(* Nothing was sent, and there is no connection.                           *)
LEMMA StreamInitially == StreamInit => StreamInv
<1> SUFFICES ASSUME StreamInit PROVE StreamInv
  OBVIOUS
<1>1. /\ pending = <<>> /\ pending \in Seq(Looks) /\ Len(pending) = 0
      /\ wire = <<>> /\ wire \in Seq(Piece) /\ Len(wire) = 0
      /\ buffer = <<>> /\ buffer \in Seq(Piece)
  BY DEF StreamInit
<1>2. StreamTypeOK
  <2>1. Len(pending) <= StreamBacklog /\ Len(wire) <= WireCapacity
    BY <1>1, StreamAssumption
  <2>2. QED  BY <1>1, <2>1 DEF StreamInit, StreamTypeOK
<1>3. SendInv /\ LinkInv
  BY <1>1 DEF StreamInit, SendInv, LinkInv, NothingOnTheWay, NoneWaits
<1>4. Stream = <<>> /\ link # "up"
  BY <1>1 DEF StreamInit, Stream, Unsent
<1>5. ContentInv
  BY <1>4, NothingFramed DEF ContentInv
<1>6. QED  BY <1>2, <1>3, <1>5 DEF StreamInv

(* Every step keeps the invariant.                                         *)
LEMMA StreamStep == StreamInv /\ [StreamNext]_streamVars => StreamInv'
<1> SUFFICES ASSUME StreamInv, [StreamNext]_streamVars PROVE StreamInv'
  OBVIOUS
<1>1. CASE OwnerAsks \/ OwnerContinues
  BY <1>1, OwnerKeepsType, OwnerKeepsContent DEF StreamInv
<1>2. CASE ThreadStep
  <2>1. StreamTypeOK' /\ SendInv' /\ LinkInv'
    BY <1>2, ThreadKeepsType
  <2>2. ContentInv'
    BY <1>2, <2>1, AcceptKeepsContent, TakeKeepsContent, SendKeepsContent, HangUpKeepsContent
       DEF ThreadStep
  <2>3. QED  BY <2>1, <2>2 DEF StreamInv
<1>3. CASE UserAsks \/ ClientStep
  BY <1>3, ClientKeepsType, ClientKeepsContent DEF StreamInv
<1>4. CASE UNCHANGED streamVars
  <2>1. Stream' = Stream /\ Newest' = Newest
    BY <1>4 DEF streamVars, connection, studio, sendVars, Stream, Unsent, Newest
  <2>2. ContentInv'
    BY <1>4, <2>1 DEF StreamInv, ContentInv, streamVars, connection, studio
  <2>3. StreamTypeOK' /\ SendInv' /\ LinkInv'
    BY <1>4 DEF StreamInv, StreamTypeOK, SendInv, LinkInv, NothingOnTheWay, NoneWaits,
                streamVars, ownerVars, sendVars, connection, studio
  <2>4. QED  BY <2>2, <2>3 DEF StreamInv
<1>5. QED  BY <1>1, <1>2, <1>3, <1>4 DEF StreamNext

(* The inductive invariant of the stream of results: what is on its way    *)
(* to Studio is framed, for every number and size of packets, every        *)
(* capacity of the wire and every history of connections.                  *)
THEOREM StreamInvariant == StreamSpec => []StreamInv
BY StreamInitially, StreamStep, PTL DEF StreamSpec

(* Studio never takes the bytes of one packet for another's, and never     *)
(* meets a packet older than the result it shows.                          *)
THEOREM StreamIsFramed == StreamSpec => []FramingHolds
<1>1. StreamInv => FramingHolds
  BY DEF StreamInv, ContentInv, Framed, InOrder, Between, FramingHolds
<1>2. QED  BY <1>1, StreamInvariant, PTL

(* Across all reconnections results reach Studio in the order in which     *)
(* they were published.                                                    *)
THEOREM ResultsNeverGoBack == StreamSpec => ResultsMoveOn
<1>1. StreamInv /\ StreamInv' /\ [StreamNext]_streamVars => [received' >= received]_received
  <2> SUFFICES ASSUME StreamInv, StreamInv', StreamNext, received' # received
               PROVE  received' >= received
    BY DEF streamVars, studio
  <2>1. ReadPackets
    BY DEF StreamNext, OwnerAsks, OwnerContinues, ThreadStep, UserAsks, ClientStep,
           Publish, Start, Stop, StartReturns, StartThrows, StartTimesOut, StopReturns,
           Listen, ListenFails, AcceptStream, StopListening, TakeLatest, WaitStops, HangUp,
           SendChunk, SendFails, SendKills, Connect, Disconnect, StreamConnected,
           ConnectFails, Reconnect, FailProtocol, ConnectionLost, studio
  <2>2. received <= received' /\ received \in Nat /\ received' \in Nat
    BY <2>1, ReadKeepsContent DEF StreamInv, StreamTypeOK
  <2>3. QED  BY <2>2
<1>2. QED  BY <1>1, StreamInvariant, PTL DEF StreamSpec, ResultsMoveOn

(* Studio never gives up while it is meant to be online.                   *)
THEOREM StudioKeepsTrying == StreamSpec => []ReconnectPending
<1>1. StreamInit => ReconnectPending
  BY DEF StreamInit, ReconnectPending
<1>2. ReconnectPending /\ [StreamNext]_streamVars => ReconnectPending'
  <2> SUFFICES ASSUME ReconnectPending, [StreamNext]_streamVars PROVE ReconnectPending'
    OBVIOUS
  <2>1. CASE UNCHANGED <<desired, streamSocket, reconnectTimer>>
    BY <2>1 DEF ReconnectPending
  <2>2. CASE Connect \/ Disconnect \/ StreamConnected \/ ConnectFails \/ Reconnect \/ FailProtocol
             \/ ConnectionLost
    BY <2>2 DEF ReconnectPending, Connect, Disconnect, StreamConnected, ConnectFails, Reconnect,
                FailProtocol, ConnectionLost
  <2>3. QED
    BY <2>1, <2>2
       DEF StreamNext, OwnerAsks, OwnerContinues, ThreadStep, UserAsks, ClientStep,
           Publish, Start, Stop, StartReturns, StartThrows, StartTimesOut, StopReturns,
           Listen, ListenFails, AcceptStream, StopListening, TakeLatest, WaitStops, HangUp,
           SendChunk, SendFails, SendKills, ReadPackets, studio, streamVars
<1>3. QED  BY <1>1, <1>2, PTL DEF StreamSpec

-----------------------------------------------------------------------------
(***************************************************************************)
(*                       The control connection                            *)
(***************************************************************************)
(* What is known of the connection a line or a response came by, if it is    *)
(* the one the socket has: it exists only when Studio is connected, and      *)
(* carries the pending command.                                            *)
Ours(x) ==
    x.id = request => socket # "connecting" /\ (socket = "open" => x.command = command)

LinesInv ==
    /\ Ours(serving) /\ \A i \in DOMAIN backlog : Ours(backlog[i])
    /\ reply # NoReply => reply.id = serving.id /\ reply.command = serving.command

RequestInv ==
    /\ busy <=> socket # "closed"
    /\ busy <=> command # "none"
    /\ answer # NoReply => socket = "open" /\ answer.id = request /\ answer.command = command

ControlInv == TypeOK /\ LinesInv /\ RequestInv

-----------------------------------------------------------------------------
(* The names of connections: there is always one that nobody has.           *)

(* A connection is known to Studio, to the handler, or in the backlog.      *)
LEMMA TakenTokens ==
    ASSUME ControlInv
    PROVE  \A t \in Token : t \in Taken =>
              t = request \/ t = serving.id \/ \E i \in 1 .. Len(backlog) : t = backlog[i].id
<1>1. -1 \notin Token
  BY ControlAssumption DEF Token
<1>2. answer = NoReply \/ answer.id = request
  BY DEF ControlInv, RequestInv
<1>3. reply = NoReply \/ reply.id = serving.id
  BY DEF ControlInv, LinesInv
<1>4. NoReply.id = -1
  BY DEF NoReply
<1>5. QED  BY <1>1, <1>2, <1>3, <1>4 DEF Taken

(* By the pigeonhole principle: there are more tokens than places.          *)
LEMMA FreshTokenExists == ASSUME ControlInv PROVE FreshToken \in Token /\ FreshToken \notin Taken
<1>1. SUFFICES ASSUME \A t \in Token : t \in Taken PROVE FALSE
  BY DEF FreshToken
<1>2. Len(backlog) \in Nat /\ Len(backlog) <= Backlog /\ Backlog \in Nat
  BY ControlAssumption DEF ControlInv, TypeOK
<1> DEFINE place == [t \in Token |->
              IF t = request THEN 0
              ELSE IF t = serving.id THEN Backlog + 1
              ELSE CHOOSE i \in 1 .. Len(backlog) : t = backlog[i].id]
           Places == 0 .. Backlog + 1
<1>3. \A t \in Token : t # request /\ t # serving.id =>
          place[t] \in 1 .. Len(backlog) /\ t = backlog[place[t]].id
  BY <1>1, TakenTokens
<1>4. \A t \in Token : (t = request => place[t] = 0)
          /\ (t # request /\ t = serving.id => place[t] = Backlog + 1)
  OBVIOUS
<1>5. place \in [Token -> Places]
  <2>1. \A t \in Token : place[t] \in Places
    BY <1>2, <1>3, <1>4
  <2>2. QED  BY <2>1
<1>6. \A s, t \in Token : place[s] = place[t] => s = t
  <2> HIDE DEF place
  <2>1. QED  BY <1>2, <1>3, <1>4
<1>7. IsFiniteSet(Places) /\ Cardinality(Places) = Backlog + 2
  BY <1>2, FS_Interval
<1>8. IsFiniteSet(Token) /\ Cardinality(Token) = Backlog + 4
  BY <1>2, FS_Interval DEF Token
<1> HIDE DEF place, Places
<1>9. QED  BY <1>2, <1>5, <1>6, <1>7, <1>8, FS_PigeonHole

-----------------------------------------------------------------------------
(* The steps.                                                              *)

(* What a response and a line are, and that none is the absence of one.     *)
LEMMA Absent == NoReply \notin Reply /\ NoLine \notin Line /\ NoReply.id = -1 /\ NoLine.id = -1
BY ControlAssumption DEF NoReply, NoLine, Reply, Line, Token

(* A new request has a connection of its own.                               *)
LEMMA IssueKeeps ==
    ASSUME ControlInv, NEW c \in Command, Issue(c), UNCHANGED <<server, edge>>,
           connected' \in BOOLEAN, streams' \in BOOLEAN, asking' \in BOOLEAN,
           label' \in {"offline", "online", "error"}, UNCHANGED shown
    PROVE  ControlInv'
<1>1. request' \in Token /\ request' \notin Taken
  BY FreshTokenExists DEF Issue
<1>2. TypeOK'
  BY <1>1 DEF ControlInv, TypeOK, Issue, server
<1>3. RequestInv'
  BY DEF RequestInv, Issue, Command
<1>4. /\ serving.id # request'
      /\ \A i \in DOMAIN backlog : backlog[i].id # request'
  BY <1>1 DEF Taken, ControlInv, TypeOK
<1>5. LinesInv'
  BY <1>4 DEF ControlInv, LinesInv, Ours, server
<1>6. QED  BY <1>2, <1>3, <1>5 DEF ControlInv

(* A change of the window alone changes nothing of this.                    *)
LEMMA WindowKeeps ==
    ASSUME ControlInv, UNCHANGED <<client, server, edge, shown>>,
           connected' \in BOOLEAN, streams' \in BOOLEAN, asking' \in BOOLEAN,
           label' \in {"offline", "online", "error"}
    PROVE  ControlInv'
BY DEF ControlInv, TypeOK, LinesInv, Ours, RequestInv, client, server

(* The command of the operator is issued or refused.                        *)
LEMMA SendKeeps ==
    ASSUME ControlInv, NEW c \in Command, Send(c), UNCHANGED <<server, edge, shown>>,
           asking' \in BOOLEAN
    PROVE  ControlInv'
<1>1. CASE Issue(c) /\ UNCHANGED <<connected, label, streams>>
  BY <1>1, IssueKeeps DEF ControlInv, TypeOK
<1>2. CASE busy /\ HandleFailure /\ UNCHANGED client
  BY <1>2, WindowKeeps DEF HandleFailure
<1>3. QED  BY <1>1, <1>2 DEF Send

(* The end of a request: the lines on its connection are nobody's.          *)
LEMMA FinishKeeps ==
    ASSUME ControlInv, Finish, UNCHANGED <<server, edge, asking>>,
           connected' \in BOOLEAN, streams' \in BOOLEAN,
           label' \in {"offline", "online", "error"}, shown' \in EdgeState \cup {"none"}
    PROVE  ControlInv'
BY DEF ControlInv, TypeOK, LinesInv, Ours, RequestInv, Finish, server

(* The steps of the operator.                                               *)
LEMMA OperatorKeeps == ASSUME ControlInv, OperatorStep \/ RefreshStatus PROVE ControlInv'
<1>1. /\ connected \in BOOLEAN /\ streams \in BOOLEAN /\ asking \in BOOLEAN
      /\ label \in {"offline", "online", "error"} /\ shown \in EdgeState \cup {"none"}
  BY DEF ControlInv, TypeOK
<1>2. Offered \subseteq Command
  BY <1>1 DEF Offered, Command, EdgeState
<1>3. {"PING", "STATUS", "RESUME"} \subseteq Command
  BY DEF Command
<1>4. CASE Ping
  <2>1. CASE Issue("PING") /\ connected' = FALSE /\ UNCHANGED <<label, streams>>
    BY <1>1, <1>3, <1>4, <2>1, IssueKeeps DEF Ping
  <2>2. CASE busy /\ HandleFailure /\ UNCHANGED client
    BY <1>1, <1>4, <2>2, WindowKeeps DEF Ping, HandleFailure
  <2>3. QED  BY <1>4, <2>1, <2>2 DEF Ping
<1>5. CASE Press
  BY <1>1, <1>2, <1>5, SendKeeps DEF Press
<1>6. CASE RejectSession
  BY <1>1, <1>6, WindowKeeps DEF RejectSession, HandleFailure
<1>7. CASE AskToResume
  BY <1>1, <1>7, WindowKeeps DEF AskToResume
<1>8. CASE CloseDialog
  <2>1. CASE Send("RESUME")
    BY <1>1, <1>3, <1>8, <2>1, SendKeeps DEF CloseDialog
  <2>2. CASE UNCHANGED <<connected, label, streams, client>>
    BY <1>1, <1>8, <2>2, WindowKeeps DEF CloseDialog
  <2>3. QED  BY <1>8, <2>1, <2>2 DEF CloseDialog
<1>9. CASE InvalidateConnection
  BY <1>1, <1>9, WindowKeeps DEF InvalidateConnection
<1>10. CASE RefreshStatus
  BY <1>1, <1>3, <1>10, IssueKeeps DEF RefreshStatus, window
<1>11. QED  BY <1>4, <1>5, <1>6, <1>7, <1>8, <1>9, <1>10 DEF OperatorStep

(* The socket connects: its line is the only one of its connection.         *)
LEMMA ConnectedKeeps == ASSUME ControlInv, Connected PROVE ControlInv'
<1> DEFINE line == [id |-> request, command |-> command]
<1>1. line \in Line /\ command # "none" /\ backlog \in Seq(Line)
  BY DEF Connected, ControlInv, TypeOK, RequestInv, Line
<1>2. /\ backlog' = Append(backlog, line) /\ backlog' \in Seq(Line)
      /\ Len(backlog') <= Backlog
  BY <1>1, ControlAssumption DEF Connected
<1>3. TypeOK'
  BY <1>2 DEF Connected, ControlInv, TypeOK, window
<1>4. RequestInv'
  BY DEF Connected, ControlInv, RequestInv
<1>5. socket' = "open" /\ UNCHANGED <<request, command>>
  BY DEF Connected
<1>6. \A i \in DOMAIN backlog' :
          (i \in DOMAIN backlog /\ backlog'[i] = backlog[i]) \/ backlog'[i] = line
  BY <1>1, <1>2
<1>7. \A i \in DOMAIN backlog : backlog[i].id # request
  BY DEF Connected, ControlInv, LinesInv, Ours
<1>8. \A i \in DOMAIN backlog' : backlog'[i].id = request => backlog'[i].command = command
  BY <1>6, <1>7
<1>9. LinesInv'
  BY <1>5, <1>8 DEF Connected, ControlInv, LinesInv, Ours
<1>10. QED  BY <1>3, <1>4, <1>9 DEF ControlInv

(* The steps that end a request.                                            *)
LEMMA EndKeeps == ASSUME ControlInv, ReadResponse \/ Error \/ Timeout PROVE ControlInv'
<1>1. CASE ReadResponse
  <2>1. answer \in Reply /\ answer.ok \in BOOLEAN /\ answer.state \in EdgeState
    BY <1>1 DEF ReadResponse, ControlInv, TypeOK, Reply
  <2>2. QED  BY <1>1, <2>1, FinishKeeps DEF ReadResponse, ControlInv, TypeOK
<1>2. CASE Error \/ Timeout
  BY <1>2, FinishKeeps DEF Error, Timeout, HandleFailure, ControlInv, TypeOK
<1>3. QED  BY <1>1, <1>2

(* The steps of the server.                                                 *)
LEMMA AcceptKeeps == ASSUME ControlInv, Accept PROVE ControlInv'
<1>1. backlog \in Seq(Line) /\ backlog # <<>> /\ reply = NoReply
  <2>1. reply # NoReply => reply \in Reply /\ reply.id \in Token /\ reply.id = -1
    BY Absent DEF Accept, ControlInv, TypeOK, LinesInv, Reply
  <2>2. QED  BY <2>1, ControlAssumption DEF Accept, ControlInv, TypeOK, Token
<1>2. /\ serving' = backlog[1] /\ serving' \in Line /\ backlog' \in Seq(Line)
      /\ Len(backlog') = Len(backlog) - 1 /\ Len(backlog) \in Nat /\ 1 \in DOMAIN backlog
      /\ \A i \in DOMAIN backlog' : i + 1 \in DOMAIN backlog /\ backlog'[i] = backlog[i + 1]
  BY <1>1 DEF Accept
<1>3. TypeOK'
  BY <1>2, ControlAssumption DEF Accept, ControlInv, TypeOK, window, client
<1>4. RequestInv'
  BY DEF Accept, ControlInv, RequestInv, client
<1>5. LinesInv'
  BY <1>1, <1>2 DEF Accept, ControlInv, LinesInv, Ours, client
<1>6. QED  BY <1>3, <1>4, <1>5 DEF ControlInv

(* The handler answers the line it was given, on the connection it came    *)
(* by.                                                                     *)
LEMMA ExecuteKeeps == ASSUME ControlInv, Execute PROVE ControlInv'
<1>1. serving \in Line /\ edge \in EdgeState
  BY DEF Execute, ControlInv, TypeOK
<1>2. \A outcome \in Outcomes(serving.command) : outcome[1] \in EdgeState /\ outcome[2] \in BOOLEAN
  <2>1. \A s, t \in EdgeState, p, q \in BOOLEAN : \A outcome \in {<<s, p>>, <<t, q>>} :
          outcome[1] \in EdgeState /\ outcome[2] \in BOOLEAN
    OBVIOUS
  <2>2. \A s \in EdgeState, p \in BOOLEAN : {<<s, p>>} = {<<s, p>>, <<s, p>>}
    OBVIOUS
  <2>3. {"idle", "measuring", "paused", "faulted"} \subseteq EdgeState
    BY DEF EdgeState
  <2>4. \E s, t \in EdgeState, p, q \in BOOLEAN : Outcomes(serving.command) = {<<s, p>>, <<t, q>>}
    BY <1>1, <2>2, <2>3 DEF Outcomes
  <2>5. QED  BY <2>1, <2>4
<1>3. PICK outcome \in Outcomes(serving.command) :
        /\ edge' = outcome[1]
        /\ reply' = [id |-> serving.id, command |-> serving.command,
                     ok |-> outcome[2], state |-> outcome[1]]
  BY DEF Execute
<1>4. edge' \in EdgeState /\ reply' \in Reply
      /\ reply'.id = serving.id /\ reply'.command = serving.command
  BY <1>1, <1>2, <1>3 DEF Line, Reply
<1>5. TypeOK'
  BY <1>4 DEF Execute, ControlInv, TypeOK, window, client
<1>6. LinesInv' /\ RequestInv'
  BY <1>4 DEF Execute, ControlInv, LinesInv, Ours, RequestInv, client
<1>7. QED  BY <1>5, <1>6 DEF ControlInv

(* A response reaches the socket only by the connection of this request.     *)
LEMMA RespondKeeps == ASSUME ControlInv, Respond PROVE ControlInv'
<1>1. TypeOK'
  BY DEF Respond, ControlInv, TypeOK, window
<1>2. serving'.id # request'
  BY ControlAssumption DEF Respond, NoLine, ControlInv, TypeOK, Token
<1>3. LinesInv'
  BY <1>2 DEF Respond, ControlInv, LinesInv, Ours
<1>4. socket = "open" /\ request = reply.id => reply.command = command
  BY DEF Respond, ControlInv, LinesInv, Ours
<1>5. RequestInv'
  BY <1>4 DEF Respond, ControlInv, RequestInv
<1>6. QED  BY <1>1, <1>3, <1>5 DEF ControlInv

(* What is lost before it is read, and a fault of the Edge.                *)
LEMMA LossKeeps == ASSUME ControlInv, AcceptLost \/ Fault PROVE ControlInv'
<1>1. CASE AcceptLost
  <2>1. TypeOK' /\ RequestInv'
    BY <1>1 DEF AcceptLost, ControlInv, TypeOK, RequestInv, window, client
  <2>2. serving'.id # request'
    BY <1>1, ControlAssumption DEF AcceptLost, NoLine, ControlInv, TypeOK, Token, client
  <2>3. LinesInv'
    BY <1>1, <2>2 DEF AcceptLost, ControlInv, LinesInv, Ours, client
  <2>4. QED  BY <2>1, <2>3 DEF ControlInv
<1>2. CASE Fault
  BY <1>2 DEF Fault, ControlInv, TypeOK, LinesInv, Ours, RequestInv, EdgeState, window, client, server
<1>3. QED  BY <1>1, <1>2

(* ControlInv is an invariant.                                              *)
THEOREM ControlInvariant == Spec => []ControlInv
<1>1. Init => ControlInv
  <2> SUFFICES ASSUME Init PROVE ControlInv
    OBVIOUS
  <2>1. 0 \in Token /\ backlog \in Seq(Line) /\ Len(backlog) = 0
    BY ControlAssumption DEF Init, Token
  <2>2. TypeOK
    <3>1. edge \in EdgeState /\ Len(backlog) <= Backlog
      BY <2>1, ControlAssumption DEF Init, EdgeState
    <3>2. serving \in {NoLine} /\ answer \in {NoReply} /\ reply \in {NoReply}
      BY DEF Init
    <3> QED  BY <2>1, <3>1, <3>2 DEF Init, TypeOK
  <2>3. LinesInv
    BY <2>1 DEF Init, LinesInv, Ours, NoLine
  <2>4. RequestInv
    BY DEF Init, RequestInv
  <2>5. QED  BY <2>2, <2>3, <2>4 DEF ControlInv
<1>2. ASSUME ControlInv, [Next]_vars PROVE ControlInv'
  <2>1. CASE UNCHANGED vars
    BY <1>2, <2>1 DEF vars, window, client, server, ControlInv, TypeOK, LinesInv, Ours, RequestInv
  <2>2. QED
    BY <1>2, <2>1, OperatorKeeps, ConnectedKeeps, EndKeeps, AcceptKeeps, ExecuteKeeps, RespondKeeps,
       LossKeeps DEF Next, ServerStep
<1>3. QED  BY <1>1, <1>2, PTL DEF Spec

(* What Studio reads answers the command it waits for, however late the      *)
(* Edge answers those given up, and for any number of connections it queues. *)
THEOREM NoLateAnswerIsTaken == Spec => []AnswerOfThisRequest
<1>1. ControlInv => AnswerOfThisRequest
  BY DEF ControlInv, RequestInv, AnswerOfThisRequest
<1>2. QED  BY <1>1, ControlInvariant, PTL

=============================================================================
