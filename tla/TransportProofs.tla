-------------------------- MODULE TransportProofs ---------------------------
(***************************************************************************)
(* Proofs about the module Transport, for every size of the header, the    *)
(* payloads and the socket buffers, any number of frames, and whatever is  *)
(* put on the wire, cut short or killed.                                   *)
(*                                                                         *)
(* The argument is about the stream that is on its way to a side: what its *)
(* receive() has read of the next frame, what is on the wire, and what the *)
(* send() of its peer has still to write.  The calls only pass units on    *)
(* along the stream, cut it off where the connection breaks, take a frame  *)
(* away at its front or put one at its end.  The units of the stream stay  *)
(* in the order of the frames that were sent (Sound); as long as no        *)
(* receive() has failed none is missing at its front or in the middle      *)
(* (Whole), and none at its end until the connection breaks (Reaches).     *)
(***************************************************************************)
EXTENDS Transport, SequenceTheorems, TLAPS

Size(f) == HeaderUnits + f.size

Forms == RawForms \cup {"intact"}

Frame == [from : Ends, id : Nat, size : 0..MaxPayload, form : Forms]

Unit == [frame : Frame, part : Nat]

WireTypes ==
    /\ sock \in [Ends -> {"none", "open", "closed"}]
    /\ wire \in [Ends -> Seq(Unit)]
    /\ ended \in [Ends -> {"no", "eof", "reset"}]
    /\ op \in [Ends -> [at : Calls, units : Seq(Unit)]]
    /\ sent \in [Ends -> Seq(Frame)]
    /\ got \in [Ends -> Seq(Frame)]
    /\ failed \in [Ends -> BOOLEAN]
    /\ backlog \in BOOLEAN

LEMMA PeerFacts ==
    ASSUME NEW e \in Ends
    PROVE  Peer(e) \in Ends /\ Peer(e) # e /\ Peer(Peer(e)) = e
           /\ \A d \in Ends : d = e \/ d = Peer(e)
  BY DEF Ends, Peer

LEMMA UnitsFacts ==
    ASSUME NEW f \in Frame
    PROVE  /\ Size(f) \in Nat \ {0} /\ f.id \in Nat /\ f.size \in Nat /\ f.form \in Forms
           /\ Units(f) \in Seq(Unit) /\ Len(Units(f)) = Size(f)
           /\ \A i \in 1..Size(f) : Units(f)[i].frame = f /\ Units(f)[i].part = i
<1>1. f.size \in Nat /\ f.id \in Nat /\ f.form \in Forms
  BY TransportAssumption DEF Frame
<1>2. Size(f) \in Nat \ {0}
  BY <1>1, TransportAssumption DEF Size
<1>3. \A i \in 1..Size(f) : [frame |-> f, part |-> i] \in Unit
  BY <1>2 DEF Unit
<1>4. Units(f) = [i \in 1..Size(f) |-> [frame |-> f, part |-> i]]
  BY DEF Units, Size
<1>5. Units(f) \in [1..Size(f) -> Unit]
  BY <1>3, <1>4
<1>6. Units(f) \in Seq(Unit) /\ Len(Units(f)) = Size(f)
  BY <1>2, <1>5
<1>7. \A i \in 1..Size(f) : Units(f)[i].frame = f /\ Units(f)[i].part = i
  BY <1>4
<1> QED
  BY <1>1, <1>2, <1>6, <1>7

\* Cutting a sequence in two.
LEMMA Halves ==
    ASSUME NEW S, NEW s \in Seq(S), NEW n \in 1..Len(s)
    PROVE  /\ SubSeq(s, 1, n) \in Seq(S) /\ SubSeq(s, n + 1, Len(s)) \in Seq(S)
           /\ s = SubSeq(s, 1, n) \o SubSeq(s, n + 1, Len(s))
<1>0. Len(s) \in Nat /\ n \in Int /\ n + 1 \in Int /\ DOMAIN s = 1..Len(s)
  OBVIOUS
<1>1. \A i \in 1..n : s[i] \in S
  OBVIOUS
<1>2. \A i \in (n + 1)..Len(s) : s[i] \in S
  OBVIOUS
<1>3. SubSeq(s, 1, n) \in Seq(S) /\ SubSeq(s, n + 1, Len(s)) \in Seq(S)
  BY <1>0, <1>1, <1>2, SubSeqProperties
<1>4. SubSeq(s, 1, n) \o SubSeq(s, n + 1, Len(s)) = SubSeq(s, 1, Len(s))
  <2>1. 1 \in 1..(Len(s) + 1) /\ n \in (1 - 1)..Len(s) /\ Len(s) \in n..Len(s)
    BY <1>0
  <2> QED
    BY <2>1, ConcatAdjacentSubSeq
<1>5. SubSeq(s, 1, Len(s)) = s
  BY SubSeqFull
<1> QED
  BY <1>3, <1>4, <1>5

-----------------------------------------------------------------------------
(* Streams *)

Precedes(u, v) ==
    u.frame.id < v.frame.id \/ (u.frame.id = v.frame.id /\ u.part < v.part)

IsNext(u, v) ==
    \/ v.frame.id = u.frame.id /\ v.part = u.part + 1
    \/ u.part = Size(u.frame) /\ v.frame.id = u.frame.id + 1 /\ v.part = 1

\* A unit of one of the frames fs.
UnitOf(u, fs) ==
    u.frame.id \in DOMAIN fs /\ u.frame = fs[u.frame.id] /\ u.part \in 1..Size(u.frame)

\* A frame that was sent intact, before any unit that is still in the stream.
Delivered(f, s, fs) ==
    /\ f.id \in DOMAIN fs /\ f = fs[f.id] /\ f.form = "intact"
    /\ \A j \in DOMAIN s : f.id < s[j].frame.id

\* The stream s towards a side that has got the frames gs of the frames fs its peer sent.
Sound(s, fs, gs) ==
    /\ \A i \in DOMAIN s : UnitOf(s[i], fs)
    /\ \A i, j \in DOMAIN s : i < j => Precedes(s[i], s[j])
    /\ \A i \in DOMAIN gs : Delivered(gs[i], s, fs)
    /\ \A i, j \in DOMAIN gs : i < j => gs[i].id < gs[j].id

Whole(s, fs, gs) ==
    /\ Len(gs) <= Len(fs) /\ \A i \in DOMAIN gs : gs[i] = fs[i]
    /\ \A i \in DOMAIN s : i + 1 \in DOMAIN s => IsNext(s[i], s[i + 1])
    /\ s # <<>> => s[1].frame.id = Len(gs) + 1 /\ s[1].part = 1

Reaches(s, fs, gs) ==
    IF s = <<>> THEN Len(gs) = Len(fs)
    ELSE s[Len(s)].frame.id = Len(fs) /\ s[Len(s)].part = Size(s[Len(s)].frame)

\* A part of a stream is sound, and a stream cut off at its end is whole.
LEMMA Cut ==
    ASSUME NEW a \in Seq(Unit), NEW b \in Seq(Unit), NEW c \in Seq(Unit), NEW fs, NEW gs,
           Sound(a \o (b \o c), fs, gs)
    PROVE  /\ Sound(b \o c, fs, gs) /\ Sound(a, fs, gs) /\ Sound(a \o b, fs, gs)
           /\ Whole(a \o (b \o c), fs, gs) => Whole(a, fs, gs) /\ Whole(a \o b, fs, gs)
<1> DEFINE s == a \o (b \o c)
<1>0. /\ Len(a) \in Nat /\ Len(b) \in Nat /\ Len(c) \in Nat
      /\ s \in Seq(Unit) /\ Len(s) = Len(a) + (Len(b) + Len(c))
      /\ a \o b \in Seq(Unit) /\ Len(a \o b) = Len(a) + Len(b)
      /\ b \o c \in Seq(Unit) /\ Len(b \o c) = Len(b) + Len(c)
  OBVIOUS
<1>1. \A i \in DOMAIN (b \o c) : Len(a) + i \in DOMAIN s /\ (b \o c)[i] = s[Len(a) + i]
  BY <1>0
<1>2. \A i \in DOMAIN a : i \in DOMAIN s /\ a[i] = s[i]
  BY <1>0
<1>3. \A i \in DOMAIN (a \o b) : i \in DOMAIN s /\ (a \o b)[i] = s[i]
  BY <1>0
<1>4. /\ DOMAIN (b \o c) \subseteq Int
  BY <1>0
<1> HIDE DEF s
<1>5. Sound(s, fs, gs)
  BY DEF s
<1>6. Sound(b \o c, fs, gs)
  <2>1. PICK k \in Nat : k = Len(a)
    BY <1>0
  <2>2. PICK q : q = b \o c
    OBVIOUS
  <2>3. \A i \in DOMAIN q : i \in Int /\ k + i \in DOMAIN s /\ q[i] = s[k + i]
    BY <1>1, <1>4, <2>1, <2>2
  <2>4. \A i \in DOMAIN q : UnitOf(q[i], fs)
    BY <1>5, <2>3 DEF Sound
  <2>5. ASSUME NEW i \in DOMAIN q, NEW j \in DOMAIN q, i < j PROVE Precedes(q[i], q[j])
    <3>1. k + i < k + j
      BY <2>3, <2>5
    <3> QED
      BY <1>5, <2>3, <3>1 DEF Sound
  <2>6. \A i \in DOMAIN gs : Delivered(gs[i], q, fs)
    BY <1>5, <2>3 DEF Sound, Delivered
  <2> QED
    BY <1>5, <2>2, <2>4, <2>5, <2>6 DEF Sound
<1>7. Sound(a, fs, gs) /\ Sound(a \o b, fs, gs)
  BY <1>2, <1>3, <1>5 DEF Sound, Delivered
<1>8. ASSUME Whole(s, fs, gs)
      PROVE  Whole(a, fs, gs) /\ Whole(a \o b, fs, gs)
  <2>1. a # <<>> => 1 \in DOMAIN a /\ s # <<>>
    BY <1>0
  <2>2. a \o b # <<>> => 1 \in DOMAIN (a \o b) /\ s # <<>>
    BY <1>0
  <2> QED
    BY <1>2, <1>3, <1>8, <2>1, <2>2 DEF Whole
<1> QED
  BY <1>6, <1>7, <1>8 DEF s

\* A new frame: its units go to the end of the stream, or nowhere.
LEMMA More ==
    ASSUME NEW s \in Seq(Unit), NEW fs \in Seq(Frame), NEW gs \in Seq(Frame), NEW f \in Frame,
           f.id = Len(fs) + 1, Sound(s, fs, gs)
    PROVE  /\ Sound(s, Append(fs, f), gs) /\ Sound(s \o Units(f), Append(fs, f), gs)
           /\ Whole(s, fs, gs) => Whole(s, Append(fs, f), gs)
           /\ Whole(s, fs, gs) /\ Reaches(s, fs, gs) =>
                /\ Whole(s \o Units(f), Append(fs, f), gs)
                /\ Reaches(s \o Units(f), Append(fs, f), gs)
<1>0. Len(s) \in Nat /\ Len(fs) \in Nat /\ Len(gs) \in Nat
  OBVIOUS
<1>1. PICK n : n = Size(f)
  OBVIOUS
<1>2. PICK x : x = Units(f)
  OBVIOUS
<1>3. /\ n \in Nat \ {0} /\ x \in Seq(Unit) /\ Len(x) = n
      /\ \A i \in 1..n : x[i].frame = f /\ x[i].part = i
  BY <1>1, <1>2, UnitsFacts
<1>4. PICK t : t = s \o x
  OBVIOUS
<1>5. /\ t \in Seq(Unit) /\ Len(t) = Len(s) + n
      /\ \A i \in DOMAIN s : t[i] = s[i]
      /\ \A i \in DOMAIN t : i \notin DOMAIN s => i - Len(s) \in 1..n /\ t[i] = x[i - Len(s)]
  BY <1>0, <1>3, <1>4
<1>6. PICK gr : gr = Append(fs, f)
  OBVIOUS
<1>7. /\ Len(gr) = Len(fs) + 1 /\ gr[Len(fs) + 1] = f /\ DOMAIN gr = 1..(Len(fs) + 1)
      /\ DOMAIN fs = 1..Len(fs)
      /\ \A i \in DOMAIN fs : i \in DOMAIN gr /\ gr[i] = fs[i]
  BY <1>6
<1>8. /\ \A i \in DOMAIN s : UnitOf(s[i], fs)
      /\ \A i, j \in DOMAIN s : i < j => Precedes(s[i], s[j])
      /\ \A i \in DOMAIN gs : Delivered(gs[i], s, fs)
      /\ \A i, j \in DOMAIN gs : i < j => gs[i].id < gs[j].id
  BY DEF Sound
<1>9. \A i \in DOMAIN s : UnitOf(s[i], gr)
  BY <1>7, <1>8 DEF UnitOf
<1>10. \A i \in DOMAIN gs : Delivered(gs[i], s, gr)
  BY <1>7, <1>8 DEF Delivered
<1>11. Sound(s, gr, gs)
  BY <1>8, <1>9, <1>10 DEF Sound
<1>12. \A i \in DOMAIN t : i \notin DOMAIN s => t[i].frame = f /\ t[i].part = i - Len(s)
  BY <1>3, <1>5
<1>13. \A i \in DOMAIN t : UnitOf(t[i], gr)
  <2> SUFFICES ASSUME NEW i \in DOMAIN t PROVE UnitOf(t[i], gr)
    OBVIOUS
  <2>1. CASE i \in DOMAIN s
    BY <1>5, <1>9, <2>1
  <2>2. CASE i \notin DOMAIN s
    BY <1>0, <1>1, <1>5, <1>7, <1>12, <2>2 DEF UnitOf
  <2> QED
    BY <2>1, <2>2
<1>14. \A i, j \in DOMAIN t : i < j => Precedes(t[i], t[j])
  <2> SUFFICES ASSUME NEW i \in DOMAIN t, NEW j \in DOMAIN t, i < j
               PROVE  Precedes(t[i], t[j])
    OBVIOUS
  <2>0. i \in Int /\ j \in Int /\ DOMAIN s = 1..Len(s) /\ i \in 1..Len(t)
    BY <1>5
  <2>1. CASE j \in DOMAIN s
    <3>1. i \in DOMAIN s
      BY <2>0, <2>1
    <3> QED
      BY <1>5, <1>8, <2>1, <3>1
  <2>2. CASE i \in DOMAIN s /\ j \notin DOMAIN s
    <3>1. t[i].frame.id \in 1..Len(fs) /\ t[j].frame.id = Len(fs) + 1
      BY <1>5, <1>7, <1>8, <1>12, <2>2 DEF UnitOf
    <3> QED
      BY <1>0, <3>1 DEF Precedes
  <2>3. CASE i \notin DOMAIN s /\ j \notin DOMAIN s
    BY <1>0, <1>12, <2>0, <2>3 DEF Precedes
  <2> QED
    BY <2>0, <2>1, <2>2, <2>3
<1>15. \A i \in DOMAIN gs : Delivered(gs[i], t, gr)
  <2> SUFFICES ASSUME NEW i \in DOMAIN gs PROVE Delivered(gs[i], t, gr)
    OBVIOUS
  <2>1. Delivered(gs[i], s, gr) /\ gs[i].id \in 1..Len(fs)
    BY <1>7, <1>8, <1>10 DEF Delivered
  <2>2. ASSUME NEW j \in DOMAIN t PROVE gs[i].id < t[j].frame.id
    <3>1. CASE j \in DOMAIN s
      BY <1>5, <2>1, <3>1 DEF Delivered
    <3>2. CASE j \notin DOMAIN s
      BY <1>0, <1>12, <2>1, <3>2
    <3> QED
      BY <3>1, <3>2
  <2> QED
    BY <2>1, <2>2 DEF Delivered
<1>16. Sound(t, gr, gs)
  BY <1>8, <1>13, <1>14, <1>15 DEF Sound
<1>17. ASSUME Whole(s, fs, gs)
       PROVE  Len(gs) <= Len(gr) /\ \A i \in DOMAIN gs : gs[i] = gr[i]
  <2>1. Len(gs) <= Len(fs) /\ \A i \in DOMAIN gs : gs[i] = fs[i]
    BY <1>17 DEF Whole
  <2>2. \A i \in DOMAIN gs : i \in DOMAIN fs
    BY <1>0, <2>1
  <2> QED
    BY <1>0, <1>7, <2>1, <2>2
<1>18. Whole(s, fs, gs) => Whole(s, gr, gs)
  BY <1>17 DEF Whole
<1>19. ASSUME Whole(s, fs, gs), Reaches(s, fs, gs)
       PROVE  Whole(t, gr, gs) /\ Reaches(t, gr, gs)
  <2>1. t # <<>> /\ Len(t) \in DOMAIN t /\ Len(t) \notin DOMAIN s
    BY <1>0, <1>3, <1>5
  <2>2. t[Len(t)].frame = f /\ t[Len(t)].part = n
    BY <1>0, <1>3, <1>5, <1>12, <2>1
  <2>3. Reaches(t, gr, gs)
    BY <1>1, <1>7, <2>1, <2>2 DEF Reaches
  <2>4. t[1].frame.id = Len(gs) + 1 /\ t[1].part = 1
    <3>1. CASE s = <<>>
      <4>1. 1 \in DOMAIN t /\ 1 \notin DOMAIN s /\ Len(s) = 0
        BY <1>3, <1>5, <3>1
      <4>2. t[1].frame = f /\ t[1].part = 1 - 0
        BY <1>12, <4>1
      <4> QED
        BY <1>19, <3>1, <4>2 DEF Reaches
    <3>2. CASE s # <<>>
      <4>1. 1 \in DOMAIN s
        BY <3>2
      <4> QED
        BY <1>5, <1>19, <3>2, <4>1 DEF Whole
    <3> QED
      BY <3>1, <3>2
  <2>5. ASSUME NEW i \in DOMAIN t, i + 1 \in DOMAIN t
        PROVE  IsNext(t[i], t[i + 1])
    <3>0. i \in Int /\ i + 1 \in Int /\ i >= 1 /\ i + 1 <= Len(s) + n /\ DOMAIN s = 1..Len(s)
      BY <1>0, <1>5, <2>5
    <3>1. CASE i + 1 \in DOMAIN s
      <4>1. i \in DOMAIN s
        BY <3>0, <3>1
      <4> QED
        BY <1>5, <1>19, <3>1, <4>1 DEF Whole
    <3>2. CASE i \in DOMAIN s /\ i + 1 \notin DOMAIN s
      <4>1. i = Len(s) /\ s # <<>>
        BY <1>0, <3>0, <3>2
      <4>2. t[i] = s[Len(s)] /\ t[i + 1].frame = f /\ t[i + 1].part = 1
        BY <1>0, <1>5, <1>12, <2>5, <3>2, <4>1
      <4>3. t[i].frame.id = Len(fs) /\ t[i].part = Size(t[i].frame)
        BY <1>19, <4>1, <4>2 DEF Reaches
      <4> QED
        BY <4>2, <4>3 DEF IsNext
    <3>3. CASE i \notin DOMAIN s /\ i + 1 \notin DOMAIN s
      BY <1>0, <1>12, <2>5, <3>0, <3>3 DEF IsNext
    <3> QED
      BY <1>0, <3>0, <3>1, <3>2, <3>3
  <2> QED
    BY <1>17, <1>19, <2>3, <2>4, <2>5 DEF Whole
<1> QED
  BY <1>2, <1>4, <1>6, <1>11, <1>16, <1>18, <1>19, Zenon

\* A frame is taken from the front of the stream and returned.
LEMMA Returned ==
    ASSUME NEW u \in Seq(Unit), NEW r \in Seq(Unit), NEW fs \in Seq(Frame),
           NEW gs \in Seq(Frame), Sound(u \o r, fs, gs),
           u # <<>>, OfOneFrame(u), Len(u) = Size(u[1].frame), u[1].frame.form = "intact"
    PROVE  LET hs == Append(gs, u[1].frame)
           IN  /\ Sound(r, fs, hs)
               /\ Whole(u \o r, fs, gs) => Whole(r, fs, hs)
               /\ Whole(u \o r, fs, gs) /\ Reaches(u \o r, fs, gs) => Reaches(r, fs, hs)
<1>0. Len(u) \in Nat \ {0} /\ Len(r) \in Nat /\ Len(gs) \in Nat /\ Len(fs) \in Nat
      /\ 1 \in DOMAIN u /\ Len(u) \in DOMAIN u
  OBVIOUS
<1>1. PICK f : f = u[1].frame
  OBVIOUS
<1>2. PICK s : s = u \o r
  OBVIOUS
<1>3. /\ s \in Seq(Unit) /\ Len(s) = Len(u) + Len(r)
      /\ \A i \in DOMAIN u : i \in DOMAIN s /\ s[i] = u[i]
      /\ \A i \in DOMAIN r : Len(u) + i \in DOMAIN s /\ r[i] = s[Len(u) + i]
  <2>1. s \in Seq(Unit) /\ Len(s) = Len(u) + Len(r)
    <3>1. u \o r \in Seq(Unit) /\ Len(u \o r) = Len(u) + Len(r)
      BY ConcatProperties, Zenon
    <3> QED
      BY <1>2, <3>1, Zenon
  <2>2. \A i \in DOMAIN u : i \in DOMAIN s /\ s[i] = u[i]
    BY <1>0, <1>2, <2>1
  <2>3. \A i \in DOMAIN r : Len(u) + i \in DOMAIN s /\ r[i] = s[Len(u) + i]
    BY <1>0, <1>2, <2>1
  <2> QED
    BY <2>1, <2>2, <2>3
<1>4. \A i \in DOMAIN u : u[i].frame = f /\ u[i].part = i
  <2>1. \A i \in DOMAIN u : u[i] = [frame |-> f, part |-> i]
    BY <1>1, Zenon DEF OfOneFrame
  <2> QED
    BY <2>1
<1>5. f \in Frame /\ f.form = "intact" /\ Size(f) = Len(u)
  <2>1. u[1] \in Unit
    BY <1>0
  <2> QED
    BY <1>1, <2>1 DEF Unit
<1>6. PICK hs : hs = Append(gs, f)
  OBVIOUS
<1>7. /\ Len(hs) = Len(gs) + 1 /\ hs[Len(gs) + 1] = f
      /\ \A i \in DOMAIN hs : (i \in DOMAIN gs /\ hs[i] = gs[i]) \/ i = Len(gs) + 1
      /\ DOMAIN gs = 1..Len(gs)
  BY <1>5, <1>6
<1>8. /\ \A i \in DOMAIN s : UnitOf(s[i], fs)
      /\ \A i, j \in DOMAIN s : i < j => Precedes(s[i], s[j])
      /\ \A i \in DOMAIN gs : Delivered(gs[i], s, fs)
      /\ \A i, j \in DOMAIN gs : i < j => gs[i].id < gs[j].id
  BY <1>2 DEF Sound
<1>9. f.id \in DOMAIN fs /\ f = fs[f.id] /\ f.id \in Int
  <2>1. UnitOf(s[1], fs) /\ s[1].frame = f
    BY <1>0, <1>3, <1>4, <1>8
  <2> QED
    BY <2>1 DEF UnitOf
<1>10. \A i \in DOMAIN r : UnitOf(r[i], fs) /\ f.id < r[i].frame.id
  <2> SUFFICES ASSUME NEW i \in DOMAIN r PROVE UnitOf(r[i], fs) /\ f.id < r[i].frame.id
    OBVIOUS
  <2>1. UnitOf(r[i], fs)
    BY <1>3, <1>8
  <2>2. Precedes(u[Len(u)], r[i])
    <3>1. Len(u) < Len(u) + i
      BY <1>0
    <3> QED
      BY <1>0, <1>3, <1>8, <3>1
  <2>3. u[Len(u)].frame = f /\ u[Len(u)].part = Len(u)
    BY <1>0, <1>4
  <2>4. CASE f.id = r[i].frame.id
    <3>1. r[i].frame = f
      BY <1>9, <2>1, <2>4 DEF UnitOf
    <3>2. r[i].part \in 1..Len(u)
      BY <1>5, <2>1, <3>1 DEF UnitOf
    <3> QED
      BY <1>0, <1>9, <2>2, <2>3, <3>1, <3>2 DEF Precedes
  <2> QED
    BY <2>1, <2>2, <2>3, <2>4 DEF Precedes
<1>11. \A i, j \in DOMAIN r : i < j => Precedes(r[i], r[j])
  <2> SUFFICES ASSUME NEW i \in DOMAIN r, NEW j \in DOMAIN r, i < j
               PROVE  Precedes(r[i], r[j])
    OBVIOUS
  <2>1. Len(u) + i < Len(u) + j
    BY <1>0
  <2> QED
    BY <1>3, <1>8, <2>1
<1>12. \A i \in DOMAIN gs : gs[i].id < f.id
  <2>1. 1 \in DOMAIN s /\ s[1].frame = f
    BY <1>0, <1>3, <1>4
  <2> QED
    BY <1>8, <2>1 DEF Delivered
<1>13. \A i \in DOMAIN hs : Delivered(hs[i], r, fs)
  <2> SUFFICES ASSUME NEW i \in DOMAIN hs PROVE Delivered(hs[i], r, fs)
    OBVIOUS
  <2>1. CASE i \in DOMAIN gs /\ hs[i] = gs[i]
    BY <1>3, <1>8, <2>1 DEF Delivered
  <2>2. CASE i = Len(gs) + 1
    BY <1>5, <1>7, <1>9, <1>10, <2>2 DEF Delivered
  <2> QED
    BY <1>7, <2>1, <2>2
<1>14. \A i, j \in DOMAIN hs : i < j => hs[i].id < hs[j].id
  <2> SUFFICES ASSUME NEW i \in DOMAIN hs, NEW j \in DOMAIN hs, i < j
               PROVE  hs[i].id < hs[j].id
    OBVIOUS
  <2>1. hs \in Seq(Frame)
    BY <1>5, <1>6
  <2>2. i \in 1..(Len(gs) + 1) /\ j \in 1..(Len(gs) + 1)
    BY <1>7, <2>1
  <2>3. i \in DOMAIN gs /\ hs[i] = gs[i]
    BY <1>0, <1>7, <2>2
  <2>4. CASE j = Len(gs) + 1
    BY <1>7, <1>12, <2>3, <2>4
  <2>5. CASE j # Len(gs) + 1
    BY <1>7, <1>8, <2>3, <2>5
  <2> QED
    BY <2>4, <2>5
<1>15. Sound(r, fs, hs)
  BY <1>10, <1>11, <1>13, <1>14 DEF Sound
<1>16. ASSUME Whole(s, fs, gs)
       PROVE  f.id = Len(gs) + 1 /\ Whole(r, fs, hs)
  <2>1. f.id = Len(gs) + 1
    <3>1. s # <<>> /\ s[1].frame = f
      BY <1>0, <1>3, <1>4
    <3> QED
      BY <1>16, <3>1 DEF Whole
  <2>2. Len(hs) <= Len(fs)
    BY <1>0, <1>7, <1>9, <2>1
  <2>3. \A i \in DOMAIN hs : hs[i] = fs[i]
    BY <1>7, <1>9, <1>16, <2>1 DEF Whole
  <2>4. ASSUME NEW i \in DOMAIN r, i + 1 \in DOMAIN r
        PROVE  IsNext(r[i], r[i + 1])
    <3>1. Len(u) + i \in DOMAIN s /\ (Len(u) + i) + 1 \in DOMAIN s
          /\ r[i] = s[Len(u) + i] /\ r[i + 1] = s[(Len(u) + i) + 1]
      <4>1. Len(u) + (i + 1) = (Len(u) + i) + 1
        BY <1>0
      <4> QED
        BY <1>3, <2>4, <4>1
    <3> QED
      BY <1>16, <3>1 DEF Whole
  <2>5. ASSUME r # <<>>
        PROVE  r[1].frame.id = Len(hs) + 1 /\ r[1].part = 1
    <3>1. 1 \in DOMAIN r
      BY <2>5
    <3>2. Len(u) \in DOMAIN s /\ Len(u) + 1 \in DOMAIN s /\ s[Len(u)] = u[Len(u)]
          /\ s[Len(u) + 1] = r[1]
      BY <1>0, <1>3, <3>1
    <3>3. IsNext(u[Len(u)], r[1])
      BY <1>16, <3>2 DEF Whole
    <3>4. u[Len(u)].frame = f /\ u[Len(u)].part = Len(u) /\ f.id < r[1].frame.id
      BY <1>0, <1>4, <1>10, <3>1
    <3> QED
      BY <1>7, <1>9, <2>1, <3>3, <3>4 DEF IsNext
  <2> QED
    BY <2>1, <2>2, <2>3, <2>4, <2>5 DEF Whole
<1>17. ASSUME Whole(s, fs, gs), Reaches(s, fs, gs)
       PROVE  Reaches(r, fs, hs)
  <2>0. s # <<>> /\ f.id = Len(gs) + 1
    BY <1>0, <1>3, <1>16, <1>17
  <2>1. CASE r = <<>>
    <3>1. s[Len(s)] = u[Len(u)]
      BY <1>0, <1>3, <2>1
    <3>2. f.id = Len(fs)
      BY <1>0, <1>4, <1>17, <2>0, <3>1 DEF Reaches
    <3> QED
      BY <1>7, <2>0, <2>1, <3>2 DEF Reaches
  <2>2. CASE r # <<>>
    <3>1. s[Len(s)] = r[Len(r)]
      BY <1>0, <1>3, <2>2
    <3> QED
      BY <1>17, <2>0, <2>2, <3>1 DEF Reaches
  <2> QED
    BY <2>1, <2>2
<1> QED
  BY <1>1, <1>2, <1>6, <1>15, <1>16, <1>17, Zenon

-----------------------------------------------------------------------------
(* The stream towards each side *)

\* Nothing more reaches the peer of p.
Broken(p) == sock[Peer(p)] = "closed" \/ ended[p] # "no"

Taken(e) == IF op[e].at \in {"header", "payload"} THEN op[e].units ELSE <<>>

Offered(p) == IF op[p].at = "send" /\ ~Broken(p) THEN op[p].units ELSE <<>>

Stream(e) == Taken(e) \o (wire[Peer(e)] \o Offered(Peer(e)))

\* What is known of a stream, with bad: a receive() has failed, and cut: the connection is
\* broken.
Kept(s, fs, gs, bad, cut) ==
    /\ Sound(s, fs, gs)
    /\ ~bad => Whole(s, fs, gs)
    /\ ~bad /\ ~cut => Reaches(s, fs, gs)

FromPeer(e) == Kept(Stream(e), sent[Peer(e)], got[e], failed[e], Broken(Peer(e)))

\* A frame carries its number.
Numbered(fs) == \A k \in DOMAIN fs : fs[k].id = k

\* receive() reads a payload only behind a header it has decoded.
HeaderRead(e) ==
    op[e].at = "payload" =>
        /\ op[e].units # <<>>
        /\ op[e].units[1].frame.form \notin {"magic", "version", "type", "length"}

\* The parent has no connection before it accepts one that the child has made.
AcceptsOnce ==
    /\ backlog => sock["parent"] = "none"
    /\ sock["child"] = "none" => ~backlog /\ sock["parent"] = "none"

StreamsKept ==
    /\ WireTypes /\ AcceptsOnce
    /\ \A e \in Ends : Numbered(sent[e]) /\ FromPeer(e) /\ HeaderRead(e)

LEMMA KeptCut ==
    ASSUME NEW a \in Seq(Unit), NEW b \in Seq(Unit), NEW c \in Seq(Unit), NEW fs, NEW gs,
           NEW bad, NEW cut, NEW end, Kept(a \o (b \o c), fs, gs, bad, cut)
    PROVE  /\ Kept(a, fs, gs, bad, TRUE) /\ Kept(a \o b, fs, gs, bad, TRUE)
           /\ Kept(b \o c, fs, gs, TRUE, end)
<1>1. Sound(a \o (b \o c), fs, gs)
  BY Zenon DEF Kept
<1>2. /\ Sound(b \o c, fs, gs) /\ Sound(a, fs, gs) /\ Sound(a \o b, fs, gs)
      /\ Whole(a \o (b \o c), fs, gs) => Whole(a, fs, gs) /\ Whole(a \o b, fs, gs)
  BY <1>1, Cut, Zenon
<1> QED
  BY <1>2, Zenon DEF Kept

LEMMA KeptMore ==
    ASSUME NEW s \in Seq(Unit), NEW fs \in Seq(Frame), NEW gs \in Seq(Frame), NEW f \in Frame,
           f.id = Len(fs) + 1, NEW bad, NEW cut, Kept(s, fs, gs, bad, cut)
    PROVE  /\ Kept(s, Append(fs, f), gs, bad, TRUE)
           /\ ~cut => Kept(s \o Units(f), Append(fs, f), gs, bad, cut)
<1>1. Sound(s, fs, gs)
  BY Zenon DEF Kept
<1>2. /\ Sound(s, Append(fs, f), gs) /\ Sound(s \o Units(f), Append(fs, f), gs)
      /\ Whole(s, fs, gs) => Whole(s, Append(fs, f), gs)
      /\ Whole(s, fs, gs) /\ Reaches(s, fs, gs) =>
            /\ Whole(s \o Units(f), Append(fs, f), gs)
            /\ Reaches(s \o Units(f), Append(fs, f), gs)
  BY <1>1, More, Zenon
<1> QED
  BY <1>2, Zenon DEF Kept

LEMMA KeptReturned ==
    ASSUME NEW u \in Seq(Unit), NEW r \in Seq(Unit), NEW fs \in Seq(Frame),
           NEW gs \in Seq(Frame), NEW bad, NEW cut, Kept(u \o r, fs, gs, bad, cut),
           u # <<>>, OfOneFrame(u), Len(u) = Size(u[1].frame), u[1].frame.form = "intact"
    PROVE  Kept(r, fs, Append(gs, u[1].frame), bad, cut)
<1>1. Sound(u \o r, fs, gs)
  BY Zenon DEF Kept
<1>2. LET hs == Append(gs, u[1].frame)
      IN  /\ Sound(r, fs, hs)
          /\ Whole(u \o r, fs, gs) => Whole(r, fs, hs)
          /\ Whole(u \o r, fs, gs) /\ Reaches(u \o r, fs, gs) => Reaches(r, fs, hs)
  BY <1>1, Returned, Zenon
<1> QED
  BY <1>2, Zenon DEF Kept

LEMMA StreamTypes ==
    ASSUME WireTypes, NEW e \in Ends
    PROVE  /\ Taken(e) \in Seq(Unit) /\ wire[e] \in Seq(Unit) /\ Offered(e) \in Seq(Unit)
           /\ sent[e] \in Seq(Frame) /\ got[e] \in Seq(Frame) /\ failed[e] \in BOOLEAN
           /\ op[e] \in [at : Calls, units : Seq(Unit)] /\ op[e].units \in Seq(Unit)
           /\ op[e].at \in Calls
<1>1. op[e] \in [at : Calls, units : Seq(Unit)]
  BY DEF WireTypes
<1>2. op[e].units \in Seq(Unit) /\ op[e].at \in Calls
  BY <1>1
<1>3. <<>> \in Seq(Unit)
  OBVIOUS
<1>4. Taken(e) \in Seq(Unit) /\ Offered(e) \in Seq(Unit)
  BY <1>2, <1>3, Zenon DEF Taken, Offered
<1> QED
  BY <1>1, <1>2, <1>4 DEF WireTypes

LEMMA GoFacts ==
    ASSUME WireTypes, NEW c \in Ends, NEW at \in Calls, NEW units \in Seq(Unit),
           Go(c, at, units)
    PROVE  /\ op' \in [Ends -> [at : Calls, units : Seq(Unit)]]
           /\ op'[c].at = at /\ op'[c].units = units
           /\ \A e \in Ends : e # c => op'[e] = op[e]
<1>1. op' = [op EXCEPT ![c] = [at |-> at, units |-> units]]
  BY DEF Go
<1>2. [at |-> at, units |-> units] \in [at : Calls, units : Seq(Unit)]
  OBVIOUS
<1> QED
  BY <1>1, <1>2 DEF WireTypes

\* The stream does not move, and the connection does not come back.
LEMMA Unmoved ==
    ASSUME NEW e \in Ends, FromPeer(e), Stream(e)' = Stream(e),
           sent'[Peer(e)] = sent[Peer(e)], got'[e] = got[e], failed'[e] = failed[e],
           Broken(Peer(e)) => Broken(Peer(e))'
    PROVE  FromPeer(e)'
  BY Zenon DEF FromPeer, Kept

\* A step that changes no stream.
Quiet ==
    /\ wire' = wire /\ ended' = ended
    /\ sent' = sent /\ got' = got /\ failed' = failed
    /\ sock' \in [Ends -> {"none", "open", "closed"}] /\ backlog' \in BOOLEAN
    /\ \A e \in Ends : (sock'[e] = "closed") <=> (sock[e] = "closed")

LEMMA QuietCall ==
    ASSUME WireTypes, Quiet, NEW c \in Ends, NEW at \in Calls \ {"send", "payload"},
           Go(c, at, <<>>), op[c].at \notin {"header", "payload"},
           op[c].at = "send" => Broken(c)
    PROVE  /\ WireTypes'
           /\ \A e \in Ends : FromPeer(e) => FromPeer(e)'
           /\ \A e \in Ends : HeaderRead(e) => HeaderRead(e)'
<1>0. <<>> \in Seq(Unit)
  OBVIOUS
<1>1. /\ op' \in [Ends -> [at : Calls, units : Seq(Unit)]]
      /\ op'[c].at = at /\ op'[c].units = <<>>
      /\ \A e \in Ends : e # c => op'[e] = op[e]
  BY <1>0, GoFacts
<1>2. WireTypes'
  BY <1>1 DEF WireTypes, Quiet
<1>3. \A e \in Ends : Broken(e)' <=> Broken(e)
  BY PeerFacts DEF Broken, Quiet
<1>4. \A e \in Ends : Taken(e)' = Taken(e)
  BY <1>1 DEF Taken
<1>5. \A e \in Ends : Offered(e)' = Offered(e)
  BY <1>1, <1>3 DEF Offered
<1>6. \A e \in Ends : Stream(e)' = Stream(e)
  BY <1>4, <1>5, PeerFacts DEF Stream, Quiet
<1>7. \A e \in Ends : FromPeer(e) => FromPeer(e)'
  BY <1>3, <1>6, PeerFacts, Unmoved DEF Quiet
<1>8. \A e \in Ends : HeaderRead(e) => HeaderRead(e)'
  BY <1>1 DEF HeaderRead
<1> QED
  BY <1>2, <1>7, <1>8

LEMMA QuietElsewhere ==
    ASSUME WireTypes, Quiet, op' = op
    PROVE  /\ WireTypes'
           /\ \A e \in Ends : FromPeer(e) => FromPeer(e)'
           /\ \A e \in Ends : HeaderRead(e) => HeaderRead(e)'
<1>2. WireTypes'
  BY DEF WireTypes, Quiet
<1>3. \A e \in Ends : Broken(e)' <=> Broken(e)
  BY PeerFacts DEF Broken, Quiet
<1>4. \A e \in Ends : Taken(e)' = Taken(e)
  BY DEF Taken
<1>5. \A e \in Ends : Offered(e)' = Offered(e)
  BY <1>3 DEF Offered
<1>6. \A e \in Ends : Stream(e)' = Stream(e)
  BY <1>4, <1>5, PeerFacts DEF Stream, Quiet
<1>7. \A e \in Ends : FromPeer(e) => FromPeer(e)'
  BY <1>3, <1>6, PeerFacts, Unmoved DEF Quiet
<1>8. \A e \in Ends : HeaderRead(e) => HeaderRead(e)'
  BY DEF HeaderRead
<1> QED
  BY <1>2, <1>7, <1>8

-----------------------------------------------------------------------------
(* The steps *)

LEMMA StreamsBegin == Init => StreamsKept
<1> SUFFICES ASSUME Init PROVE StreamsKept
  OBVIOUS
<1>1. <<>> \in Seq(Unit) /\ <<>> \in Seq(Frame)
  OBVIOUS
<1>2. Idle \in [at : Calls, units : Seq(Unit)] /\ Idle.at = "idle"
  BY <1>1 DEF Idle, Calls
<1>3. WireTypes
  BY <1>1, <1>2 DEF Init, WireTypes
<1>4. AcceptsOnce
  BY DEF Init, AcceptsOnce, Ends
<1>5. \A e \in Ends : Numbered(sent[e]) /\ HeaderRead(e)
  BY <1>2 DEF Init, Numbered, HeaderRead
<1>6. \A e \in Ends : FromPeer(e)
  <2> SUFFICES ASSUME NEW e \in Ends PROVE FromPeer(e)
    OBVIOUS
  <2>1. Taken(e) = <<>> /\ Offered(Peer(e)) = <<>> /\ wire[Peer(e)] = <<>>
        /\ sent[Peer(e)] = <<>> /\ got[e] = <<>>
    BY <1>2, PeerFacts DEF Init, Taken, Offered
  <2>2. Stream(e) = <<>>
    BY <2>1 DEF Stream
  <2>3. Sound(<<>>, <<>>, <<>>) /\ Whole(<<>>, <<>>, <<>>) /\ Reaches(<<>>, <<>>, <<>>)
    BY DEF Sound, Whole, Reaches
  <2> QED
    BY <2>1, <2>2, <2>3, Zenon DEF FromPeer, Kept
<1> QED
  BY <1>3, <1>4, <1>5, <1>6 DEF StreamsKept

\* Quiet steps keep the invariant, as far as they keep the connections.
LEMMA QuietKeeps ==
    ASSUME StreamsKept, Quiet, WireTypes', AcceptsOnce',
           \A e \in Ends : FromPeer(e) => FromPeer(e)',
           \A e \in Ends : HeaderRead(e) => HeaderRead(e)'
    PROVE  StreamsKept'
<1>1. \A e \in Ends : Numbered(sent[e])'
  BY DEF StreamsKept, Quiet, Numbered
<1> QED
  BY <1>1 DEF StreamsKept

LEMMA ParentCalls ==
    ASSUME StreamsKept, NEW at \in {"idle", "accept", "running", "wait"},
           Go("parent", at, <<>>),
           op["parent"].at \in {"idle", "accept", "running", "wait"},
           UNCHANGED <<sock, backlog, wire, ended, histVars>>
    PROVE  StreamsKept'
<1>1. Quiet
  BY DEF StreamsKept, WireTypes, Quiet, histVars
<1>2. "parent" \in Ends /\ at \in Calls \ {"send", "payload"}
  BY DEF Ends, Calls
<1>3. WireTypes
  BY DEF StreamsKept
<1>4. /\ WireTypes'
      /\ \A e \in Ends : FromPeer(e) => FromPeer(e)'
      /\ \A e \in Ends : HeaderRead(e) => HeaderRead(e)'
  BY <1>1, <1>2, <1>3, QuietCall
<1>5. AcceptsOnce'
  BY DEF StreamsKept, AcceptsOnce
<1> QED
  BY <1>1, <1>4, <1>5, QuietKeeps

LEMMA NothingMoves ==
    ASSUME StreamsKept, UNCHANGED <<sock, backlog, wire, ended, op, histVars>>
    PROVE  StreamsKept'
<1>1. Quiet
  BY DEF StreamsKept, WireTypes, Quiet, histVars
<1>2. /\ WireTypes'
      /\ \A e \in Ends : FromPeer(e) => FromPeer(e)'
      /\ \A e \in Ends : HeaderRead(e) => HeaderRead(e)'
  BY <1>1, QuietElsewhere DEF StreamsKept
<1>3. AcceptsOnce'
  BY DEF StreamsKept, AcceptsOnce
<1> QED
  BY <1>1, <1>2, <1>3, QuietKeeps

LEMMA LaunchKeeps ==
    ASSUME StreamsKept,
           BindLoopback \/ Spawn \/ AcceptWindowElapses \/ AskRunning
             \/ StartWait \/ Wait \/ Forget \/ Poll
    PROVE  StreamsKept'
<1>1. CASE BindLoopback \/ Forget \/ Poll
  BY <1>1, NothingMoves DEF BindLoopback, Forget, Poll, wireVars
<1>2. CASE Spawn
  BY <1>2, ParentCalls DEF Spawn, Calling, wireVars
<1>3. CASE AcceptWindowElapses
  BY <1>3, ParentCalls DEF AcceptWindowElapses, Calling, wireVars
<1>4. CASE AskRunning
  BY <1>4, ParentCalls DEF AskRunning, Calling, wireVars
<1>5. CASE StartWait \/ Wait
  BY <1>5, ParentCalls DEF StartWait, Wait, Calling, wireVars
<1> QED
  BY <1>1, <1>2, <1>3, <1>4, <1>5

LEMMA ConnectKeeps ==
    ASSUME StreamsKept, ConnectLoopback \/ Accept
    PROVE  StreamsKept'
<1>0. WireTypes /\ AcceptsOnce /\ "parent" \in Ends /\ "child" \in Ends
      /\ \A e \in Ends : e = "parent" \/ e = "child"
  BY DEF StreamsKept, Ends
<1>1. CASE ConnectLoopback
  <2>1. sock["child"] = "none" /\ sock' = [sock EXCEPT !["child"] = "open"] /\ backlog' = TRUE
        /\ op' = op /\ wire' = wire /\ ended' = ended
        /\ sent' = sent /\ got' = got /\ failed' = failed
    BY <1>1 DEF ConnectLoopback, histVars
  <2>2. Quiet
    BY <1>0, <2>1 DEF Quiet, WireTypes
  <2>3. AcceptsOnce'
    BY <1>0, <2>1 DEF AcceptsOnce, WireTypes
  <2> QED
    BY <1>0, <2>1, <2>2, <2>3, QuietElsewhere, QuietKeeps
<1>2. CASE Accept
  <2>1. op["parent"].at = "accept" /\ backlog /\ backlog' = FALSE
        /\ sock' = [sock EXCEPT !["parent"] = "open"]
        /\ Go("parent", "idle", <<>>) /\ wire' = wire /\ ended' = ended
        /\ sent' = sent /\ got' = got /\ failed' = failed
    BY <1>2 DEF Accept, Calling, histVars
  <2>2. sock["parent"] = "none" /\ sock["child"] # "none"
    BY <1>0, <2>1 DEF AcceptsOnce
  <2>3. Quiet
    BY <1>0, <2>1, <2>2 DEF Quiet, WireTypes
  <2>4. AcceptsOnce'
    BY <1>0, <2>1, <2>2 DEF AcceptsOnce, WireTypes
  <2>5. "idle" \in Calls \ {"send", "payload"}
    BY DEF Calls
  <2> QED
    BY <1>0, <2>1, <2>3, <2>4, <2>5, QuietCall, QuietKeeps
<1> QED
  BY <1>1, <1>2

LEMMA CallKeeps ==
    ASSUME StreamsKept, NEW c \in Ends, SendFails(c) \/ Receive(c)
    PROVE  StreamsKept'
<1>0. WireTypes /\ AcceptsOnce
  BY DEF StreamsKept
<1>1. Quiet /\ AcceptsOnce'
  BY <1>0 DEF SendFails, Receive, Quiet, AcceptsOnce, WireTypes, wireVars, histVars
<1>2. PICK at \in {"idle", "header"} : Go(c, at, <<>>) /\ (op[c].at = "idle" \/ (op[c].at = "send" /\ Broken(c)))
  BY DEF SendFails, Receive, Calling, Broken
<1>3. at \in Calls \ {"send", "payload"}
  BY DEF Calls
<1> QED
  BY <1>0, <1>1, <1>2, <1>3, QuietCall, QuietKeeps

\* A connection breaks: what a side had still to write is lost, and perhaps what was on
\* its way.
Breaks ==
    /\ op' = op /\ sent' = sent /\ got' = got /\ failed' = failed
    /\ sock' \in [Ends -> {"none", "open", "closed"}] /\ backlog' \in BOOLEAN
    /\ ended' \in [Ends -> {"no", "eof", "reset"}] /\ wire' \in [Ends -> Seq(Unit)]
    /\ \A e \in Ends : Broken(e) => Broken(e)'
    /\ \A e \in Ends : wire'[e] = wire[e] \/ (wire'[e] = <<>> /\ Broken(e)')

LEMMA BreakKeeps ==
    ASSUME StreamsKept, Breaks, AcceptsOnce'
    PROVE  StreamsKept'
<1>1. WireTypes /\ WireTypes'
  BY DEF StreamsKept, WireTypes, Breaks
<1>2. \A e \in Ends : Numbered(sent[e])' /\ HeaderRead(e)'
  BY DEF StreamsKept, Numbered, HeaderRead, Breaks
<1>3. ASSUME NEW e \in Ends PROVE FromPeer(e)'
  <2>0. PICK p \in Ends : p = Peer(e)
    BY PeerFacts
  <2>1. FromPeer(e)
    BY DEF StreamsKept
  <2>2. Taken(e)' = Taken(e)
    BY DEF Taken, Breaks
  <2>3. sent'[p] = sent[p] /\ got'[e] = got[e] /\ failed'[e] = failed[e]
    BY DEF Breaks
  <2>4. PICK a \in Seq(Unit) : a = Taken(e)
    BY <1>1, StreamTypes
  <2>5. PICK b \in Seq(Unit) : b = wire[p]
    BY <1>1, StreamTypes
  <2>6. PICK c \in Seq(Unit) : c = Offered(p)
    BY <1>1, StreamTypes
  <2>7. Stream(e) = a \o (b \o c)
    BY <2>0, <2>4, <2>5, <2>6 DEF Stream
  <2>8. CASE ~Broken(p)'
    <3>1. wire'[p] = wire[p] /\ ~Broken(p)
      BY <2>8 DEF Breaks
    <3>2. Offered(p)' = Offered(p)
      BY <2>8, <3>1 DEF Offered, Breaks
    <3>3. Stream(e)' = Stream(e)
      BY <2>0, <2>2, <3>1, <3>2 DEF Stream
    <3> QED
      BY <2>0, <2>1, <2>3, <3>1, <3>3, Unmoved
  <2>9. CASE Broken(p)'
    <3>1. Offered(p)' = <<>>
      BY <2>9 DEF Offered
    <3>2. wire'[p] = b \/ wire'[p] = <<>>
      BY <2>5 DEF Breaks
    <3>3. Stream(e)' = a \o b \/ Stream(e)' = a
      <4>1. Stream(e)' = a \o (wire'[p] \o <<>>)
        BY <2>0, <2>2, <2>4, <3>1 DEF Stream
      <4>2. b \o <<>> = b /\ <<>> \o <<>> = <<>> /\ a \o <<>> = a
        BY ConcatEmptySeq
      <4> QED
        BY <3>2, <4>1, <4>2
    <3>4. Kept(a \o (b \o c), sent[p], got[e], failed[e], Broken(p))
      BY <2>0, <2>1, <2>7 DEF FromPeer
    <3>5. Kept(a, sent[p], got[e], failed[e], TRUE) /\ Kept(a \o b, sent[p], got[e], failed[e], TRUE)
      BY <3>4, KeptCut
    <3>6. Kept(Stream(e)', sent[p], got[e], failed[e], TRUE)
      BY <3>3, <3>5
    <3> QED
      BY <2>0, <2>3, <2>9, <3>6, Zenon DEF FromPeer, Kept
  <2> QED
    BY <2>8, <2>9
<1> QED
  BY <1>1, <1>2, <1>3 DEF StreamsKept

LEMMA ClosedBreaks ==
    ASSUME StreamsKept, NEW c \in Ends, Closed(c), UNCHANGED <<backlog, op, histVars>>
    PROVE  StreamsKept'
<1>0. WireTypes /\ AcceptsOnce
  BY DEF StreamsKept
<1>1. CASE sock[c] # "open"
  BY <1>1, NothingMoves DEF Closed, wireVars
<1>2. CASE sock[c] = "open"
  <2>1. /\ sock' = [sock EXCEPT ![c] = "closed"]
        /\ \/ ended' = [ended EXCEPT ![c] = "eof"] /\ wire' = wire
           \/ ended' = [ended EXCEPT ![c] = "reset"] /\ wire' = [wire EXCEPT ![c] = <<>>]
    BY <1>2 DEF Closed
  <2>2. /\ sock' \in [Ends -> {"none", "open", "closed"}]
        /\ ended' \in [Ends -> {"no", "eof", "reset"}] /\ wire' \in [Ends -> Seq(Unit)]
    <3>0. <<>> \in Seq(Unit)
      OBVIOUS
    <3>1. PICK W : W = Seq(Unit)
      OBVIOUS
    <3>2. sock \in [Ends -> {"none", "open", "closed"}] /\ wire \in [Ends -> W]
          /\ ended \in [Ends -> {"no", "eof", "reset"}]
      BY <1>0, <3>1 DEF WireTypes
    <3>3. sock' \in [Ends -> {"none", "open", "closed"}]
      BY <2>1, <3>2
    <3>4. ended' \in [Ends -> {"no", "eof", "reset"}]
      BY <2>1, <3>2
    <3>5. wire' \in [Ends -> W]
      BY <2>1, <3>0, <3>1, <3>2
    <3> QED
      BY <3>1, <3>3, <3>4, <3>5
  <2>3. \A e \in Ends : Broken(e)'
    <3>1. sock'[c] = "closed" /\ ended'[c] # "no"
      BY <1>0, <2>1 DEF WireTypes
    <3> QED
      BY <3>1, PeerFacts DEF Broken
  <2>4. \A e \in Ends : wire'[e] = wire[e] \/ wire'[e] = <<>>
    BY <1>0, <2>1 DEF WireTypes
  <2>5. Breaks
    BY <1>0, <2>2, <2>3, <2>4 DEF Breaks, histVars, WireTypes
  <2>6. AcceptsOnce'
    BY <1>0, <1>2, <2>1 DEF AcceptsOnce, WireTypes, Ends
  <2> QED
    BY <2>5, <2>6, BreakKeeps
<1> QED
  BY <1>1, <1>2

LEMMA EndKeeps ==
    ASSUME StreamsKept,
           (\E e \in Ends : Close(e) \/ ShutdownSend(e)) \/ CloseListener \/ ChildExits
             \/ Terminate
    PROVE  StreamsKept'
<1>0. WireTypes /\ AcceptsOnce /\ "child" \in Ends /\ "parent" \in Ends
  BY DEF StreamsKept, Ends
<1>1. ASSUME NEW e \in Ends, Close(e) PROVE StreamsKept'
  BY <1>1, ClosedBreaks DEF Close
<1>2. ASSUME NEW c \in Ends, ShutdownSend(c) PROVE StreamsKept'
  <2>1. ended' = [ended EXCEPT ![c] = "eof"] /\ sock' = sock /\ wire' = wire
    BY <1>2 DEF ShutdownSend
  <2>2. ended' \in [Ends -> {"no", "eof", "reset"}]
        /\ \A e \in Ends : ended'[e] = ended[e] \/ ended'[e] # "no"
    BY <1>0, <2>1 DEF WireTypes
  <2>3. \A e \in Ends : Broken(e) => Broken(e)'
    BY <2>1, <2>2 DEF Broken
  <2>4. Breaks
    BY <1>0, <1>2, <2>1, <2>2, <2>3 DEF Breaks, ShutdownSend, histVars, WireTypes
  <2>5. AcceptsOnce'
    BY <1>0, <1>2 DEF AcceptsOnce, ShutdownSend
  <2> QED
    BY <2>4, <2>5, BreakKeeps
<1>3. CASE CloseListener
  <2>1. CASE ~backlog
    <3>1. UNCHANGED <<sock, backlog, wire, ended, op, histVars>>
      BY <1>0, <1>3, <2>1 DEF CloseListener, WireTypes
    <3> QED
      BY <3>1, NothingMoves
  <2>2. CASE backlog
    <3>1. sock' = [sock EXCEPT !["parent"] = "closed"] /\ backlog' = FALSE
          /\ ended' = [ended EXCEPT !["parent"] = "reset"] /\ wire' = wire
      BY <1>3, <2>2 DEF CloseListener
    <3>2. sock' \in [Ends -> {"none", "open", "closed"}]
          /\ ended' \in [Ends -> {"no", "eof", "reset"}]
      BY <1>0, <3>1 DEF WireTypes
    <3>3. \A e \in Ends : Broken(e)'
      <4>1. sock'["parent"] = "closed" /\ ended'["parent"] # "no"
        BY <1>0, <3>1 DEF WireTypes
      <4> QED
        BY <1>0, <4>1, PeerFacts DEF Broken
    <3>4. Breaks
      BY <1>0, <1>3, <3>1, <3>2, <3>3 DEF Breaks, CloseListener, histVars, WireTypes
    <3>5. AcceptsOnce'
      BY <1>0, <2>2, <3>1 DEF AcceptsOnce, WireTypes
    <3> QED
      BY <3>4, <3>5, BreakKeeps
  <2> QED
    BY <2>1, <2>2
<1>4. CASE ChildExits
  BY <1>0, <1>4, ClosedBreaks DEF ChildExits
<1>5. CASE Terminate
  <2>1. Closed("child") \/ UNCHANGED wireVars
    BY <1>5 DEF Terminate
  <2>2. UNCHANGED <<backlog, op, histVars>>
    BY <1>5 DEF Terminate
  <2> QED
    BY <1>0, <2>1, <2>2, ClosedBreaks, NothingMoves DEF wireVars
<1> QED
  BY <1>1, <1>2, <1>3, <1>4, <1>5

\* send() puts its frame at the end of the stream, or nowhere.
LEMMA StartSendKeeps ==
    ASSUME StreamsKept, NEW c \in Ends, NEW f \in Frame, f.id = Len(sent[c]) + 1,
           StartSend(c, f)
    PROVE  StreamsKept'
<1>0. WireTypes /\ AcceptsOnce
  BY DEF StreamsKept
<1>1. /\ op[c].at = "idle" /\ Go(c, "send", Units(f))
      /\ sent' = [sent EXCEPT ![c] = Append(@, f)]
      /\ sock' = sock /\ wire' = wire /\ ended' = ended /\ got' = got /\ failed' = failed
      /\ backlog' = backlog
  BY DEF StartSend, Calling, wireVars
<1>2. "send" \in Calls /\ Units(f) \in Seq(Unit)
  BY UnitsFacts DEF Calls
<1>3. /\ op' \in [Ends -> [at : Calls, units : Seq(Unit)]]
      /\ op'[c].at = "send" /\ op'[c].units = Units(f)
      /\ \A e \in Ends : e # c => op'[e] = op[e]
  BY <1>0, <1>1, <1>2, GoFacts
<1>4. sent[c] \in Seq(Frame) /\ Len(sent[c]) \in Nat
  BY <1>0 DEF WireTypes
<1>5. /\ sent' \in [Ends -> Seq(Frame)] /\ sent'[c] = Append(sent[c], f)
      /\ \A e \in Ends : e # c => sent'[e] = sent[e]
  BY <1>0, <1>1, <1>4 DEF WireTypes
<1>6. WireTypes' /\ AcceptsOnce'
  BY <1>0, <1>1, <1>3, <1>5 DEF WireTypes, AcceptsOnce
<1>7. \A e \in Ends : Broken(e)' <=> Broken(e)
  BY <1>1 DEF Broken
<1>8. \A e \in Ends : Taken(e)' = Taken(e)
  BY <1>1, <1>3 DEF Taken
<1>9. \A e \in Ends : e # c => Offered(e)' = Offered(e)
  BY <1>3, <1>7 DEF Offered
<1>10. \A e \in Ends : Numbered(sent[e])'
  <2> SUFFICES ASSUME NEW e \in Ends, NEW k \in DOMAIN sent'[e] PROVE sent'[e][k].id = k
    BY DEF Numbered
  <2>1. Numbered(sent[e])
    BY DEF StreamsKept
  <2>2. CASE e # c
    BY <1>5, <2>1, <2>2 DEF Numbered
  <2>3. CASE e = c
    BY <1>4, <1>5, <2>1, <2>3 DEF Numbered
  <2> QED
    BY <2>2, <2>3
<1>11. \A e \in Ends : HeaderRead(e)'
  BY <1>3 DEF StreamsKept, HeaderRead
<1>12. FromPeer(c)'
  <2>1. Peer(c) \in Ends /\ Peer(c) # c
    BY PeerFacts
  <2>2. Stream(c)' = Stream(c)
    BY <1>1, <1>8, <1>9, <2>1 DEF Stream
  <2>3. FromPeer(c)
    BY DEF StreamsKept
  <2> QED
    BY <1>1, <1>5, <1>7, <2>1, <2>2, <2>3, Unmoved
<1>13. FromPeer(Peer(c))'
  <2>0. PICK e \in Ends : e = Peer(c)
    BY PeerFacts
  <2>1. Peer(e) = c /\ e # c
    BY <2>0, PeerFacts
  <2>2. PICK a \in Seq(Unit) : a = Taken(e)
    BY <1>0, StreamTypes
  <2>3. PICK b \in Seq(Unit) : b = wire[c]
    BY <1>0, StreamTypes
  <2>4. Offered(c) = <<>>
    BY <1>1 DEF Offered
  <2>5. b \o <<>> = b /\ a \o b \in Seq(Unit)
    BY ConcatEmptySeq, ConcatProperties
  <2>6. Stream(e) = a \o b
    BY <2>1, <2>2, <2>3, <2>4, <2>5 DEF Stream
  <2>7. got[e] \in Seq(Frame)
    BY <1>0, StreamTypes
  <2>8. Kept(a \o b, sent[c], got[e], failed[e], Broken(c))
    BY <2>1, <2>6 DEF StreamsKept, FromPeer
  <2>9. /\ Kept(a \o b, Append(sent[c], f), got[e], failed[e], TRUE)
        /\ ~Broken(c) => Kept((a \o b) \o Units(f), Append(sent[c], f), got[e], failed[e], Broken(c))
    BY <1>4, <2>5, <2>7, <2>8, KeptMore
  <2>10. ASSUME Broken(c) PROVE FromPeer(e)'
    <3>1. Offered(c)' = <<>>
      BY <1>7, <2>10 DEF Offered
    <3>2. Stream(e)' = a \o b
      BY <1>1, <1>8, <2>1, <2>2, <2>3, <2>5, <3>1 DEF Stream
    <3>3. Kept(Stream(e)', sent'[c], got'[e], failed'[e], TRUE)
      BY <1>1, <1>5, <2>9, <3>2
    <3> QED
      BY <1>7, <2>1, <2>10, <3>3, Zenon DEF FromPeer, Kept
  <2>11. ASSUME ~Broken(c) PROVE FromPeer(e)'
    <3>1. Offered(c)' = Units(f)
      BY <1>3, <1>7, <2>11 DEF Offered
    <3>2. Stream(e)' = a \o (b \o Units(f))
      BY <1>1, <1>8, <2>1, <2>2, <2>3, <3>1 DEF Stream
    <3>3. a \o (b \o Units(f)) = (a \o b) \o Units(f)
      <4>1. PICK x \in Seq(Unit) : x = Units(f)
        BY <1>2
      <4>2. (a \o b) \o x = a \o (b \o x)
        BY SMTT(30)
      <4> QED
        BY <4>1, <4>2, Zenon
    <3>4. Kept(Stream(e)', sent'[c], got'[e], failed'[e], Broken(c))
      BY <1>1, <1>5, <2>9, <2>11, <3>2, <3>3
    <3> QED
      BY <1>7, <2>1, <3>4, Zenon DEF FromPeer, Kept
  <2> QED
    BY <2>0, <2>10, <2>11
<1> QED
  BY <1>6, <1>10, <1>11, <1>12, <1>13, PeerFacts DEF StreamsKept

LEMMA SendKeeps ==
    ASSUME StreamsKept, (\E e \in Ends : Send(e)) \/ SendRaw
    PROVE  StreamsKept'
<1>0. WireTypes
  BY DEF StreamsKept
<1>1. ASSUME NEW e \in Ends, NEW size \in 0..MaxPayload, NEW form \in Forms,
             StartSend(e, [from |-> e, id |-> Len(sent[e]) + 1, size |-> size, form |-> form])
      PROVE  StreamsKept'
  <2>1. PICK f : f = [from |-> e, id |-> Len(sent[e]) + 1, size |-> size, form |-> form]
    OBVIOUS
  <2>2. sent[e] \in Seq(Frame) /\ Len(sent[e]) + 1 \in Nat
    BY <1>0 DEF WireTypes
  <2>3. f \in Frame /\ f.id = Len(sent[e]) + 1
    BY <2>1, <2>2 DEF Frame
  <2> QED
    BY <1>1, <2>1, <2>3, StartSendKeeps
<1>2. "intact" \in Forms /\ (\A form \in RawForms : form \in Forms) /\ "child" \in Ends
  BY DEF Forms, Ends
<1> QED
  BY <1>1, <1>2 DEF Send, SendRaw

\* One ::send() moves units from the call to the wire.
LEMMA SendSomeKeeps ==
    ASSUME StreamsKept, NEW c \in Ends, SendSome(c)
    PROVE  StreamsKept'
<1>0. WireTypes /\ AcceptsOnce
  BY DEF StreamsKept
<1>1. PICK n \in 1..Len(op[c].units) :
          /\ wire' = [wire EXCEPT ![c] = @ \o SubSeq(op[c].units, 1, n)]
          /\ LET left == SubSeq(op[c].units, n + 1, Len(op[c].units))
             IN  Go(c, IF left = <<>> THEN "idle" ELSE "send", left)
  BY DEF SendSome
<1>2. /\ op[c].at = "send" /\ ~Broken(c)
      /\ sock' = sock /\ ended' = ended /\ sent' = sent /\ got' = got /\ failed' = failed
      /\ backlog' = backlog
  BY DEF SendSome, Calling, Broken, histVars
<1>3. PICK u \in Seq(Unit) : u = op[c].units
  BY <1>0, StreamTypes
<1>4. PICK x : x = SubSeq(u, 1, n)
  OBVIOUS
<1>5. PICK y : y = SubSeq(u, n + 1, Len(u))
  OBVIOUS
<1>6. x \in Seq(Unit) /\ y \in Seq(Unit) /\ u = x \o y
  BY <1>1, <1>3, <1>4, <1>5, Halves
<1>7. PICK at \in {"idle", "send"} : Go(c, at, y) /\ (at = "idle" => y = <<>>)
  BY <1>1, <1>3, <1>5
<1>8. /\ op' \in [Ends -> [at : Calls, units : Seq(Unit)]]
      /\ op'[c].at = at /\ op'[c].units = y
      /\ \A e \in Ends : e # c => op'[e] = op[e]
  <2>1. at \in Calls
    BY DEF Calls
  <2> QED
    BY <1>0, <1>6, <1>7, <2>1, GoFacts
<1>9. PICK w \in Seq(Unit) : w = wire[c]
  BY <1>0, StreamTypes
<1>10. /\ wire' \in [Ends -> Seq(Unit)] /\ wire'[c] = w \o x
       /\ \A e \in Ends : e # c => wire'[e] = wire[e]
  <2>1. wire' = [wire EXCEPT ![c] = w \o x] /\ w \o x \in Seq(Unit)
    BY <1>1, <1>3, <1>4, <1>6, <1>9, ConcatProperties
  <2> QED
    BY <1>0, <2>1 DEF WireTypes
<1>11. WireTypes' /\ AcceptsOnce'
  BY <1>0, <1>2, <1>8, <1>10 DEF WireTypes, AcceptsOnce
<1>12. \A e \in Ends : Broken(e)' <=> Broken(e)
  BY <1>2 DEF Broken
<1>13. \A e \in Ends : Taken(e)' = Taken(e)
  BY <1>2, <1>7, <1>8 DEF Taken
<1>14. \A e \in Ends : e # c => Offered(e)' = Offered(e)
  BY <1>8, <1>12 DEF Offered
<1>15. Offered(c) = x \o y /\ Offered(c)' = y
  BY <1>2, <1>3, <1>6, <1>7, <1>8, <1>12 DEF Offered
<1>16. \A e \in Ends : Stream(e)' = Stream(e)
  <2> SUFFICES ASSUME NEW e \in Ends PROVE Stream(e)' = Stream(e)
    OBVIOUS
  <2>1. Peer(e) \in Ends
    BY PeerFacts
  <2>2. CASE Peer(e) # c
    BY <1>10, <1>13, <1>14, <2>1, <2>2 DEF Stream
  <2>3. CASE Peer(e) = c
    <3>1. (w \o x) \o y = w \o (x \o y)
      BY <1>6, ConcatAssociative
    <3> QED
      BY <1>9, <1>10, <1>13, <1>15, <2>3, <3>1 DEF Stream
  <2> QED
    BY <2>2, <2>3
<1>17. \A e \in Ends : FromPeer(e)'
  BY <1>2, <1>12, <1>16, PeerFacts, Unmoved DEF StreamsKept
<1>18. \A e \in Ends : Numbered(sent[e])' /\ HeaderRead(e)'
  BY <1>2, <1>7, <1>8 DEF StreamsKept, Numbered, HeaderRead
<1> QED
  BY <1>11, <1>17, <1>18 DEF StreamsKept

-----------------------------------------------------------------------------
(* receive() *)

\* What one ::recv() leaves alone: everything but the call's own side of the stream.
Reads(c, x, rest) ==
    /\ op[c].at \in {"header", "payload"}
    /\ x \in Seq(Unit) /\ rest \in Seq(Unit) /\ wire[Peer(c)] = x \o rest
    /\ wire' \in [Ends -> Seq(Unit)] /\ wire'[Peer(c)] = rest /\ wire'[c] = wire[c]
    /\ sock' = sock /\ ended' = ended /\ backlog' = backlog /\ sent' = sent

\* The stream before the ::recv(), and the other side's stream after it.
LEMMA ReadFacts ==
    ASSUME StreamsKept, NEW c \in Ends, NEW x, NEW rest, Reads(c, x, rest),
           NEW at \in Calls \ {"send"}, NEW units \in Seq(Unit), Go(c, at, units),
           got' \in [Ends -> Seq(Frame)], failed' \in [Ends -> BOOLEAN],
           got'[Peer(c)] = got[Peer(c)], failed'[Peer(c)] = failed[Peer(c)]
    PROVE  /\ WireTypes' /\ AcceptsOnce' /\ FromPeer(Peer(c))' /\ HeaderRead(Peer(c))'
           /\ \A e \in Ends : Numbered(sent[e])'
           /\ op'[c].at = at /\ op'[c].units = units
           /\ Broken(Peer(c))' <=> Broken(Peer(c))
           /\ Stream(c) = (op[c].units \o x) \o (rest \o Offered(Peer(c)))
           /\ Stream(c)' = (IF at = "idle" THEN <<>> ELSE Taken(c)') \o (rest \o Offered(Peer(c)))
<1>0. WireTypes /\ AcceptsOnce
  BY DEF StreamsKept
<1>1. /\ op' \in [Ends -> [at : Calls, units : Seq(Unit)]]
      /\ op'[c].at = at /\ op'[c].units = units
      /\ \A e \in Ends : e # c => op'[e] = op[e]
  BY <1>0, GoFacts
<1>2. WireTypes' /\ AcceptsOnce'
  BY <1>0, <1>1 DEF WireTypes, AcceptsOnce, Reads
<1>3. \A e \in Ends : Broken(e)' <=> Broken(e)
  BY DEF Broken, Reads
<1>4. PICK p \in Ends : p = Peer(c) /\ p # c /\ Peer(p) = c
  BY PeerFacts
<1>5. Offered(p)' = Offered(p) /\ Taken(p)' = Taken(p) /\ Offered(c)' = <<>> /\ Offered(c) = <<>>
  BY <1>1, <1>3, <1>4 DEF Offered, Taken, Reads
<1>6. FromPeer(p)'
  <2>1. Stream(p)' = Stream(p)
    BY <1>4, <1>5 DEF Stream, Reads
  <2>2. FromPeer(p)
    BY DEF StreamsKept
  <2> QED
    BY <1>3, <1>4, <2>1, <2>2, Unmoved DEF Reads
<1>7. HeaderRead(p)' /\ \A e \in Ends : Numbered(sent[e])'
  BY <1>1, <1>4 DEF StreamsKept, HeaderRead, Numbered, Reads
<1>8. Stream(c) = (op[c].units \o x) \o (rest \o Offered(p))
  <2>1. PICK u \in Seq(Unit) : u = op[c].units
    BY <1>0, StreamTypes
  <2>2. PICK o \in Seq(Unit) : o = Offered(p)
    BY <1>0, StreamTypes
  <2>3. Taken(c) = u
    BY <2>1 DEF Taken, Reads
  <2>4. x \in Seq(Unit) /\ rest \in Seq(Unit) /\ wire[p] = x \o rest
    BY <1>4 DEF Reads
  <2>5. Stream(c) = u \o ((x \o rest) \o o)
    BY <1>4, <2>2, <2>3, <2>4 DEF Stream
  <2>6. u \o ((x \o rest) \o o) = (u \o x) \o (rest \o o)
    <3>1. u \in Seq(Unit) /\ x \in Seq(Unit) /\ rest \in Seq(Unit) /\ o \in Seq(Unit)
      BY <2>4
    <3>2. PICK r \in Seq(Unit) : r = rest \o o
      BY <3>1, ConcatProperties
    <3>3. (x \o rest) \o o = x \o r
      BY <3>1, <3>2, SMTT(30)
    <3>4. (u \o x) \o r = u \o (x \o r)
      BY <3>1, SMTT(30)
    <3> QED
      BY <3>2, <3>3, <3>4, Zenon
  <2> QED
    BY <2>1, <2>2, <2>5, <2>6
<1>9. Stream(c)' = (IF at = "idle" THEN <<>> ELSE Taken(c)') \o (rest \o Offered(p))
  <2>1. Stream(c)' = Taken(c)' \o (rest \o Offered(p))
    BY <1>4, <1>5 DEF Stream, Reads
  <2>2. at = "idle" => Taken(c)' = <<>>
    BY <1>1 DEF Taken
  <2> QED
    BY <2>1, <2>2
<1> QED
  BY <1>1, <1>2, <1>3, <1>4, <1>6, <1>7, <1>8, <1>9

LEMMA BothSides ==
    ASSUME NEW c \in Ends, WireTypes', AcceptsOnce', \A e \in Ends : Numbered(sent[e])',
           FromPeer(c)', FromPeer(Peer(c))', HeaderRead(c)', HeaderRead(Peer(c))'
    PROVE  StreamsKept'
<1>1. ASSUME NEW e \in Ends PROVE FromPeer(e)' /\ HeaderRead(e)'
  <2>1. e = c \/ e = Peer(c)
    BY PeerFacts
  <2>2. CASE e = c
    BY <2>2
  <2>3. CASE e = Peer(c)
    BY <2>3
  <2> QED
    BY <2>1, <2>2, <2>3
<1> QED
  BY <1>1 DEF StreamsKept

\* receive() reads on.
LEMMA ReadsOn ==
    ASSUME StreamsKept, NEW c \in Ends, NEW x, NEW rest, Reads(c, x, rest),
           NEW at \in {"header", "payload"}, Go(c, at, op[c].units \o x), UNCHANGED histVars,
           at = "payload" =>
             /\ op[c].units \o x # <<>>
             /\ (op[c].units \o x)[1].frame.form \notin {"magic", "version", "type", "length"}
    PROVE  StreamsKept'
<1>0. WireTypes
  BY DEF StreamsKept
<1>1. PICK u \in Seq(Unit) : u = op[c].units \o x
  <2>1. x \in Seq(Unit) /\ op[c].units \in Seq(Unit)
    BY <1>0, StreamTypes DEF Reads
  <2> QED
    BY <2>1, ConcatProperties
<1>2. at \in Calls \ {"send"}
  BY DEF Calls
<1>3. Go(c, at, u) /\ got' = got /\ failed' = failed
  BY <1>1 DEF histVars
<1>4. got' \in [Ends -> Seq(Frame)] /\ failed' \in [Ends -> BOOLEAN]
  BY <1>0, <1>3 DEF WireTypes
<1>5. /\ WireTypes' /\ AcceptsOnce' /\ FromPeer(Peer(c))' /\ HeaderRead(Peer(c))'
      /\ \A e \in Ends : Numbered(sent[e])'
      /\ op'[c].at = at /\ op'[c].units = u
      /\ Broken(Peer(c))' <=> Broken(Peer(c))
      /\ Stream(c) = u \o (rest \o Offered(Peer(c)))
      /\ Stream(c)' = Taken(c)' \o (rest \o Offered(Peer(c)))
  BY <1>1, <1>2, <1>3, <1>4, ReadFacts
<1>6. Taken(c)' = u
  BY <1>5 DEF Taken
<1>7. FromPeer(c)'
  <2>1. FromPeer(c)
    BY DEF StreamsKept
  <2>2. sent'[Peer(c)] = sent[Peer(c)]
    BY DEF Reads
  <2> QED
    BY <1>3, <1>5, <1>6, <2>1, <2>2, Unmoved
<1>8. HeaderRead(c)'
  BY <1>1, <1>5 DEF HeaderRead
<1> QED
  BY <1>5, <1>7, <1>8, BothSides

\* receive() gives up what it has read.
LEMMA ReadsInVain ==
    ASSUME StreamsKept, NEW c \in Ends, NEW x, NEW rest, Reads(c, x, rest), ReceiveFails(c)
    PROVE  StreamsKept'
<1>0. WireTypes
  BY DEF StreamsKept
<1>1. /\ failed' = [failed EXCEPT ![c] = TRUE] /\ Go(c, "idle", <<>>) /\ got' = got
      /\ sent' = sent
  BY DEF ReceiveFails
<1>2. "idle" \in Calls \ {"send"} /\ <<>> \in Seq(Unit)
  BY DEF Calls
<1>3. /\ got' \in [Ends -> Seq(Frame)] /\ failed' \in [Ends -> BOOLEAN] /\ failed'[c] = TRUE
      /\ failed'[Peer(c)] = failed[Peer(c)]
  BY <1>0, <1>1, PeerFacts DEF WireTypes
<1>4. /\ WireTypes' /\ AcceptsOnce' /\ FromPeer(Peer(c))' /\ HeaderRead(Peer(c))'
      /\ \A e \in Ends : Numbered(sent[e])'
      /\ op'[c].at = "idle"
      /\ Stream(c) = (op[c].units \o x) \o (rest \o Offered(Peer(c)))
      /\ Stream(c)' = <<>> \o (rest \o Offered(Peer(c)))
  BY <1>1, <1>2, <1>3, ReadFacts
<1>5. PICK u \in Seq(Unit) : u = op[c].units \o x
  <2>1. x \in Seq(Unit) /\ op[c].units \in Seq(Unit)
    BY <1>0, StreamTypes DEF Reads
  <2> QED
    BY <2>1, ConcatProperties
<1>6. PICK o \in Seq(Unit) : o = Offered(Peer(c))
  BY <1>0, PeerFacts, StreamTypes
<1>7. rest \in Seq(Unit) /\ rest \o o \in Seq(Unit)
  BY ConcatProperties DEF Reads
<1>8. Stream(c) = u \o (rest \o o) /\ Stream(c)' = rest \o o
  BY <1>4, <1>5, <1>6, <1>7, ConcatEmptySeq
<1>9. Kept(u \o (rest \o o), sent[Peer(c)], got[c], failed[c], Broken(Peer(c)))
  BY <1>8 DEF StreamsKept, FromPeer
<1>10. Kept(rest \o o, sent[Peer(c)], got[c], TRUE, Broken(Peer(c))')
  BY <1>7, <1>9, KeptCut
<1>11. FromPeer(c)'
  BY <1>1, <1>3, <1>8, <1>10 DEF FromPeer
<1>12. HeaderRead(c)'
  BY <1>4 DEF HeaderRead
<1> QED
  BY <1>4, <1>11, <1>12, BothSides

\* receive() returns the frame it has read.
LEMMA ReadsFrame ==
    ASSUME StreamsKept, NEW c \in Ends, NEW x, NEW rest, Reads(c, x, rest),
           NEW u \in Seq(Unit), u = op[c].units \o x, u # <<>>, OfOneFrame(u),
           Len(u) = Size(u[1].frame), u[1].frame.form = "intact",
           ReturnFrame(c, u[1].frame)
    PROVE  StreamsKept'
<1>0. WireTypes
  BY DEF StreamsKept
<1>1. /\ got' = [got EXCEPT ![c] = Append(@, u[1].frame)] /\ Go(c, "idle", <<>>)
      /\ failed' = failed /\ sent' = sent
  BY DEF ReturnFrame
<1>2. "idle" \in Calls \ {"send"} /\ <<>> \in Seq(Unit)
  BY DEF Calls
<1>3. got[c] \in Seq(Frame) /\ u[1].frame \in Frame
  <2>1. u[1] \in Unit
    OBVIOUS
  <2> QED
    BY <1>0, <2>1, StreamTypes DEF Unit
<1>4. /\ got' \in [Ends -> Seq(Frame)] /\ failed' \in [Ends -> BOOLEAN]
      /\ got'[c] = Append(got[c], u[1].frame)
      /\ got'[Peer(c)] = got[Peer(c)]
  <2>1. PICK gs : gs = Append(got[c], u[1].frame)
    OBVIOUS
  <2>2. got \in [Ends -> Seq(Frame)] /\ failed \in [Ends -> BOOLEAN]
    BY <1>0 DEF WireTypes
  <2>3. gs \in Seq(Frame)
    BY <1>3, <2>1
  <2>4. PICK W : W = Seq(Frame)
    OBVIOUS
  <2>5. got' = [got EXCEPT ![c] = gs] /\ got \in [Ends -> W] /\ gs \in W
    BY <1>1, <2>1, <2>2, <2>3, <2>4
  <2>6. got' \in [Ends -> W] /\ got'[c] = gs /\ got'[Peer(c)] = got[Peer(c)]
    BY <2>5, PeerFacts
  <2> QED
    BY <1>1, <2>1, <2>2, <2>4, <2>6
<1>5. /\ WireTypes' /\ AcceptsOnce' /\ FromPeer(Peer(c))' /\ HeaderRead(Peer(c))'
      /\ \A e \in Ends : Numbered(sent[e])'
      /\ op'[c].at = "idle"
      /\ Broken(Peer(c))' <=> Broken(Peer(c))
      /\ Stream(c) = u \o (rest \o Offered(Peer(c)))
      /\ Stream(c)' = <<>> \o (rest \o Offered(Peer(c)))
  BY <1>1, <1>2, <1>4, ReadFacts
<1>6. PICK o \in Seq(Unit) : o = Offered(Peer(c))
  BY <1>0, PeerFacts, StreamTypes
<1>7. PICK r \in Seq(Unit) : r = rest \o o
  <2>1. rest \in Seq(Unit)
    BY DEF Reads
  <2> QED
    BY <2>1, ConcatProperties
<1>8. Stream(c) = u \o r /\ Stream(c)' = r
  BY <1>5, <1>6, <1>7, ConcatEmptySeq
<1>9. sent[Peer(c)] \in Seq(Frame)
  BY <1>0, PeerFacts, StreamTypes
<1>10. Kept(u \o r, sent[Peer(c)], got[c], failed[c], Broken(Peer(c)))
  BY <1>8 DEF StreamsKept, FromPeer
<1>11. Kept(r, sent[Peer(c)], Append(got[c], u[1].frame), failed[c], Broken(Peer(c)))
  BY <1>3, <1>9, <1>10, KeptReturned
<1>12. FromPeer(c)'
  <2>1. Kept(Stream(c)', sent'[Peer(c)], got'[c], failed'[c], Broken(Peer(c)))
    BY <1>1, <1>4, <1>8, <1>11
  <2> QED
    BY <1>5, <2>1, Zenon DEF FromPeer, Kept
<1>13. HeaderRead(c)'
  BY <1>5 DEF HeaderRead
<1> QED
  BY <1>5, <1>12, <1>13, BothSides

LEMMA ReceiveAtEndKeeps ==
    ASSUME StreamsKept, NEW c \in Ends, ReceiveAtEnd(c)
    PROVE  StreamsKept'
<1>0. WireTypes
  BY DEF StreamsKept
<1>1. Reads(c, <<>>, <<>>)
  <2>1. <<>> \in Seq(Unit) /\ <<>> \o <<>> = <<>>
    OBVIOUS
  <2>2. op[c].at \in {"header", "payload"} /\ wire[Peer(c)] = <<>> /\ wire' = wire
        /\ sock' = sock /\ ended' = ended /\ backlog' = backlog /\ sent' = sent
    BY DEF ReceiveAtEnd, Calling, Incoming, wireVars, ReceiveFails
  <2> QED
    BY <1>0, <2>1, <2>2 DEF Reads, WireTypes
<1> QED
  BY <1>1, ReadsInVain DEF ReceiveAtEnd

LEMMA ReceiveSomeKeeps ==
    ASSUME StreamsKept, NEW c \in Ends, ReceiveSome(c)
    PROVE  StreamsKept'
<1>0. WireTypes /\ HeaderRead(c)
  BY DEF StreamsKept
<1>1. PICK p \in Ends : p = Peer(c) /\ p # c
  BY PeerFacts
<1>2. PICK w \in Seq(Unit) : w = wire[p]
  BY <1>0, StreamTypes
<1>3. PICK n \in 1..Len(w) :
        LET units == op[c].units \o SubSeq(w, 1, n)
        IN  /\ Len(units) <= Wanted(c)
            /\ wire' = [wire EXCEPT ![p] = SubSeq(w, n + 1, Len(w))]
            /\ IF Len(units) < Wanted(c)
               THEN Go(c, op[c].at, units) /\ UNCHANGED histVars
               ELSE Received(c, units)
  BY <1>1, <1>2 DEF ReceiveSome, Incoming
<1>4. PICK x : x = SubSeq(w, 1, n)
  OBVIOUS
<1>5. PICK rest : rest = SubSeq(w, n + 1, Len(w))
  OBVIOUS
<1>6. x \in Seq(Unit) /\ rest \in Seq(Unit) /\ w = x \o rest
  BY <1>4, <1>5, Halves
<1>7. x # <<>>
  BY <1>3, <1>4
<1>8. PICK v \in Seq(Unit) : v = op[c].units
  BY <1>0, StreamTypes
<1>9. PICK u : u = v \o x
  OBVIOUS
<1>10. u \in Seq(Unit) /\ Len(u) = Len(v) + Len(x) /\ Len(u) \in Nat \ {0} /\ u # <<>>
       /\ (v # <<>> => u[1] = v[1])
  BY <1>6, <1>7, <1>9
<1>11. /\ Len(u) <= Wanted(c)
       /\ IF Len(u) < Wanted(c) THEN Go(c, op[c].at, u) /\ UNCHANGED histVars
          ELSE Received(c, u)
  BY <1>3, <1>4, <1>8, <1>9
<1>12. op[c].at \in {"header", "payload"}
  BY DEF ReceiveSome, Calling
<1>13. ASSUME sent' = sent PROVE Reads(c, x, rest)
  <2>1. wire' \in [Ends -> Seq(Unit)] /\ wire'[p] = rest /\ wire'[c] = wire[c]
    BY <1>0, <1>1, <1>3, <1>5, <1>6 DEF WireTypes
  <2>2. sock' = sock /\ ended' = ended /\ backlog' = backlog
    BY DEF ReceiveSome
  <2> QED
    BY <1>1, <1>2, <1>6, <1>12, <1>13, <2>1, <2>2 DEF Reads
<1>14. u[1] \in Unit /\ u[1].frame \in Frame /\ u[1].frame.size \in Nat
       /\ u[1].frame.form \in Forms
  <2>1. u[1] \in Unit
    BY <1>10
  <2>2. u[1].frame \in Frame
    BY <2>1 DEF Unit
  <2> QED
    BY <2>1, <2>2, UnitsFacts
<1>15. op[c].at = "payload" =>
         u[1] = op[c].units[1]
         /\ u[1].frame.form \notin {"magic", "version", "type", "length"}
  BY <1>0, <1>8, <1>10 DEF HeaderRead
<1>16. CASE Len(u) < Wanted(c)
  BY <1>8, <1>9, <1>10, <1>11, <1>12, <1>13, <1>15, <1>16, ReadsOn DEF histVars
<1>17. CASE ~(Len(u) < Wanted(c))
  <2>1. Received(c, u)
    BY <1>11, <1>17
  <2>2. CASE ReceiveFails(c)
    BY <1>13, <2>2, ReadsInVain DEF ReceiveFails
  <2>3. CASE /\ op[c].at = "payload" \/ HeaderDecodes(u)
             /\ Go(c, "payload", u) /\ UNCHANGED histVars
    <3>1. u[1].frame.form \notin {"magic", "version", "type", "length"}
      BY <1>15, <2>3 DEF HeaderDecodes
    <3> QED
      BY <1>8, <1>9, <1>10, <1>13, <2>3, <3>1, ReadsOn DEF histVars
  <2>4. CASE /\ op[c].at = "payload" \/ HeaderDecodes(u)
             /\ ~(Len(u) < HeaderUnits + u[1].frame.size)
             /\ PayloadIntact(u) /\ ReturnFrame(c, u[1].frame)
    <3>1. u[1].frame.form \notin {"magic", "version", "type", "length", "crc"} /\ OfOneFrame(u)
      BY <1>15, <2>4 DEF HeaderDecodes, PayloadIntact
    <3>2. u[1].frame.form = "intact"
      BY <1>14, <3>1, TransportAssumption DEF Forms
    <3>3. Wanted(c) <= Size(u[1].frame) /\ Wanted(c) \in Nat
      <4>1. PICK f : f = u[1].frame
        OBVIOUS
      <4>2. Wanted(c) = HeaderUnits \/ Wanted(c) = HeaderUnits + f.size
        BY <1>12, <1>15, <4>1 DEF Wanted
      <4>3. f.size \in Nat /\ HeaderUnits \in Nat
        BY <1>14, <4>1, TransportAssumption
      <4>4. Wanted(c) <= Size(f) /\ Wanted(c) \in Nat
        BY <4>2, <4>3 DEF Size
      <4> QED
        BY <4>1, <4>4
    <3>4. Len(u) = Size(u[1].frame)
      <4>1. PICK k : k = Size(u[1].frame)
        OBVIOUS
      <4>2. PICK m : m = Len(u)
        OBVIOUS
      <4>3. PICK q : q = Wanted(c)
        OBVIOUS
      <4>4. k \in Nat /\ m \in Nat /\ q \in Nat
        BY <1>10, <1>14, <3>3, <4>1, <4>2, <4>3, UnitsFacts
      <4>5. m <= q /\ q <= k
        BY <1>11, <3>3, <4>1, <4>2, <4>3, Zenon
      <4>6. ~(m < k)
        BY <2>4, <4>1, <4>2, Zenon DEF Size
      <4>7. m = k
        BY <4>4, <4>5, <4>6
      <4> QED
        BY <4>1, <4>2, <4>7
    <3> QED
      BY <1>8, <1>9, <1>10, <1>13, <2>4, <3>1, <3>2, <3>4, ReadsFrame DEF ReturnFrame
  <2> QED
    BY <1>12, <2>1, <2>2, <2>3, <2>4 DEF Received
<1> QED
  BY <1>16, <1>17

-----------------------------------------------------------------------------
(* What receive() returns *)

LEMMA StreamsStep == StreamsKept /\ [Next]_vars => StreamsKept'
<1> SUFFICES ASSUME StreamsKept, [Next]_vars PROVE StreamsKept'
  OBVIOUS
<1>1. CASE UNCHANGED vars
  BY <1>1, NothingMoves DEF vars, wireVars
<1>2. CASE BindLoopback \/ Spawn \/ AcceptWindowElapses \/ AskRunning
             \/ StartWait \/ Wait \/ Forget \/ Poll
  BY <1>2, LaunchKeeps
<1>3. CASE ConnectLoopback \/ Accept
  BY <1>3, ConnectKeeps
<1>4. CASE \E e \in Ends : SendFails(e) \/ Receive(e)
  BY <1>4, CallKeeps
<1>5. CASE (\E e \in Ends : Send(e)) \/ SendRaw
  BY <1>5, SendKeeps
<1>6. CASE \E e \in Ends : SendSome(e)
  BY <1>6, SendSomeKeeps
<1>7. CASE \E e \in Ends : ReceiveSome(e) \/ ReceiveAtEnd(e)
  BY <1>7, ReceiveSomeKeeps, ReceiveAtEndKeeps
<1>8. CASE (\E e \in Ends : Close(e) \/ ShutdownSend(e)) \/ CloseListener \/ ChildExits
             \/ Terminate
  BY <1>8, EndKeeps
<1> QED
  BY <1>1, <1>2, <1>3, <1>4, <1>5, <1>6, <1>7, <1>8 DEF Next

LEMMA NoGuess == StreamsKept => NeverGuesses
<1> SUFFICES ASSUME StreamsKept, NEW e \in Ends
             PROVE  /\ IsSubsequence(got[e], sent[Peer(e)])
                    /\ \A f \in Range(got[e]) : f.form = "intact"
                    /\ ~failed[e] => IsPrefix(got[e], sent[Peer(e)])
  BY DEF NeverGuesses
<1>1. PICK gs \in Seq(Frame) : gs = got[e]
  BY StreamTypes DEF StreamsKept
<1>2. PICK fs \in Seq(Frame) : fs = sent[Peer(e)]
  BY PeerFacts, StreamTypes DEF StreamsKept
<1>3. /\ \A i \in DOMAIN gs : gs[i].id \in DOMAIN fs /\ gs[i] = fs[gs[i].id]
                              /\ gs[i].form = "intact"
      /\ \A i, j \in DOMAIN gs : i < j => gs[i].id < gs[j].id
      /\ ~failed[e] => Len(gs) <= Len(fs) /\ \A i \in DOMAIN gs : gs[i] = fs[i]
  <2>1. Kept(Stream(e), fs, gs, failed[e], Broken(Peer(e)))
    BY <1>1, <1>2 DEF StreamsKept, FromPeer
  <2>2. Sound(Stream(e), fs, gs) /\ (~failed[e] => Whole(Stream(e), fs, gs))
    BY <2>1, Zenon DEF Kept
  <2> QED
    BY <2>2 DEF Sound, Whole, Delivered
<1>4. IsSubsequence(gs, fs)
  <2>1. PICK at : at = [i \in DOMAIN gs |-> gs[i].id]
    OBVIOUS
  <2>2. at \in [DOMAIN gs -> DOMAIN fs]
    BY <1>3, <2>1
  <2>3. \A i, j \in DOMAIN gs : i < j => at[i] < at[j]
    BY <1>3, <2>1
  <2>4. \A i \in DOMAIN gs : gs[i] = fs[at[i]]
    BY <1>3, <2>1
  <2> QED
    BY <2>2, <2>3, <2>4 DEF IsSubsequence
<1>5. \A f \in Range(gs) : f.form = "intact"
  BY <1>3 DEF Range
<1>6. ~failed[e] => IsPrefix(gs, fs)
  <2> SUFFICES ASSUME ~failed[e] PROVE IsPrefix(gs, fs)
    OBVIOUS
  <2>1. Len(gs) <= Len(fs) /\ \A i \in DOMAIN gs : gs[i] = fs[i]
    BY <1>3
  <2> QED
    BY <2>1 DEF IsPrefix
<1> QED
  BY <1>1, <1>2, <1>4, <1>5, <1>6

\* receive() never guesses: whatever the two sides send, however the kernel cuts it, and
\* wherever a process dies or a connection is reset, it returns only intact frames that
\* the peer sent, in their order and once each, and skips none before it has failed.
THEOREM NeverEverGuesses == Spec => []NeverGuesses
<1>1. Init => StreamsKept
  BY StreamsBegin
<1>2. StreamsKept /\ [Next]_vars => StreamsKept'
  BY StreamsStep
<1>3. StreamsKept => NeverGuesses
  BY NoGuess
<1> QED
  BY <1>1, <1>2, <1>3, PTL DEF Spec

=============================================================================
