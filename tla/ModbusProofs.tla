----------------------------- MODULE ModbusProofs -----------------------------
(***************************************************************************)
(* Proofs about module Modbus, for every size of the heap, of a request,   *)
(* of the answers and of the static chunk: no chunk is lost or freed       *)
(* twice, TxHandler finds an empty list only if Stop or a new request took *)
(* it during that transmission, and a request is answered once or not      *)
(* answered for a reason.                                                  *)
(*                                                                         *)
(* The invariant says what _txBuffer can hold (IsList), how the running    *)
(* transmission relates to it (TxList), that nothing of the answer to the  *)
(* current request exists while the request still comes in (OneAnswer) or  *)
(* its handler has not sent it (Composing), and where the answer is that   *)
(* was neither given nor excused (AnswerComing).  RxHoldsChunk is why      *)
(* SetStaticBuffers and StartListen lose no chunk: a receiver that is off  *)
(* holds none.                                                             *)
(***************************************************************************)
EXTENDS Modbus, SequenceTheorems, TLAPS

Memory == [static : BOOLEAN, room : Nat, free : Nat, chunk : BOOLEAN, held : Nat,
           txb : Seq(Part), tx : Part \cup {NoPart}, txLive : BOOLEAN]
Frame == [open : BOOLEAN, full : Nat, rest : BOOLEAN]
Reader == {"never", "off", "on", "task"}

ModbusTypeOK ==
    /\ mem \in Memory
    /\ rx \in Reader /\ byte \in BOOLEAN
    /\ frame \in Frame
    /\ clean \in BOOLEAN /\ wild \in BOOLEAN /\ taken \in BOOLEAN /\ excused \in BOOLEAN
    /\ leaked \in Nat /\ answers \in 0 .. 1

RxHoldsChunk ==
    /\ mem.static => mem.held = 0
    /\ rx \in {"never", "off"} => mem.static \/ ~mem.chunk
    /\ rx = "never" => mem.tx = NoPart

\* What is left of an answer to the current request, or to an earlier one: the front
\* may be the static chunk, the CRC follows the payload and ends the list.
IsList(s, c) ==
    \A i \in DOMAIN s :
        /\ s[i].current = c
        /\ i > 1 => s[i].heap /\ s[i].what # "empty"
        /\ i < Len(s) <=> s[i].what \in {"payload", "empty"}
        /\ i < Len(s) => (s[i].what = "payload" <=> s[i + 1].what = "crc")

\* The chunk on the line is the front of the list, unless the list was cleared since
\* it was started; an idle transmitter leaves a list only behind an empty chunk.
TxList(m) ==
    /\ IsList(m.txb, TRUE) \/ IsList(m.txb, FALSE)
    /\ m.tx.what # "empty"
    /\ m.tx = NoPart => m.txLive /\ (m.txb # <<>> => m.txb[1].what = "empty")
    /\ m.txLive /\ m.tx # NoPart => m.txb # <<>> /\ m.txb[1] = m.tx

\* Some chunk belongs to the answer to the current request.
TxCurrent(m) == m.tx.current \/ \E i \in DOMAIN m.txb : m.txb[i].current

\* The whole answer to the current request is on its way.
Answering(m) == m.txLive /\ m.tx.current /\ m.tx.what # "cut"

OneAnswer ==
    /\ ~frame.open => ~More(frame)
    /\ TxCurrent(mem) => answers = 0 /\ ~More(frame)
    /\ More(frame) => answers = 0

\* The task has taken the list and not sent the answer.
Composing ==
    rx = "task" => /\ frame.open /\ ~More(frame)
                   /\ mem.txb = <<>> /\ ~TxCurrent(mem) /\ answers = 0

\* Without an answer or an excuse the answer is composed or on its way, or the frame
\* comes in undisturbed, or it waits for the time-out in a full chunk.
AnswerComing ==
    \/ answers = 1 \/ excused \/ Answering(mem)
    \/ rx = "task"
    \/ More(frame) /\ clean
    \/ frame.open /\ rx = "on" /\ mem.held > 0

\* After a reset is needed nothing but the chunks and the types is promised.
ModbusInv ==
    /\ ModbusTypeOK /\ ChunksConserved /\ RxHoldsChunk /\ ListOutlivesTransmission
    /\ ~wild => TxList(mem) /\ OneAnswer /\ Composing /\ AnswerComing

USE ModbusAssumption

-----------------------------------------------------------------------------

\* The chunks of the heap that the transport knows of, and those it can allocate.
Filling(m) == IF m.chunk /\ ~m.static THEN 1 ELSE 0
Total(m) == m.free + m.held + OfHeap(m.txb) + Filling(m)

\* An idle transmitter is no chunk of an answer.
LEMMA NoPartNoChunk == NoPart \notin Part
  BY DEF NoPart, Part

(* The chunks of a list that belong to the heap.                           *)
LEMMA OfHeapFacts ==
  ASSUME NEW s \in Seq(Part)
  PROVE  /\ OfHeap(s) \in Nat /\ OfHeap(s) <= Len(s)
         /\ s = <<>> => OfHeap(s) = 0
<1>1. Len(s) \in Nat /\ (s # <<>> => Len(s) > 0) /\ (s = <<>> => Len(s) = 0)
  OBVIOUS
<1> QED  BY <1>1 DEF OfHeap

LEMMA EmptyList == <<>> \in Seq(Part) /\ OfHeap(<<>>) = 0 /\ \A c : IsList(<<>>, c)
<1>1. <<>> \in Seq(Part) /\ DOMAIN <<>> = {}
  OBVIOUS
<1> QED  BY <1>1, OfHeapFacts DEF IsList

(* What remains of a list behind its front is a list.                      *)
LEMMA TailFacts ==
  ASSUME NEW c \in BOOLEAN, NEW s \in Seq(Part), s # <<>>, IsList(s, c)
  PROVE  LET t == Tail(s) IN
         /\ t \in Seq(Part) /\ IsList(t, c) /\ Head(s) = s[1] /\ s[1] \in Part
         /\ s[1].current = c /\ 1 \in DOMAIN s
         /\ OfHeap(s) = OfHeap(t) + (IF s[1].heap THEN 1 ELSE 0) /\ OfHeap(t) \in Nat
         /\ t # <<>> => /\ Head(t) = t[1] /\ t[1] \in Part /\ t[1].current = c
                        /\ t[1].what # "empty" /\ s[1].what \in {"payload", "empty"}
                        /\ s[1].what = "payload" <=> t[1].what = "crc"
         /\ t = <<>> => s[1].what \notin {"payload", "empty"}
<1> DEFINE t == Tail(s)
<1>1. /\ t \in Seq(Part) /\ Len(s) \in Nat \ {0} /\ Len(t) = Len(s) - 1
      /\ DOMAIN s = 1 .. Len(s) /\ DOMAIN t = 1 .. Len(t)
      /\ \A i \in 1 .. Len(t) : t[i] = s[i + 1]
      /\ Head(s) = s[1] /\ s[1] \in Part /\ 1 \in DOMAIN s
      /\ t # <<>> => Head(t) = t[1] /\ t[1] \in Part
      /\ t = <<>> <=> Len(t) = 0
  <2>1. /\ t \in Seq(Part) /\ Len(s) \in Nat \ {0} /\ Len(t) = Len(s) - 1
        /\ \A i \in 1 .. Len(t) : t[i] = s[i + 1]
    OBVIOUS
  <2>2. DOMAIN s = 1 .. Len(s) /\ Head(s) = s[1] /\ s[1] \in Part /\ 1 \in DOMAIN s
    OBVIOUS
  <2> HIDE DEF t
  <2>3. /\ DOMAIN t = 1 .. Len(t) /\ (t = <<>> <=> Len(t) = 0)
        /\ t # <<>> => Head(t) = t[1] /\ t[1] \in Part
    BY <2>1
  <2> QED  BY <2>1, <2>2, <2>3
<1> HIDE DEF t
<1>2. ASSUME NEW i \in 1 .. Len(t)
      PROVE  /\ i + 1 \in 1 .. Len(s) /\ t[i] = s[i + 1]
             /\ i < Len(t) <=> i + 1 < Len(s)
             /\ i < Len(t) => t[i + 1] = s[(i + 1) + 1]
  BY <1>1
<1>3. IsList(t, c)
  <2> SUFFICES ASSUME NEW i \in 1 .. Len(t)
               PROVE  /\ t[i].current = c
                      /\ i > 1 => t[i].heap /\ t[i].what # "empty"
                      /\ i < Len(t) <=> t[i].what \in {"payload", "empty"}
                      /\ i < Len(t) => (t[i].what = "payload" <=> t[i + 1].what = "crc")
    BY <1>1 DEF IsList
  <2> DEFINE j == i + 1
  <2>1. /\ j \in DOMAIN s /\ j > 1 /\ t[i] = s[j]
        /\ i < Len(t) <=> j < Len(s)
        /\ i < Len(t) => t[i + 1] = s[j + 1]
    BY <1>1, <1>2
  <2> HIDE DEF j
  <2>2. /\ s[j].current = c
        /\ j > 1 => s[j].heap /\ s[j].what # "empty"
        /\ j < Len(s) <=> s[j].what \in {"payload", "empty"}
        /\ j < Len(s) => (s[j].what = "payload" <=> s[j + 1].what = "crc")
    BY <2>1 DEF IsList
  <2> QED  BY <2>1, <2>2
<1>4. t # <<>> => /\ 1 \in 1 .. Len(t) /\ t[1] = s[2] /\ 2 \in DOMAIN s /\ 1 < Len(s)
  BY <1>1
<1>5. /\ s[1].current = c /\ (1 < Len(s) <=> s[1].what \in {"payload", "empty"})
      /\ 1 < Len(s) => (s[1].what = "payload" <=> s[1 + 1].what = "crc")
  BY <1>1 DEF IsList
<1>6. t # <<>> => s[2].heap /\ s[2].what # "empty" /\ s[2].current = c
  BY <1>4 DEF IsList
<1>7. OfHeap(s) = OfHeap(t) + (IF s[1].heap THEN 1 ELSE 0) /\ OfHeap(t) \in Nat
  <2>1. OfHeap(t) = Len(t)
    BY <1>1, <1>4, <1>6 DEF OfHeap
  <2>2. OfHeap(s) = IF s[1].heap THEN Len(s) ELSE Len(s) - 1
    BY <1>1 DEF OfHeap
  <2>3. Len(t) \in Nat
    BY <1>1
  <2> QED  BY <1>1, <2>1, <2>2, <2>3
<1>8. t = <<>> => ~(1 < Len(s))
  BY <1>1
<1> QED  BY <1>1, <1>3, <1>4, <1>5, <1>6, <1>7, <1>8 DEF t

(* Releasing chunks touches only the heap.                                 *)
LEMMA FreedFacts ==
  ASSUME NEW m \in Memory, NEW n \in Nat
  PROVE  /\ Freed(m, n) \in Memory /\ Freed(m, n).free = m.free + n
         /\ Freed(m, n).static = m.static /\ Freed(m, n).chunk = m.chunk
         /\ Freed(m, n).room = m.room
         /\ Freed(m, n).held = m.held /\ Freed(m, n).txb = m.txb
         /\ Freed(m, n).tx = m.tx /\ Freed(m, n).txLive = m.txLive
  BY DEF Memory, Freed

(* Clearing a list gives its chunks back to the heap.                      *)
LEMMA ClearTxFacts ==
  ASSUME NEW m \in Memory
  PROVE  LET n == ClearTx(m) IN
         /\ n \in Memory /\ Total(n) = Total(m) /\ n.free = m.free + OfHeap(m.txb)
         /\ n.static = m.static /\ n.room = m.room /\ n.chunk = m.chunk
         /\ n.held = m.held /\ n.tx = m.tx /\ n.txb = <<>>
         /\ n.txLive <=> m.txLive /\ m.tx = NoPart
<1> DEFINE k == OfHeap(m.txb)
           f == Freed(m, k)
           n == [f EXCEPT !.txb = <<>>, !.txLive = @ /\ m.tx = NoPart]
<1>1. k \in Nat
  BY OfHeapFacts DEF Memory
<1> HIDE DEF k
<1>2. /\ f \in Memory /\ f.free = m.free + k
      /\ f.static = m.static /\ f.room = m.room /\ f.chunk = m.chunk /\ f.held = m.held
      /\ f.tx = m.tx /\ f.txLive = m.txLive
  BY <1>1, FreedFacts
<1> HIDE DEF f
<1>3. n \in Memory /\ n.txb = <<>> /\ (n.txLive <=> f.txLive /\ m.tx = NoPart)
  BY <1>2, EmptyList DEF Memory
<1>4. /\ n.free = f.free /\ n.static = f.static /\ n.room = f.room /\ n.chunk = f.chunk
      /\ n.held = f.held /\ n.tx = f.tx
  BY <1>2 DEF Memory
<1>5. ClearTx(m) = n
  BY DEF ClearTx, f, k
<1> HIDE DEF n
<1>6. Total(n) = Total(m)
  <2>1. Filling(n) = Filling(m) /\ Filling(m) \in Nat
    BY <1>2, <1>4 DEF Filling
  <2>2. OfHeap(n.txb) = 0
    BY <1>3, EmptyList
  <2>3. m.free \in Nat /\ m.held \in Nat /\ n.free = m.free + k /\ n.held = m.held
    BY <1>2, <1>4 DEF Memory
  <2>4. Total(n) = n.free + n.held + 0 + Filling(m)
    BY <2>1, <2>2 DEF Total
  <2>5. Total(m) = m.free + m.held + k + Filling(m)
    BY DEF Total, k
  <2> QED  BY <1>1, <2>1, <2>3, <2>4, <2>5
<1>7. n.free = m.free + OfHeap(m.txb)
  BY <1>2, <1>4 DEF k
<1> QED  BY <1>2, <1>3, <1>4, <1>5, <1>6, <1>7

LEMMA ClearRxFacts ==
  ASSUME NEW m \in Memory
  PROVE  LET n == ClearRx(m) IN
         /\ n \in Memory /\ Total(n) = Total(m) /\ n.free >= m.free
         /\ n.static = m.static /\ n.room = m.room /\ n.chunk = m.chunk /\ n.held = 0
         /\ n.tx = m.tx /\ n.txb = m.txb /\ n.txLive = m.txLive
<1> DEFINE f == Freed(m, m.held)
           n == [f EXCEPT !.held = 0]
<1>1. m.held \in Nat /\ m.free \in Nat
  BY DEF Memory
<1>2. /\ f \in Memory /\ f.free = m.free + m.held
      /\ f.static = m.static /\ f.room = m.room /\ f.chunk = m.chunk /\ f.txb = m.txb
      /\ f.tx = m.tx /\ f.txLive = m.txLive
  BY <1>1, FreedFacts
<1> HIDE DEF f
<1>3. n \in Memory /\ n.held = 0
  BY <1>2 DEF Memory
<1>4. /\ n.free = f.free /\ n.static = f.static /\ n.room = f.room /\ n.chunk = f.chunk
      /\ n.txb = f.txb /\ n.tx = f.tx /\ n.txLive = f.txLive
  BY <1>2 DEF Memory
<1>5. ClearRx(m) = n
  BY DEF ClearRx, f
<1> HIDE DEF n
<1>6. Total(n) = Total(m)
  <2> DEFINE k == OfHeap(m.txb)
             l == Filling(m)
  <2>1. k \in Nat /\ l \in Nat
    BY OfHeapFacts DEF Memory, Filling
  <2>2. OfHeap(n.txb) = k /\ Filling(n) = l
    BY <1>2, <1>4 DEF Filling
  <2>3. Total(m) = m.free + m.held + k + l
    BY DEF Total
  <2> HIDE DEF k, l
  <2>4. Total(n) = n.free + 0 + k + l /\ n.free = m.free + m.held
    BY <1>2, <1>3, <1>4, <2>2 DEF Total
  <2> QED  BY <1>1, <2>1, <2>3, <2>4
<1>7. n.free >= m.free
  BY <1>1, <1>2, <1>4
<1> QED  BY <1>2, <1>3, <1>4, <1>5, <1>6, <1>7

(* n is m with an answer, or none for want of memory, in place of the list. *)
Answered(m, n) ==
    /\ n \in Memory /\ Total(n) = Total(m)
    /\ n.static = m.static /\ n.chunk = m.chunk /\ n.held \in {0, m.held}
    /\ IsList(n.txb, TRUE)
    /\ n.txLive <=> m.txLive /\ m.tx = NoPart
    /\ n.tx = IF m.tx = NoPart /\ n.txb # <<>> /\ n.txb[1].what # "empty"
              THEN n.txb[1] ELSE m.tx

(* The answer is all there.                                                 *)
Whole(n) == n.txb # <<>> /\ n.txb[1].what \in {"all", "payload"}

(* GetTxBuffer: the list is empty.                                          *)
Prepared(m, n) ==
    /\ n \in Memory /\ Total(n) = Total(m) /\ n.free >= m.free + OfHeap(m.txb)
    /\ n.static = m.static /\ n.room = m.room /\ n.chunk = m.chunk
    /\ n.held \in {0, m.held} /\ n.txb = <<>> /\ n.tx = m.tx
    /\ n.txLive <=> m.txLive /\ m.tx = NoPart

\* There is room for the payload, and for the CRC behind it.
Ample(c, size) ==
    \/ Own(c, size) /\ (size + 2 <= c.room \/ c.free > 1)
    \/ ~c.static /\ c.free > 1

(* One part, or two, behind an empty one.                                   *)
LEMMA JoinFacts ==
  ASSUME NEW e \in Part, NEW a \in Part, NEW b \in Part
  PROVE  /\ <<>> \o <<a>> = <<a>> /\ <<>> \o <<a, b>> = <<a, b>>
         /\ <<e>> \o <<a>> = <<e, a>> /\ <<e>> \o <<a, b>> = <<e, a, b>>
<1> DEFINE s == <<e>>
           t == <<a>>
           u == <<a, b>>
           x == <<e, a>>
           y == <<e, a, b>>
<1>1. /\ s \in Seq(Part) /\ t \in Seq(Part) /\ u \in Seq(Part) /\ x \in Seq(Part)
      /\ y \in Seq(Part)
      /\ Len(s) = 1 /\ Len(t) = 1 /\ Len(u) = 2 /\ Len(x) = 2 /\ Len(y) = 3
  OBVIOUS
<1>2. /\ s[1] = e /\ t[1] = a /\ u[1] = a /\ u[2] = b
      /\ x[1] = e /\ x[2] = a /\ y[1] = e /\ y[2] = a /\ y[3] = b
  OBVIOUS
<1>3. <<>> \o t = t /\ <<>> \o u = u
  OBVIOUS
<1> HIDE DEF s, t, u, x, y
<1>4. s \o t = x
  <2>1. /\ s \o t \in Seq(Part) /\ Len(s \o t) = Len(s) + Len(t)
        /\ \A i \in 1 .. Len(s) + Len(t) :
              (s \o t)[i] = IF i <= Len(s) THEN s[i] ELSE t[i - Len(s)]
    BY <1>1, ConcatProperties
  <2>2. \A i \in 1 .. 2 : (s \o t)[i] = x[i]
    BY <1>1, <1>2, <2>1
  <2> QED  BY <1>1, <2>1, <2>2, SeqEqual
<1>5. s \o u = y
  <2>1. /\ s \o u \in Seq(Part) /\ Len(s \o u) = Len(s) + Len(u)
        /\ \A i \in 1 .. Len(s) + Len(u) :
              (s \o u)[i] = IF i <= Len(s) THEN s[i] ELSE u[i - Len(s)]
    BY <1>1, ConcatProperties
  <2>2. \A i \in 1 .. 3 : (s \o u)[i] = y[i]
    BY <1>1, <1>2, <2>1
  <2> QED  BY <1>1, <2>1, <2>2, SeqEqual
<1> QED  BY <1>3, <1>4, <1>5 DEF s, t, u, x, y

(* The list that InsertBack and SendMessage compose.                        *)
LEMMA ComposedFacts ==
  ASSUME NEW c \in Memory, NEW size, Inserted(c, size)
  PROVE  LET parts == Composed(c, size) IN
         /\ parts \in Seq(Part) /\ parts # <<>> /\ IsList(parts, TRUE)
         /\ Head(parts) = parts[1] /\ parts[1] \in Part
         /\ OfHeap(parts) \in Nat /\ OfHeap(parts) <= c.free
         /\ Ample(c, size) => parts[1].what \in {"all", "payload"}
<1> DEFINE own == Own(c, size)
           P(w, h) == [what |-> w, current |-> TRUE, heap |-> h]
           fits == size + 2 <= IF own THEN c.room ELSE Capacity(size)
           lead == IF c.static /\ ~own THEN <<P("empty", FALSE)>> ELSE <<>>
           body == IF fits THEN <<P("all", ~own)>>
                   ELSE IF c.free > IF own THEN 0 ELSE 1
                        THEN <<P("payload", ~own), P("crc", TRUE)>>
                        ELSE <<P("cut", ~own)>>
           parts == lead \o body
<1>1. Composed(c, size) = parts
  BY DEF Composed
<1>2. own \in BOOLEAN /\ fits \in BOOLEAN /\ c.free \in Nat /\ c.static \in BOOLEAN
  BY DEF Own, Memory
<1>3. own \/ c.free > 0
  BY DEF Inserted
<1>4. own => c.static
  BY DEF Own
<1>5. \A w \in {"empty", "all", "payload", "crc", "cut"}, h \in BOOLEAN :
         /\ P(w, h) \in Part /\ P(w, h).what = w /\ P(w, h).current = TRUE
         /\ P(w, h).heap = h
  BY DEF Part
<1>6. Ample(c, size) => (own /\ (fits \/ c.free > 1)) \/ (~c.static /\ c.free > 1)
  BY DEF Ample
<1>7. Ample(c, size) => lead = <<>>
  BY <1>6
<1>13. \A e \in Part, a \in Part, b \in Part :
          /\ <<>> \o <<a>> = <<a>> /\ <<e>> \o <<a>> = <<e, a>>
          /\ <<>> \o <<a, b>> = <<a, b>> /\ <<e>> \o <<a, b>> = <<e, a, b>>
  BY JoinFacts
<1> HIDE DEF own, fits, P
<1> DEFINE Good(l) == /\ l \in Seq(Part) /\ l # <<>> /\ IsList(l, TRUE)
                      /\ Head(l) = l[1] /\ l[1] \in Part
                      /\ OfHeap(l) \in Nat /\ OfHeap(l) <= c.free
                      /\ Ample(c, size) => l[1].what \in {"all", "payload"}
<1>8. ASSUME NEW p \in Part, p.current = TRUE, p.what \in {"all", "cut"},
             p.heap => c.free > 0, Ample(c, size) => p.what = "all"
      PROVE  Good(<<p>>)
  <2>1. /\ Len(<<p>>) = 1 /\ DOMAIN <<p>> = {1} /\ <<p>>[1] = p /\ Head(<<p>>) = p
        /\ <<p>> # <<>> /\ <<p>> \in Seq(Part)
    OBVIOUS
  <2>2. IsList(<<p>>, TRUE)
    BY <1>8, <2>1 DEF IsList
  <2>3. OfHeap(<<p>>) \in Nat /\ OfHeap(<<p>>) <= c.free
    BY <1>2, <1>8, <2>1 DEF OfHeap, Part
  <2> QED  BY <1>8, <2>1, <2>2, <2>3
<1>9. ASSUME NEW p \in Part, NEW q \in Part, p.current = TRUE, q.current = TRUE, q.heap,
             \/ p.what = "payload" /\ q.what = "crc"
             \/ p.what = "empty" /\ q.what \in {"all", "cut"} /\ ~Ample(c, size),
             c.free > IF p.heap THEN 1 ELSE 0
      PROVE  Good(<<p, q>>)
  <2>1. /\ Len(<<p, q>>) = 2 /\ DOMAIN <<p, q>> = {1, 2} /\ <<p, q>>[1] = p
        /\ <<p, q>>[2] = q /\ Head(<<p, q>>) = p
        /\ <<p, q>> # <<>> /\ <<p, q>> \in Seq(Part)
    OBVIOUS
  <2>2. IsList(<<p, q>>, TRUE)
    BY <1>9, <2>1 DEF IsList
  <2>3. OfHeap(<<p, q>>) \in Nat /\ OfHeap(<<p, q>>) <= c.free
    BY <1>2, <1>9, <2>1 DEF OfHeap, Part
  <2> QED  BY <1>9, <2>1, <2>2, <2>3
<1>10. ASSUME NEW e \in Part, NEW p \in Part, NEW q \in Part, e.current = TRUE,
              p.current = TRUE, q.current = TRUE, p.heap, q.heap, ~e.heap, ~Ample(c, size),
              e.what = "empty", p.what = "payload", q.what = "crc", c.free > 1
      PROVE  Good(<<e, p, q>>)
  <2>1. /\ Len(<<e, p, q>>) = 3 /\ DOMAIN <<e, p, q>> = {1, 2, 3} /\ <<e, p, q>>[1] = e
        /\ <<e, p, q>>[2] = p /\ <<e, p, q>>[3] = q /\ Head(<<e, p, q>>) = e
        /\ <<e, p, q>> # <<>> /\ <<e, p, q>> \in Seq(Part)
    OBVIOUS
  <2>2. IsList(<<e, p, q>>, TRUE)
    BY <1>10, <2>1 DEF IsList
  <2>3. OfHeap(<<e, p, q>>) \in Nat /\ OfHeap(<<e, p, q>>) <= c.free
    BY <1>2, <1>10, <2>1 DEF OfHeap, Part
  <2> QED  BY <1>10, <2>1, <2>2, <2>3
<1> DEFINE first == P("empty", FALSE)
           whole == P("all", ~own)
           payload == P("payload", ~own)
           crc == P("crc", TRUE)
           cut == P("cut", ~own)
<1>14. /\ first \in Part /\ first.what = "empty" /\ first.current = TRUE /\ ~first.heap
       /\ whole \in Part /\ whole.what = "all" /\ whole.current = TRUE
       /\ payload \in Part /\ payload.what = "payload" /\ payload.current = TRUE
       /\ crc \in Part /\ crc.what = "crc" /\ crc.current = TRUE /\ crc.heap
       /\ cut \in Part /\ cut.what = "cut" /\ cut.current = TRUE
       /\ whole.heap = ~own /\ payload.heap = ~own /\ cut.heap = ~own
  BY <1>2, <1>5
<1> SUFFICES Good(parts)
  BY <1>1
<1> HIDE DEF first, whole, payload, crc, cut, Good
<1>11. CASE c.static /\ ~own
  <2>1. lead = <<first>> /\ ~Ample(c, size) /\ c.free > 0
    BY <1>3, <1>6, <1>11 DEF first
  <2> HIDE DEF lead
  <2>2. CASE fits
    <3>1. body = <<whole>>
      BY <2>2 DEF whole
    <3> HIDE DEF body
    <3>2. parts = <<first, whole>>
      BY <1>13, <1>14, <2>1, <3>1
    <3> QED  BY <1>9, <1>11, <1>14, <2>1, <3>2
  <2>3. CASE ~fits /\ c.free > 1
    <3>1. body = <<payload, crc>>
      BY <1>11, <2>3 DEF payload, crc
    <3> HIDE DEF body
    <3>2. parts = <<first, payload, crc>>
      BY <1>13, <1>14, <2>1, <3>1
    <3> QED  BY <1>10, <1>11, <1>14, <2>1, <2>3, <3>2
  <2>4. CASE ~fits /\ ~(c.free > 1)
    <3>1. body = <<cut>>
      BY <1>11, <2>4 DEF cut
    <3> HIDE DEF body
    <3>2. parts = <<first, cut>>
      BY <1>13, <1>14, <2>1, <3>1
    <3> QED  BY <1>9, <1>11, <1>14, <2>1, <3>2
  <2> QED  BY <2>2, <2>3, <2>4
<1>12. CASE ~(c.static /\ ~own)
  <2>1. lead = <<>>
    BY <1>12
  <2> HIDE DEF lead
  <2>2. CASE fits
    <3>1. body = <<whole>>
      BY <2>2 DEF whole
    <3> HIDE DEF body
    <3>2. parts = <<whole>>
      BY <1>13, <1>14, <2>1, <3>1
    <3> QED  BY <1>3, <1>8, <1>14, <3>2
  <2>3. CASE ~fits /\ c.free > IF own THEN 0 ELSE 1
    <3>1. body = <<payload, crc>>
      BY <2>3 DEF payload, crc
    <3> HIDE DEF body
    <3>2. parts = <<payload, crc>>
      BY <1>13, <1>14, <2>1, <3>1
    <3>3. c.free > IF payload.heap THEN 1 ELSE 0
      BY <1>2, <1>14, <2>3
    <3> QED  BY <1>9, <1>14, <3>2, <3>3
  <2>4. CASE ~fits /\ ~(c.free > IF own THEN 0 ELSE 1)
    <3>1. body = <<cut>>
      BY <2>4 DEF cut
    <3> HIDE DEF body
    <3>2. parts = <<cut>>
      BY <1>13, <1>14, <2>1, <3>1
    <3>3. ~Ample(c, size)
      BY <1>2, <1>4, <1>6, <2>4
    <3> QED  BY <1>3, <1>8, <1>14, <3>2, <3>3
  <2> QED  BY <2>2, <2>3, <2>4
<1> QED  BY <1>11, <1>12

LEMMA SendFacts ==
  ASSUME NEW m \in Memory, NEW c \in Memory, Prepared(m, c), NEW size, Inserted(c, size)
  PROVE  /\ Answered(m, SendMessage(c, size))
         /\ Ample(c, size) => Whole(SendMessage(c, size))
<1> DEFINE parts == Composed(c, size)
           k == OfHeap(parts)
           left == c.free - k
           tx == IF c.tx = NoPart /\ Head(parts).what # "empty" THEN Head(parts) ELSE c.tx
           n == [c EXCEPT !.free = left, !.txb = parts, !.tx = tx]
<1>1. SendMessage(c, size) = n
  BY DEF SendMessage
<1>2. /\ parts \in Seq(Part) /\ parts # <<>> /\ IsList(parts, TRUE)
      /\ Head(parts) = parts[1] /\ parts[1] \in Part
      /\ k \in Nat /\ k <= c.free
      /\ Ample(c, size) => parts[1].what \in {"all", "payload"}
  BY ComposedFacts
<1> HIDE DEF parts
<1>3. c.free \in Nat /\ c.held \in Nat /\ c.tx \in Part \cup {NoPart}
  BY DEF Memory
<1>4. left \in Nat /\ left + k = c.free
  BY <1>2, <1>3
<1>5. tx \in Part \cup {NoPart}
  BY <1>2, <1>3
<1> HIDE DEF k, left, tx
<1>6. n \in Memory /\ n.txb = parts /\ n.free = left /\ n.tx = tx
  BY <1>2, <1>4, <1>5 DEF Memory
<1>7. n.static = c.static /\ n.chunk = c.chunk /\ n.held = c.held /\ n.txLive = c.txLive
  BY DEF Memory
<1>8. c.txb = <<>> /\ c.tx = m.tx
  BY DEF Prepared
<1> HIDE DEF n
<1>9. Total(n) = Total(c)
  <2> DEFINE l == Filling(c)
             h == c.held
  <2>1. Filling(n) = l /\ l \in Nat
    BY <1>7 DEF Filling
  <2>2. Total(n) = left + h + k + l
    BY <1>6, <1>7, <2>1 DEF Total, k
  <2>3. Total(c) = c.free + h + 0 + l
    BY <1>8, EmptyList DEF Total
  <2>4. h \in Nat
    BY <1>3
  <2> HIDE DEF l, h
  <2> QED  BY <1>2, <1>4, <2>1, <2>2, <2>3, <2>4
<1>10. n.tx = IF m.tx = NoPart /\ n.txb # <<>> /\ n.txb[1].what # "empty"
              THEN n.txb[1] ELSE m.tx
  BY <1>2, <1>6, <1>8 DEF tx
<1>11. Answered(m, n)
  BY <1>2, <1>6, <1>7, <1>9, <1>10 DEF Prepared, Answered
<1>12. Ample(c, size) => Whole(n)
  BY <1>2, <1>6 DEF Whole
<1> QED  BY <1>1, <1>11, <1>12

(* Without memory for it there is no answer.                                *)
LEMMA NoneFacts ==
  ASSUME NEW m \in Memory, NEW c \in Memory, Prepared(m, c)
  PROVE  Answered(m, c)
  BY EmptyList DEF Prepared, Answered

(* The handlers leave one answer in the list, or none for want of memory.   *)
LEMMA RespondFacts ==
  ASSUME NEW m \in Memory, NEW c \in Memory, Prepared(m, c), NEW size
  PROVE  Answered(m, Respond(c, size))
<1> DEFINE d == ClearTx(c)
<1>1. d \in Memory /\ Prepared(m, d)
  <2>1. OfHeap(c.txb) = 0 /\ c.free \in Nat
    BY EmptyList DEF Prepared, Memory
  <2>2. d.free = c.free
    BY <2>1, ClearTxFacts
  <2> QED  BY <2>2, ClearTxFacts DEF Prepared
<1>2. Respond(c, size) = IF Inserted(d, size) THEN SendMessage(d, size) ELSE d
  BY DEF Respond
<1> HIDE DEF d
<1> QED  BY <1>1, <1>2, SendFacts, NoneFacts

(* A request that is not silenced finds room for its answer.                *)
LEMMA RoomFacts ==
  ASSUME NEW m \in Memory, NEW c \in Memory, Prepared(m, c), NEW r \in Request,
         ~Silenced(m, r)
  PROVE  Inserted(c, Size(r)) /\ Ample(c, Size(r))
<1> DEFINE size == Size(r)
           k == OfHeap(m.txb)
<1>1. size \in Nat
  BY DEF Size, Request
<1>2. m.free \in Nat /\ c.free \in Nat /\ m.room \in Nat
  BY DEF Memory
<1>3. /\ m.static => size <= m.room
      /\ m.free + k >= 2 \/ (m.static /\ size + 2 <= m.room)
  <2>1. ClearTx(m).free = m.free + k /\ k \in Nat
    BY ClearTxFacts, OfHeapFacts DEF Memory
  <2>2. /\ ~(m.static /\ m.room < size)
        /\ ~(ClearTx(m).free < 2) \/ (m.static /\ size + 2 <= m.room)
    BY DEF Silenced
  <2> HIDE DEF size, k
  <2> QED  BY <1>1, <1>2, <2>1, <2>2
<1>4. c.static = m.static /\ c.room = m.room /\ c.free >= m.free + k /\ k \in Nat
  BY OfHeapFacts DEF Prepared, Memory
<1> HIDE DEF size, k
<1> SUFFICES Inserted(c, size) /\ Ample(c, size)
  BY DEF size
<1> QED  BY <1>1, <1>2, <1>3, <1>4 DEF Inserted, Ample, Own

(* MessageReceived, whatever the request and however its handler ends.      *)
LEMMA MessageFacts ==
  ASSUME NEW m \in Memory, NEW r \in Request
  PROVE  /\ Answered(m, MessageReceived(m, r))
         /\ ~Silenced(m, r) => Whole(MessageReceived(m, r))
<1>1. ASSUME NEW c \in Memory, Prepared(m, c), NEW size
      PROVE  LET n == IF Inserted(c, size) THEN SendMessage(c, size) ELSE c
             IN  Answered(m, n) /\ (~Silenced(m, r) /\ size = Size(r) => Whole(n))
  <2>1. CASE Inserted(c, size)
    BY <1>1, <2>1, SendFacts, RoomFacts
  <2>2. CASE ~Inserted(c, size)
    BY <1>1, <2>2, NoneFacts, RoomFacts
  <2> QED  BY <2>1, <2>2
<1>2. ClearTx(m) \in Memory /\ Prepared(m, ClearTx(m))
  <2>1. m.free \in Nat /\ OfHeap(m.txb) \in Nat
    BY OfHeapFacts DEF Memory
  <2> QED  BY <2>1, ClearTxFacts DEF Prepared
<1>3. ClearTx(ClearRx(m)) \in Memory /\ Prepared(m, ClearTx(ClearRx(m)))
  <2> DEFINE c == ClearRx(m)
             d == ClearTx(c)
  <2>1. /\ c \in Memory /\ Total(c) = Total(m) /\ c.free >= m.free
        /\ c.static = m.static /\ c.room = m.room /\ c.chunk = m.chunk /\ c.held = 0
        /\ c.tx = m.tx /\ c.txb = m.txb /\ c.txLive = m.txLive
    BY ClearRxFacts
  <2> HIDE DEF c
  <2>2. /\ d \in Memory /\ Total(d) = Total(c) /\ d.free = c.free + OfHeap(c.txb)
        /\ d.static = c.static /\ d.room = c.room /\ d.chunk = c.chunk
        /\ d.held = c.held /\ d.tx = c.tx /\ d.txb = <<>>
        /\ d.txLive <=> c.txLive /\ c.tx = NoPart
    BY <2>1, ClearTxFacts
  <2>3. m.free \in Nat /\ c.free \in Nat /\ OfHeap(m.txb) \in Nat
    BY <2>1, OfHeapFacts DEF Memory
  <2> HIDE DEF d
  <2>4. d.free >= m.free + OfHeap(m.txb)
    BY <2>1, <2>2, <2>3
  <2>5. Prepared(m, d)
    BY <2>1, <2>2, <2>4 DEF Prepared
  <2> QED  BY <2>2, <2>5 DEF c, d
<1>4. CASE ~Succeeds(r)
  <2>1. /\ MessageReceived(m, r) = IF Inserted(ClearTx(m), 3)
                                   THEN SendMessage(ClearTx(m), 3) ELSE ClearTx(m)
        /\ Size(r) = 3
    BY <1>4 DEF MessageReceived, SendError, Respond, Size
  <2> QED  BY <1>1, <1>2, <2>1
<1>5. CASE Succeeds(r) /\ r.fn \notin {"read", "readWrite"}
  <2> DEFINE d == ClearTx(ClearRx(m))
  <2>1. /\ MessageReceived(m, r) = IF Inserted(d, 6) THEN SendMessage(d, 6) ELSE d
        /\ Size(r) = 6
    BY <1>5 DEF MessageReceived, Confirm, Respond, Size
  <2> HIDE DEF d
  <2> QED  BY <1>1, <1>3, <2>1 DEF d
<1>6. CASE Succeeds(r) /\ r.fn \in {"read", "readWrite"}
  <2> DEFINE d == ClearTx(ClearRx(m))
             e == ClearTx(d)
  <2>1. MessageReceived(m, r) = IF r.accept /\ Inserted(d, r.bytes)
                                THEN SendMessage(d, r.bytes) ELSE Respond(d, 3)
    BY <1>6 DEF MessageReceived, Read, SendError
  <2>2. Size(r) = IF r.accept THEN r.bytes ELSE 3
    BY <1>6 DEF Size
  <2>3. Respond(d, 3) = IF Inserted(e, 3) THEN SendMessage(e, 3) ELSE e
    BY DEF Respond
  <2>4. d \in Memory /\ Prepared(m, d)
    BY <1>3
  <2> HIDE DEF d
  <2>5. e \in Memory /\ Prepared(m, e)
    <3>1. OfHeap(d.txb) = 0 /\ d.free \in Nat
      BY <2>4, EmptyList DEF Prepared, Memory
    <3>2. e.free = d.free
      BY <2>4, <3>1, ClearTxFacts
    <3> QED  BY <2>4, <3>2, ClearTxFacts DEF Prepared
  <2> HIDE DEF e
  <2>6. CASE r.accept /\ Inserted(d, r.bytes)
    BY <1>1, <2>1, <2>2, <2>4, <2>6
  <2>7. CASE ~r.accept
    BY <1>1, <2>1, <2>2, <2>3, <2>5, <2>7
  <2>8. CASE r.accept /\ ~Inserted(d, r.bytes)
    <3>1. Silenced(m, r)
      BY <2>2, <2>4, <2>8, RoomFacts
    <3> QED  BY <2>1, <2>4, <2>8, <3>1, RespondFacts
  <2> QED  BY <2>6, <2>7, <2>8
<1> QED  BY <1>4, <1>5, <1>6

-----------------------------------------------------------------------------

(* The chunk that was filled joins the list, the next one is allocated.    *)
LEMMA AttachFacts ==
  ASSUME mem \in Memory, mem.chunk
  PROVE  /\ AttachBack \in Memory /\ Total(AttachBack) = Total(mem)
         /\ AttachBack.static = mem.static /\ AttachBack.tx = mem.tx
         /\ AttachBack.txb = mem.txb /\ AttachBack.txLive = mem.txLive
         /\ mem.static => AttachBack = mem
         /\ ~mem.static => AttachBack.held = mem.held + 1
<1>1. CASE mem.static
  BY <1>1 DEF AttachBack
<1>2. CASE ~mem.static
  <2> DEFINE left == IF mem.free > 0 THEN mem.free - 1 ELSE mem.free
             more == mem.free > 0
             n == [mem EXCEPT !.held = mem.held + 1, !.chunk = more, !.free = left]
  <2>1. AttachBack = n
    BY <1>2 DEF AttachBack
  <2>2. /\ left \in Nat /\ left + (IF more THEN 1 ELSE 0) = mem.free /\ more \in BOOLEAN
        /\ mem.held + 1 \in Nat /\ mem.held \in Nat
    BY DEF Memory
  <2> HIDE DEF left, more
  <2>3. n \in Memory /\ n.held = mem.held + 1 /\ n.free = left /\ n.chunk = more
    BY <2>2 DEF Memory
  <2>4. n.static = mem.static /\ n.tx = mem.tx /\ n.txb = mem.txb /\ n.txLive = mem.txLive
    BY DEF Memory
  <2> HIDE DEF n
  <2>5. Total(n) = Total(mem)
    <3> DEFINE k == OfHeap(mem.txb)
               h == mem.held
               f == mem.free
               next == IF more THEN 1 ELSE 0
    <3>1. Total(n) = left + (h + 1) + k + next
      BY <1>2, <2>3, <2>4 DEF Total, Filling
    <3>2. Total(mem) = f + h + k + 1
      BY <1>2 DEF Total, Filling
    <3>3. k \in Nat /\ h \in Nat /\ f \in Nat /\ next \in Nat /\ left + next = f
      BY <2>2, OfHeapFacts DEF Memory
    <3> HIDE DEF k, h, f, next
    <3> QED  BY <2>2, <3>1, <3>2, <3>3
  <2> QED  BY <1>2, <2>1, <2>3, <2>4, <2>5
<1> QED  BY <1>1, <1>2

(* Receiving leaves the answer on its way alone.                           *)
LEMMA SameList ==
  ASSUME NEW m, NEW n, n.tx = m.tx, n.txb = m.txb, n.txLive = m.txLive
  PROVE  (TxList(m) <=> TxList(n)) /\ (TxCurrent(m) <=> TxCurrent(n))
  BY DEF TxList, TxCurrent

\* What ChunksConserved adds up.
LEMMA TotalIsSum ==
  ASSUME NEW m \in Memory, NEW l \in Nat
  PROVE  Total(m) + l = m.free + l + m.held + OfHeap(m.txb)
                        + (IF m.chunk /\ ~m.static THEN 1 ELSE 0)
<1> DEFINE k == OfHeap(m.txb)
           f == m.free
           h == m.held
           c == IF m.chunk /\ ~m.static THEN 1 ELSE 0
<1>1. k \in Nat /\ f \in Nat /\ h \in Nat /\ c \in Nat
  BY OfHeapFacts DEF Memory
<1>2. Total(m) = f + h + k + c
  BY DEF Total, Filling
<1> HIDE DEF k, f, h, c
<1>3. Total(m) + l = f + l + h + k + c
  BY <1>1, <1>2
<1> QED  BY <1>3 DEF k, f, h, c

(* The invariant from its parts, of a step that needs no reset.            *)
LEMMA StepKeeps ==
  ASSUME ~wild, wild' = FALSE,
         mem' \in Memory, rx' \in Reader, frame' \in Frame, leaked' \in Nat,
         answers' \in 0 .. 1, byte' \in BOOLEAN, clean' \in BOOLEAN, taken' \in BOOLEAN,
         excused' \in BOOLEAN,
         Total(mem') + leaked' = Chunks, RxHoldsChunk',
         mem'.tx # NoPart /\ mem'.txb = <<>> => taken',
         TxList(mem'), OneAnswer', Composing', AnswerComing'
  PROVE  ModbusInv'
<1>1. ModbusTypeOK'
  <2>1. wild' \in BOOLEAN
    BY Zenon
  <2> QED  BY <2>1 DEF ModbusTypeOK
<1>2. ListOutlivesTransmission'
  BY DEF ListOutlivesTransmission
<1>3. ChunksConserved'
  BY TotalIsSum DEF ChunksConserved
<1> QED  BY <1>1, <1>2, <1>3 DEF ModbusInv

(* What the invariant says while no reset is needed.                        *)
LEMMA InvFacts ==
  ASSUME ModbusInv, ~wild
  PROVE  /\ mem \in Memory /\ rx \in Reader /\ frame \in Frame /\ leaked \in Nat
         /\ answers \in 0 .. 1 /\ byte \in BOOLEAN /\ clean \in BOOLEAN
         /\ taken \in BOOLEAN /\ excused \in BOOLEAN
         /\ Total(mem) + leaked = Chunks /\ RxHoldsChunk
         /\ mem.tx # NoPart /\ mem.txb = <<>> => taken
         /\ TxList(mem) /\ OneAnswer /\ Composing /\ AnswerComing
<1>1. mem \in Memory /\ leaked \in Nat
  BY DEF ModbusInv, ModbusTypeOK
<1> QED  BY <1>1, TotalIsSum
            DEF ModbusInv, ModbusTypeOK, ListOutlivesTransmission, ChunksConserved

(* MessageReceived and the ClearReadBuffer behind it, of the DMA's handler *)
(* or of the task.                                                         *)
LEMMA AnswerFacts ==
  ASSUME NEW m \in Memory, NEW r \in Request, TxList(m)
  PROVE  LET n == ClearRx(MessageReceived(m, r)) IN
         /\ n \in Memory /\ Total(n) = Total(m) /\ n.static = m.static /\ n.held = 0
         /\ n.chunk = m.chunk /\ TxList(n)
         /\ n.tx # NoPart /\ n.txb = <<>> => m.tx # NoPart
         /\ ~Silenced(m, r) => Answering(n)
<1> DEFINE c == MessageReceived(m, r)
           n == ClearRx(c)
<1>1. Answered(m, c) /\ (~Silenced(m, r) => Whole(c))
  BY MessageFacts
<1> HIDE DEF c
<1>2. /\ c \in Memory /\ Total(c) = Total(m) /\ c.static = m.static /\ c.chunk = m.chunk
      /\ IsList(c.txb, TRUE)
      /\ c.txLive <=> m.txLive /\ m.tx = NoPart
      /\ c.tx = IF m.tx = NoPart /\ c.txb # <<>> /\ c.txb[1].what # "empty"
                THEN c.txb[1] ELSE m.tx
  BY <1>1 DEF Answered
<1>3. /\ n \in Memory /\ Total(n) = Total(c) /\ n.static = c.static /\ n.chunk = c.chunk
      /\ n.held = 0 /\ n.tx = c.tx /\ n.txb = c.txb /\ n.txLive = c.txLive
  BY <1>2, ClearRxFacts
<1> HIDE DEF n
<1>4. m.tx = NoPart => m.txLive
  BY DEF TxList
<1>5. c.txb # <<>> => c.txb[1] \in Part /\ c.txb[1].current = TRUE
  <2>1. c.txb \in Seq(Part)
    BY <1>2 DEF Memory
  <2>2. TRUE \in BOOLEAN
    OBVIOUS
  <2> QED  BY <1>2, <2>1, <2>2, TailFacts
<1>6. TxList(c)
  <2>1. c.tx = NoPart => c.txLive /\ (c.txb # <<>> => c.txb[1].what = "empty")
    BY <1>2, <1>4, <1>5, NoPartNoChunk
  <2>2. c.txLive /\ c.tx # NoPart => c.txb # <<>> /\ c.txb[1] = c.tx
    BY <1>2
  <2>3. c.tx.what # "empty"
    BY <1>2 DEF TxList
  <2> QED  BY <1>2, <2>1, <2>2, <2>3 DEF TxList
<1>7. ~Silenced(m, r) => Answering(n)
  <2> SUFFICES ASSUME ~Silenced(m, r) PROVE Answering(n)
    OBVIOUS
  <2>1. m.tx = NoPart /\ c.txb # <<>> /\ c.txb[1].what \in {"all", "payload"}
    BY <1>1 DEF Silenced, Whole
  <2>2. n.tx = c.txb[1] /\ n.txLive
    BY <1>2, <1>3, <1>4, <2>1
  <2> QED  BY <1>5, <2>1, <2>2 DEF Answering
<1>8. TxList(n)
  BY <1>3, <1>6, SameList
<1> QED  BY <1>2, <1>3, <1>7, <1>8 DEF n, c

(* RxHandler keeps the invariant, whichever event called it.               *)
LEMMA RxHandlerStep ==
  ASSUME ModbusInv, ~wild, frame.open, rx = "on", More(frame),
         NEW end \in BOOLEAN, NEW good \in BOOLEAN, NEW next \in Frame,
         ~next.open => ~More(next), ~end => next.open, LastChunk => ~More(next),
         RxHandler(end, good, next)
  PROVE  ModbusInv'
<1>1. /\ mem \in Memory /\ TxList(mem) /\ ~TxCurrent(mem) /\ answers = 0
      /\ rx = "on" /\ clean \in BOOLEAN /\ excused \in BOOLEAN /\ byte \in BOOLEAN
      /\ taken \in BOOLEAN /\ leaked \in Nat /\ Total(mem) + leaked = Chunks
      /\ mem.static => mem.held = 0
      /\ mem.tx # NoPart /\ mem.txb = <<>> => taken
      /\ AnswerComing
  BY InvFacts DEF OneAnswer, RxHoldsChunk
<1>2. leaked' = leaked /\ wild' = FALSE /\ answers' = 0
  BY <1>1 DEF RxHandler
<1> DEFINE Goal == /\ mem' \in Memory /\ Total(mem') = Total(mem)
                   /\ mem'.static => mem'.held = 0
                   /\ rx' \in {"off", "on", "task"} /\ frame' \in Frame
                   /\ byte' \in BOOLEAN /\ clean' \in BOOLEAN /\ excused' \in BOOLEAN
                   /\ taken' \in BOOLEAN
                   /\ rx' = "off" => mem'.static \/ ~mem'.chunk
                   /\ mem'.tx # NoPart /\ mem'.txb = <<>> => taken'
                   /\ ~frame'.open => ~More(frame')
                   /\ TxList(mem') /\ (TxCurrent(mem') => ~More(frame'))
                   /\ rx' = "task" => /\ frame'.open /\ ~More(frame')
                                      /\ mem'.txb = <<>> /\ ~TxCurrent(mem')
                   /\ AnswerComing'
<1> SUFFICES Goal
  <2>1. RxHoldsChunk' /\ rx' \in Reader
    BY DEF RxHoldsChunk, Reader
  <2>2. OneAnswer' /\ Composing'
    BY <1>2 DEF OneAnswer, Composing
  <2>3. Total(mem') + leaked' = Chunks /\ leaked' \in Nat /\ answers' \in 0 .. 1
    BY <1>1, <1>2
  <2> QED  BY <1>2, <2>1, <2>2, <2>3, StepKeeps
<1> DEFINE a == AttachBack
<1>3. /\ mem.chunk => /\ a \in Memory /\ Total(a) = Total(mem) /\ a.static = mem.static
                      /\ a.tx = mem.tx /\ a.txb = mem.txb /\ a.txLive = mem.txLive
                      /\ mem.static => a = mem
                      /\ ~mem.static => a.held = mem.held + 1
  BY <1>1, AttachFacts
<1>4. mem.chunk => TxList(a) /\ ~TxCurrent(a) /\ (a.static => a.held = 0)
  BY <1>1, <1>3, SameList
<1>5. \/ ~mem.chunk /\ rx' = "off" /\ byte' \in BOOLEAN /\ excused' = TRUE
         /\ frame' = next /\ UNCHANGED <<mem, clean, taken>>
      \/ mem.chunk /\ ~a.chunk /\ mem' = a /\ rx' = "off" /\ byte' \in BOOLEAN
         /\ excused' = TRUE /\ frame' = next /\ UNCHANGED <<clean, taken>>
      \/ mem.chunk /\ Valid(end, good) /\ Deliver(a, end, next)
      \/ /\ mem.chunk /\ mem' = IF end THEN ClearRx(a) ELSE a
         /\ clean' = (clean /\ good /\ ~byte /\ ~end /\ ~mem.static)
         /\ excused' = (excused \/ ~clean')
         /\ frame' = next /\ ReadAsync /\ UNCHANGED taken
  BY DEF RxHandler
<1> HIDE DEF a
<1>6. CASE ~mem.chunk /\ rx' = "off" /\ byte' \in BOOLEAN /\ excused' = TRUE
           /\ frame' = next /\ UNCHANGED <<mem, clean, taken>>
  BY <1>1, <1>6 DEF AnswerComing
<1>7. CASE mem.chunk /\ ~a.chunk /\ mem' = a /\ rx' = "off" /\ byte' \in BOOLEAN
           /\ excused' = TRUE /\ frame' = next /\ UNCHANGED <<clean, taken>>
  BY <1>1, <1>3, <1>4, <1>7 DEF AnswerComing
<1>8. CASE mem.chunk /\ Valid(end, good) /\ Deliver(a, end, next)
  <2>1. ~More(next)
    BY <1>8 DEF Valid
  <2>2. \/ /\ mem' = ClearRx(a) /\ excused' = TRUE
           /\ frame' = next /\ ReadAsync /\ UNCHANGED <<clean, taken>>
        \/ /\ \E r \in Request : mem' = ClearRx(MessageReceived(a, r))
                                 /\ excused' = Silenced(a, r)
           /\ taken' = (a.tx # NoPart)
           /\ frame' = next /\ ReadAsync /\ UNCHANGED clean
        \/ /\ mem' = ClearTx(a) /\ taken' = (a.tx # NoPart)
           /\ rx' = "task" /\ frame' = [Silence EXCEPT !.open = TRUE]
           /\ UNCHANGED <<byte, clean, excused>>
    BY <1>8 DEF Deliver
  <2>3. CASE /\ mem' = ClearRx(a) /\ excused' = TRUE
             /\ frame' = next /\ ReadAsync /\ UNCHANGED <<clean, taken>>
    <3>1. /\ mem' \in Memory /\ Total(mem') = Total(mem) /\ mem'.held = 0
          /\ mem'.tx = a.tx /\ mem'.txb = a.txb /\ mem'.txLive = a.txLive
      BY <1>3, <1>8, <2>3, ClearRxFacts
    <3>2. TxList(mem')
      BY <1>4, <1>8, <3>1, SameList
    <3> QED  BY <1>1, <1>3, <1>8, <2>1, <2>3, <3>1, <3>2 DEF AnswerComing, ReadAsync
  <2>4. CASE /\ \E r \in Request : mem' = ClearRx(MessageReceived(a, r))
                                   /\ excused' = Silenced(a, r)
             /\ taken' = (a.tx # NoPart)
             /\ frame' = next /\ ReadAsync /\ UNCHANGED clean
    <3>1. PICK r \in Request : /\ mem' = ClearRx(MessageReceived(a, r))
                               /\ excused' = Silenced(a, r)
      BY <2>4
    <3>2. /\ mem' \in Memory /\ Total(mem') = Total(a) /\ mem'.held = 0 /\ TxList(mem')
          /\ mem'.tx # NoPart /\ mem'.txb = <<>> => a.tx # NoPart
          /\ ~Silenced(a, r) => Answering(mem')
      BY <1>3, <1>4, <1>8, <3>1, AnswerFacts
    <3>3. excused' \in BOOLEAN
      BY <3>1 DEF Silenced
    <3>4. AnswerComing'
      BY <3>1, <3>2 DEF AnswerComing
    <3> QED  BY <1>1, <1>3, <1>8, <2>1, <2>4, <3>2, <3>3, <3>4 DEF ReadAsync
  <2>5. CASE /\ mem' = ClearTx(a) /\ taken' = (a.tx # NoPart)
             /\ rx' = "task" /\ frame' = [Silence EXCEPT !.open = TRUE]
             /\ UNCHANGED <<byte, clean, excused>>
    <3>1. /\ mem' \in Memory /\ Total(mem') = Total(a) /\ mem'.static = a.static
          /\ mem'.held = a.held /\ mem'.tx = a.tx /\ mem'.txb = <<>>
          /\ mem'.txLive <=> a.txLive /\ a.tx = NoPart
      BY <1>3, <1>8, <2>5, ClearTxFacts
    <3>2. frame' \in Frame /\ frame'.open /\ ~More(frame')
      <4>1. frame' = [open |-> TRUE, full |-> 0, rest |-> FALSE]
        BY <2>5 DEF Silence
      <4> QED  BY <4>1 DEF Frame, More
    <3>3. TxList(mem')
      BY <1>4, <1>8, <3>1, EmptyList DEF TxList
    <3>4. ~TxCurrent(mem')
      BY <1>4, <1>8, <3>1 DEF TxCurrent
    <3>5. AnswerComing'
      BY <2>5 DEF AnswerComing
    <3> QED  BY <1>1, <1>3, <1>4, <1>8, <2>5, <3>1, <3>2, <3>3, <3>4, <3>5
  <2> QED  BY <2>2, <2>3, <2>4, <2>5
<1>9. CASE /\ mem.chunk /\ mem' = IF end THEN ClearRx(a) ELSE a
           /\ clean' = (clean /\ good /\ ~byte /\ ~end /\ ~mem.static)
           /\ excused' = (excused \/ ~clean')
           /\ frame' = next /\ ReadAsync /\ UNCHANGED taken
  <2>1. rx' = "on" /\ byte' \in BOOLEAN /\ clean' \in BOOLEAN /\ excused' \in BOOLEAN
    BY <1>1, <1>9 DEF ReadAsync
  <2>2. /\ mem' \in Memory /\ Total(mem') = Total(mem) /\ mem'.static = mem.static
        /\ mem'.static => mem'.held = 0
        /\ mem'.tx = mem.tx /\ mem'.txb = mem.txb /\ mem'.txLive = mem.txLive
        /\ ~end /\ ~mem.static => mem'.held = mem.held + 1
    <3>1. CASE end
      BY <1>3, <1>9, <3>1, ClearRxFacts
    <3>2. CASE ~end
      BY <1>3, <1>4, <1>9, <3>2
    <3> QED  BY <3>1, <3>2
  <2>3. TxList(mem') /\ ~TxCurrent(mem')
    BY <1>1, <2>2, SameList
  <2>4. AnswerComing'
    <3> SUFFICES ASSUME clean' PROVE AnswerComing'
      BY <1>9 DEF AnswerComing
    <3>1. ~end /\ ~mem.static /\ frame'.open
      BY <1>9
    <3>2. mem'.held > 0
      BY <1>1, <2>2, <3>1 DEF Memory
    <3> QED  BY <2>1, <3>1, <3>2 DEF AnswerComing
  <2> QED  BY <1>1, <1>9, <2>1, <2>2, <2>3, <2>4
<1> QED  BY <1>5, <1>6, <1>7, <1>8, <1>9

(* The other events of the receiver, and the task's answer.                *)
LEMMA AnswerStep == ASSUME ModbusInv, ~wild, Answer PROVE ModbusInv'
<1>1. /\ mem \in Memory /\ leaked \in Nat /\ Total(mem) + leaked = Chunks /\ TxList(mem)
      /\ rx = "task" /\ clean \in BOOLEAN /\ taken \in BOOLEAN /\ answers = 0
      /\ mem.tx # NoPart => taken
  BY InvFacts DEF Answer, Composing
<1>2. PICK r \in Request : /\ mem' = ClearRx(MessageReceived(mem, r))
                           /\ excused' = Silenced(mem, r)
  BY DEF Answer
<1>3. /\ frame' = Silence /\ rx' = "on" /\ byte' \in BOOLEAN /\ excused' \in BOOLEAN
      /\ UNCHANGED <<clean, leaked, wild, taken, answers>>
  BY <1>2 DEF Answer, ReadAsync, Silenced
<1>4. /\ mem' \in Memory /\ Total(mem') = Total(mem) /\ mem'.held = 0 /\ TxList(mem')
      /\ mem'.tx # NoPart /\ mem'.txb = <<>> => mem.tx # NoPart
      /\ ~Silenced(mem, r) => Answering(mem')
  BY <1>1, <1>2, AnswerFacts
<1>5. Silence \in Frame /\ ~More(Silence) /\ ~Silence.open
  BY DEF Silence, Frame, More
<1>6. RxHoldsChunk' /\ OneAnswer' /\ Composing'
  BY <1>1, <1>3, <1>4, <1>5 DEF RxHoldsChunk, OneAnswer, Composing
<1>7. AnswerComing'
  <2>1. excused' \/ Answering(mem')
    BY <1>2, <1>4
  <2> QED  BY <2>1 DEF AnswerComing
<1>8. /\ Total(mem') + leaked' = Chunks /\ leaked' \in Nat /\ answers' \in 0 .. 1
      /\ frame' \in Frame /\ rx' \in Reader
  BY <1>1, <1>3, <1>4, <1>5 DEF Reader
<1>9. wild' = FALSE /\ clean' \in BOOLEAN /\ taken' \in BOOLEAN
  BY <1>1, <1>3
<1>10. mem'.tx # NoPart /\ mem'.txb = <<>> => taken'
  BY <1>1, <1>3, <1>4
<1> QED  BY <1>3, <1>4, <1>6, <1>7, <1>8, <1>9, <1>10, StepKeeps

LEMMA ReceiveStep == ASSUME ModbusInv, Receive PROVE ModbusInv'
<1>1. /\ mem \in Memory /\ frame \in Frame /\ answers \in 0 .. 1 /\ leaked \in Nat
      /\ rx \in Reader /\ byte \in BOOLEAN /\ clean \in BOOLEAN /\ taken \in BOOLEAN
      /\ excused \in BOOLEAN /\ Total(mem) + leaked = Chunks /\ RxHoldsChunk
      /\ ~wild /\ TxList(mem) /\ OneAnswer /\ Composing /\ AnswerComing
      /\ mem.tx # NoPart /\ mem.txb = <<>> => taken
  BY InvFacts DEF Receive
<1>2. Silence \in Frame /\ ~More(Silence) /\ ~Silence.open
  BY DEF Silence, Frame, More
<1>3. CASE RxComplete
  <2> DEFINE next == [frame EXCEPT !.full = @ - 1]
  <2>1. /\ frame.open /\ rx = "on" /\ frame.full > 0 /\ RxHandler(FALSE, TRUE, next)
    BY <1>3 DEF RxComplete
  <2>2. next \in Frame /\ next.open = frame.open /\ next.full = frame.full - 1
        /\ next.rest = frame.rest
    <3>1. frame.full \in Nat /\ frame.full - 1 \in Nat
      BY <1>1, <2>1 DEF Frame
    <3> QED  BY <1>1, <3>1 DEF Frame
  <2>3. More(frame) /\ (LastChunk => ~More(next))
    BY <1>1, <2>1, <2>2 DEF More, LastChunk, Frame
  <2> HIDE DEF next
  <2> QED  BY <1>1, <2>1, <2>2, <2>3, RxHandlerStep
<1>4. CASE RxTimeout
  <2>1. /\ frame.open /\ rx = "on" /\ More(frame) /\ RxHandler(TRUE, TRUE, Silence)
    BY <1>4 DEF RxTimeout
  <2> QED  BY <1>1, <1>2, <2>1, RxHandlerStep
<1>5. CASE RxError
  <2> DEFINE next == IF frame.full > 0 THEN [frame EXCEPT !.full = @ - 1]
                     ELSE [frame EXCEPT !.rest = FALSE]
  <2>1. /\ frame.open /\ rx = "on" /\ More(frame) /\ RxHandler(TRUE, FALSE, next)
    BY <1>5 DEF RxError
  <2>2. next \in Frame /\ next.open /\ (LastChunk => ~More(next))
    <3>1. CASE frame.full > 0
      BY <1>1, <2>1, <3>1 DEF Frame, More, LastChunk
    <3>2. CASE ~(frame.full > 0)
      BY <1>1, <2>1, <3>2 DEF Frame, More, LastChunk
    <3> QED  BY <3>1, <3>2
  <2> HIDE DEF next
  <2> QED  BY <1>1, <2>1, <2>2, RxHandlerStep
<1>6. CASE RxTimeoutEmpty \/ RxLost
  <2>1. /\ frame' = Silence /\ UNCHANGED <<mem, clean, leaked, wild, taken, answers>>
        /\ rx' \in {"never", "off", "on"} /\ byte' \in BOOLEAN /\ excused' \in BOOLEAN
        /\ rx' = "off" => ~mem.chunk \/ rx = "off"
        /\ rx' = "never" => rx = "never"
    <3>1. CASE RxTimeoutEmpty
      <4>1. excused' \in BOOLEAN
        BY <3>1 DEF RxTimeoutEmpty
      <4> QED  BY <1>1, <3>1, <4>1 DEF RxTimeoutEmpty, ReadAsync
    <3>2. CASE RxLost
      BY <1>1, <3>2 DEF RxLost
    <3> QED  BY <1>6, <3>1, <3>2
  <2>2. RxHoldsChunk' /\ OneAnswer' /\ Composing'
    BY <1>1, <1>2, <2>1 DEF RxHoldsChunk, OneAnswer, Composing, TxCurrent
  <2>3. AnswerComing'
    <3>1. CASE RxTimeoutEmpty
      <4> SUFFICES ASSUME ~excused' PROVE AnswerComing'
        BY DEF AnswerComing
      <4>1. ~excused /\ ~(mem.held > 0) /\ ~byte /\ rx = "on" /\ frame.open
        BY <3>1 DEF RxTimeoutEmpty
      <4>2. ~More(frame)
        BY <3>1, <4>1 DEF RxTimeoutEmpty
      <4> QED  BY <1>1, <2>1, <4>1, <4>2 DEF AnswerComing, Answering
    <3>2. CASE RxLost
      BY <3>2 DEF RxLost, AnswerComing
    <3> QED  BY <1>6, <3>1, <3>2
  <2>4. /\ wild' = FALSE /\ Total(mem') + leaked' = Chunks /\ leaked' \in Nat
        /\ mem' \in Memory /\ frame' \in Frame /\ rx' \in Reader /\ answers' \in 0 .. 1
        /\ clean' \in BOOLEAN /\ taken' \in BOOLEAN
        /\ mem'.tx # NoPart /\ mem'.txb = <<>> => taken'
    BY <1>1, <1>2, <2>1 DEF Reader
  <2>5. TxList(mem')
    BY <1>1, <2>1 DEF TxList
  <2> QED  BY <1>1, <2>1, <2>2, <2>3, <2>4, <2>5, StepKeeps
<1> QED  BY <1>1, <1>3, <1>4, <1>5, <1>6, AnswerStep DEF Receive

-----------------------------------------------------------------------------

(* The list behind a chunk that was sent.                                  *)
LEMMA SentFacts ==
  ASSUME mem \in Memory, TxList(mem), mem.tx # NoPart, mem.txb # <<>>, TxComplete
  PROVE  LET t == Tail(mem.txb) IN
         /\ mem' \in Memory /\ Total(mem') = Total(mem)
         /\ mem'.static = mem.static /\ mem'.chunk = mem.chunk /\ mem'.held = mem.held
         /\ mem'.txb = t
         /\ mem'.tx = IF t = <<>> THEN NoPart ELSE Head(t)
         /\ mem'.txLive <=> \/ t = <<>> \/ Head(t).what # "crc"
                            \/ mem.txLive /\ mem.tx.what = "payload"
<1> DEFINE one == IF Head(mem.txb).heap THEN 1 ELSE 0
           f == Freed(mem, one)
           rest == Tail(mem.txb)
           tx == IF rest = <<>> THEN NoPart ELSE Head(rest)
           live == \/ rest = <<>> \/ Head(rest).what # "crc"
                   \/ mem.txLive /\ mem.tx.what = "payload"
           n == [f EXCEPT !.txb = rest, !.tx = tx, !.txLive = live]
<1>1. mem' = [f EXCEPT !.txb = rest, !.tx = tx,
                       !.txLive = \/ rest = <<>> \/ Head(rest).what # "crc"
                                  \/ @ /\ mem.tx.what = "payload"]
  BY DEF TxComplete
<1>2. one \in Nat
  OBVIOUS
<1> HIDE DEF one
<1>3. /\ f \in Memory /\ f.free = mem.free + one
      /\ f.static = mem.static /\ f.chunk = mem.chunk /\ f.held = mem.held
      /\ f.txLive = mem.txLive
  BY <1>2, FreedFacts
<1>4. mem' = n
  BY <1>1, <1>3
<1> HIDE DEF rest
<1>5. /\ rest \in Seq(Part) /\ OfHeap(mem.txb) = OfHeap(rest) + one
      /\ OfHeap(rest) \in Nat
      /\ rest # <<>> => Head(rest) \in Part
  <2>1. PICK c \in BOOLEAN : IsList(mem.txb, c)
    BY DEF TxList
  <2>2. mem.txb \in Seq(Part)
    BY DEF Memory
  <2> QED  BY <2>1, <2>2, TailFacts DEF rest, one
<1>6. tx \in Part \cup {NoPart} /\ live \in BOOLEAN
  BY <1>5
<1> HIDE DEF f, tx, live
<1>7. n \in Memory /\ n.txb = rest /\ n.tx = tx /\ n.txLive = live
  BY <1>3, <1>5, <1>6 DEF Memory
<1>8. n.free = f.free /\ n.static = f.static /\ n.chunk = f.chunk /\ n.held = f.held
  BY <1>3 DEF Memory
<1> HIDE DEF n
<1>9. Total(n) = Total(mem)
  <2> DEFINE k == OfHeap(rest)
             g == mem.free
             h == mem.held
             l == Filling(mem)
  <2>1. g \in Nat /\ h \in Nat /\ l \in Nat /\ k \in Nat /\ OfHeap(mem.txb) = k + one
    BY <1>5 DEF Memory, Filling
  <2>2. n.free = g + one /\ n.held = h /\ OfHeap(n.txb) = k /\ Filling(n) = l
    BY <1>3, <1>7, <1>8 DEF Filling
  <2>3. Total(n) = n.free + h + k + l /\ Total(mem) = g + h + (k + one) + l
    BY <2>1, <2>2 DEF Total
  <2> HIDE DEF k, g, h, l
  <2> QED  BY <1>2, <2>1, <2>2, <2>3
<1>10. n.txLive <=> \/ rest = <<>> \/ Head(rest).what # "crc"
                    \/ mem.txLive /\ mem.tx.what = "payload"
  BY <1>7 DEF live
<1>11. n.tx = IF rest = <<>> THEN NoPart ELSE Head(rest)
  BY <1>7 DEF tx
<1>12. n.static = mem.static /\ n.chunk = mem.chunk /\ n.held = mem.held
  BY <1>3, <1>8
<1>13. n.txb = rest /\ n \in Memory
  BY <1>7
<1> QED  BY <1>4, <1>9, <1>10, <1>11, <1>12, <1>13 DEF rest

LEMMA TxCompleteStep == ASSUME ModbusInv, TxComplete PROVE ModbusInv'
<1>1. /\ mem \in Memory /\ answers \in 0 .. 1 /\ leaked \in Nat /\ frame \in Frame
      /\ rx \in Reader /\ byte \in BOOLEAN /\ clean \in BOOLEAN /\ taken \in BOOLEAN
      /\ excused \in BOOLEAN /\ Total(mem) + leaked = Chunks /\ RxHoldsChunk
      /\ ~wild /\ mem.tx # NoPart
      /\ TxList(mem) /\ OneAnswer /\ Composing /\ AnswerComing
      /\ mem.txb = <<>> => taken
  BY InvFacts DEF TxComplete
<1>2. UNCHANGED <<rx, byte, frame, clean, leaked, excused>>
  BY DEF TxComplete
<1>3. LET good == mem.txLive /\ mem.tx.current /\ mem.tx.what \in {"all", "crc"}
      IN  answers' = IF good THEN answers + 1 ELSE answers
  BY DEF TxComplete
<1>4. answers' \in 0 .. 1 /\ (~TxCurrent(mem) => answers' = answers)
  BY <1>1, <1>3 DEF OneAnswer, TxCurrent
<1>5. CASE mem.txb = <<>>
  <2>1. wild' = TRUE /\ mem' = [mem EXCEPT !.tx = NoPart] /\ taken' = taken
    BY <1>5 DEF TxComplete
  <2>2. /\ mem' \in Memory /\ mem'.static = mem.static /\ mem'.chunk = mem.chunk
        /\ mem'.held = mem.held /\ mem'.free = mem.free /\ mem'.txb = mem.txb
        /\ mem'.tx = NoPart
    BY <1>1, <2>1 DEF Memory
  <2>3. ModbusTypeOK'
    <3>1. wild' \in BOOLEAN
      BY <2>1, Zenon
    <3> QED  BY <1>1, <1>2, <1>4, <2>1, <2>2, <3>1 DEF ModbusTypeOK
  <2>4. RxHoldsChunk' /\ ListOutlivesTransmission'
    BY <1>1, <1>2, <1>5, <2>1, <2>2 DEF RxHoldsChunk, ListOutlivesTransmission
  <2>5. ChunksConserved'
    BY <1>2, <2>2 DEF ModbusInv, ChunksConserved
  <2> QED  BY <2>1, <2>3, <2>4, <2>5 DEF ModbusInv
<1>6. CASE mem.txb # <<>>
  <2> DEFINE rest == Tail(mem.txb)
  <2>1. /\ mem' \in Memory /\ Total(mem') = Total(mem)
        /\ mem'.static = mem.static /\ mem'.chunk = mem.chunk /\ mem'.held = mem.held
        /\ mem'.txb = rest
        /\ mem'.tx = IF rest = <<>> THEN NoPart ELSE Head(rest)
        /\ mem'.txLive <=> \/ rest = <<>> \/ Head(rest).what # "crc"
                           \/ mem.txLive /\ mem.tx.what = "payload"
    BY <1>1, <1>6, SentFacts
  <2>2. wild' = FALSE /\ taken' = FALSE
    BY <1>1, <1>6 DEF TxComplete
  <2>3. PICK c \in BOOLEAN : IsList(mem.txb, c)
    BY <1>1 DEF TxList
  <2>4. mem.txb \in Seq(Part)
    BY <1>1 DEF Memory
  <2>5. /\ IsList(rest, c) /\ rest \in Seq(Part)
        /\ mem.txb[1] \in Part /\ mem.txb[1].current = c /\ 1 \in DOMAIN mem.txb
        /\ rest # <<>> => /\ Head(rest) = rest[1] /\ rest[1] \in Part
                          /\ rest[1].current = c /\ rest[1].what # "empty"
                          /\ mem.txb[1].what \in {"payload", "empty"}
                          /\ mem.txb[1].what = "payload" <=> rest[1].what = "crc"
        /\ rest = <<>> => mem.txb[1].what \notin {"payload", "empty"}
    BY <1>6, <2>3, <2>4, TailFacts
  <2>6. \A i \in DOMAIN rest : rest[i].current = c
    BY <2>5 DEF IsList
  <2> HIDE DEF rest
  <2>7. TxList(mem')
    <3>1. IsList(mem'.txb, TRUE) \/ IsList(mem'.txb, FALSE)
      BY <2>1, <2>5, Zenon
    <3>2. mem'.tx = NoPart => rest = <<>>
      BY <2>1, <2>5, NoPartNoChunk
    <3>3. mem'.tx.what # "empty"
      BY <2>1, <2>5 DEF NoPart
    <3> QED  BY <2>1, <2>5, <3>1, <3>2, <3>3 DEF TxList
  <2>8. OneAnswer'
    <3>1. TxCurrent(mem') => c = TRUE /\ rest # <<>>
      <4>1. CASE rest = <<>>
        <5>1. mem'.tx.current = FALSE /\ mem'.txb = <<>>
          BY <2>1, <4>1 DEF NoPart
        <5> QED  BY <5>1 DEF TxCurrent
      <4>2. CASE rest # <<>>
        <5>1. mem'.tx.current = c /\ \A i \in DOMAIN mem'.txb : mem'.txb[i].current = c
          BY <2>1, <2>5, <2>6, <4>2
        <5> QED  BY <4>2, <5>1 DEF TxCurrent
      <4> QED  BY <4>1, <4>2
    <3>2. c = TRUE => TxCurrent(mem)
      BY <2>5 DEF TxCurrent
    <3>3. rest # <<>> => answers' = answers
      BY <1>1, <1>3, <1>6, <2>5 DEF TxList
    <3> QED  BY <1>1, <1>2, <1>4, <3>1, <3>2, <3>3 DEF OneAnswer
  <2>9. AnswerComing'
    <3>1. CASE answers = 1
      BY <1>1, <1>4, <3>1 DEF OneAnswer, AnswerComing
    <3>2. CASE answers = 0 /\ Answering(mem)
      <4>1. /\ mem.tx = mem.txb[1] /\ mem.txLive /\ mem.tx.current
            /\ mem.tx.what \in {"all", "payload", "crc"}
        BY <1>1, <1>6, <2>5, <3>2 DEF TxList, Answering, Part
      <4>2. CASE mem.tx.what = "payload"
        <5>1. rest # <<>> /\ mem.txb[1].current
          BY <2>5, <4>1, <4>2
        <5>2. mem'.txLive /\ mem'.tx = rest[1] /\ rest[1].what = "crc"
          BY <2>1, <2>5, <4>1, <4>2, <5>1
        <5>3. rest[1].current
          BY <2>5, <5>1
        <5> QED  BY <5>2, <5>3 DEF Answering, AnswerComing
      <4>3. CASE mem.tx.what # "payload"
        BY <1>3, <3>2, <4>1, <4>3 DEF AnswerComing
      <4> QED  BY <4>2, <4>3
    <3>3. CASE ~(answers = 1) /\ ~Answering(mem)
      BY <1>1, <1>2, <2>1, <3>3 DEF AnswerComing
    <3> QED  BY <1>1, <3>1, <3>2, <3>3
  <2>10. RxHoldsChunk' /\ Composing'
    BY <1>1, <1>2, <1>6, <2>1 DEF RxHoldsChunk, Composing
  <2>11. mem'.tx # NoPart /\ mem'.txb = <<>> => taken'
    BY <2>1
  <2>12. Total(mem') + leaked' = Chunks /\ leaked' \in Nat /\ taken' \in BOOLEAN
    BY <1>1, <1>2, <2>1, <2>2
  <2> QED  BY <1>1, <1>2, <1>4, <2>1, <2>2, <2>7, <2>8, <2>9, <2>10, <2>11, <2>12,
              StepKeeps
<1> QED  BY <1>5, <1>6

(* A DMA error: the list is given up.                                      *)
LEMMA TxErrorStep == ASSUME ModbusInv, TxError PROVE ModbusInv'
<1>1. /\ mem \in Memory /\ answers \in 0 .. 1 /\ leaked \in Nat /\ frame \in Frame
      /\ rx \in Reader /\ byte \in BOOLEAN /\ clean \in BOOLEAN
      /\ excused \in BOOLEAN /\ Total(mem) + leaked = Chunks /\ RxHoldsChunk
      /\ ~wild /\ TxList(mem) /\ OneAnswer /\ Composing /\ AnswerComing
  BY InvFacts DEF TxError
<1>2. UNCHANGED <<rx, byte, frame, clean, leaked, wild, answers>> /\ taken' = FALSE
  BY DEF TxError
<1> DEFINE c == ClearTx(mem)
<1>3. /\ c \in Memory /\ Total(c) = Total(mem) /\ c.static = mem.static
      /\ c.chunk = mem.chunk /\ c.held = mem.held /\ c.txb = <<>>
  BY <1>1, ClearTxFacts
<1>4. mem' = [c EXCEPT !.tx = NoPart, !.txLive = TRUE]
  BY DEF TxError
<1> HIDE DEF c
<1>5. /\ mem' \in Memory /\ mem'.tx = NoPart /\ mem'.txLive
      /\ mem'.static = c.static /\ mem'.chunk = c.chunk /\ mem'.held = c.held
      /\ mem'.txb = c.txb /\ mem'.free = c.free
  BY <1>3, <1>4 DEF Memory
<1>6. Total(mem') = Total(mem)
  BY <1>3, <1>5 DEF Total, Filling
<1>7. TxList(mem') /\ ~TxCurrent(mem')
  <2>1. mem'.txb = <<>> /\ mem'.tx = NoPart /\ mem'.txLive /\ IsList(<<>>, TRUE)
    BY <1>3, <1>5, EmptyList
  <2>2. NoPart.what # "empty" /\ NoPart.current = FALSE
    BY DEF NoPart
  <2>3. TxList(mem')
    BY <2>1, <2>2 DEF TxList
  <2>4. ~TxCurrent(mem')
    BY <2>1, <2>2 DEF TxCurrent
  <2> QED  BY <2>3, <2>4
<1>8. OneAnswer'
  BY <1>1, <1>2, <1>7 DEF OneAnswer
<1>9. RxHoldsChunk' /\ Composing'
  BY <1>1, <1>2, <1>3, <1>5, <1>7 DEF RxHoldsChunk, Composing
<1>10. AnswerComing' /\ excused' \in BOOLEAN
  <2>1. excused' = (excused \/ mem.tx.current)
    BY DEF TxError
  <2> QED  BY <1>1, <1>2, <1>3, <1>5, <2>1 DEF AnswerComing, Answering
<1>11. Total(mem') + leaked' = Chunks /\ leaked' \in Nat /\ wild' = FALSE
  BY <1>1, <1>2, <1>6
<1> QED  BY <1>1, <1>2, <1>5, <1>7, <1>8, <1>9, <1>10, <1>11, StepKeeps

-----------------------------------------------------------------------------

(* StartListen, SetStaticBuffers, DiscardReadBuffer and Stop, each with    *)
(* the invariant of what it leaves.                                        *)
LEMMA CallStep ==
  ASSUME ModbusInv, ~wild, rx # "task", mem' \in Memory, leaked' \in Nat,
         Total(mem') + leaked' = Chunks,
         rx' \in {"never", "off", "on"}, byte' \in BOOLEAN, clean' \in BOOLEAN,
         taken' \in BOOLEAN, excused' \in BOOLEAN,
         RxHoldsChunk', mem'.tx # NoPart /\ mem'.txb = <<>> => taken',
         UNCHANGED <<frame, wild, answers>>,
         TxList(mem'), TxCurrent(mem') => TxCurrent(mem), AnswerComing'
  PROVE  ModbusInv'
<1>1. frame \in Frame /\ answers \in 0 .. 1 /\ OneAnswer
  BY InvFacts
<1>2. OneAnswer' /\ Composing'
  BY <1>1 DEF OneAnswer, Composing
<1>3. frame' \in Frame /\ answers' \in 0 .. 1 /\ rx' \in Reader /\ wild' = FALSE
  BY <1>1 DEF Reader
<1> QED  BY <1>2, <1>3, StepKeeps

LEMMA StartListenStep == ASSUME ModbusInv, StartListen PROVE ModbusInv'
<1>1. /\ mem \in Memory /\ leaked \in Nat /\ ~wild /\ TxList(mem)
      /\ Total(mem) + leaked = Chunks /\ (mem.static => mem.held = 0)
      /\ mem.static \/ ~mem.chunk
      /\ rx \in {"never", "off"} /\ byte \in BOOLEAN /\ excused \in BOOLEAN
      /\ taken \in BOOLEAN /\ frame \in Frame /\ AnswerComing
      /\ mem.tx # NoPart /\ mem.txb = <<>> => taken
  BY InvFacts DEF StartListen, RxHoldsChunk
<1>2. /\ UNCHANGED <<frame, leaked, wild, taken, answers>> /\ clean' = TRUE /\ rx' = "on"
      /\ byte' \in {byte, byte \/ frame.open} /\ excused' = (excused \/ byte')
  BY DEF StartListen
<1>3. byte' \in BOOLEAN /\ excused' \in BOOLEAN
  <2>1. byte \in BOOLEAN /\ frame.open \in BOOLEAN
    BY <1>1 DEF Frame
  <2>2. byte' \in BOOLEAN
    BY <1>2, <2>1
  <2> QED  BY <1>1, <1>2, <2>2
<1>4. /\ mem' \in Memory /\ Total(mem') = Total(mem) /\ (mem'.static => mem'.held = 0)
      /\ mem'.static = mem.static /\ mem'.tx = mem.tx /\ mem'.txb = mem.txb
      /\ mem'.txLive = mem.txLive
  <2>1. CASE mem.static
    BY <1>1, <2>1 DEF StartListen
  <2>2. CASE ~mem.static
    <3> DEFINE c == ClearRx(mem)
               left == c.free - 1
    <3>1. /\ c \in Memory /\ Total(c) = Total(mem) /\ c.static = mem.static
          /\ c.chunk = mem.chunk /\ c.held = 0
          /\ c.tx = mem.tx /\ c.txb = mem.txb /\ c.txLive = mem.txLive
      BY <1>1, ClearRxFacts
    <3>2. c.free > 0 /\ mem' = [c EXCEPT !.chunk = TRUE, !.free = left]
      BY <2>2 DEF StartListen
    <3> HIDE DEF c
    <3>3. c.free \in Nat /\ left \in Nat /\ c.free = left + 1
      BY <3>1, <3>2 DEF Memory
    <3> HIDE DEF left
    <3>4. /\ mem' \in Memory /\ mem'.static = c.static /\ mem'.chunk = TRUE
          /\ mem'.free = left /\ mem'.held = c.held /\ mem'.tx = c.tx
          /\ mem'.txb = c.txb /\ mem'.txLive = c.txLive
      BY <3>1, <3>2, <3>3 DEF Memory
    <3>5. Total(mem') = Total(c)
      <4> DEFINE k == OfHeap(c.txb)
                 f == c.free
      <4>1. Total(mem') = left + 0 + k + 1
        BY <2>2, <3>1, <3>4 DEF Total, Filling
      <4>2. Total(c) = f + 0 + k + 0
        BY <1>1, <2>2, <3>1 DEF Total, Filling
      <4>3. k \in Nat /\ left \in Nat /\ f = left + 1
        BY <3>1, <3>3, OfHeapFacts DEF Memory
      <4> HIDE DEF k, f
      <4> QED  BY <4>1, <4>2, <4>3
    <3> QED  BY <2>2, <3>1, <3>4, <3>5
  <2> QED  BY <2>1, <2>2
<1>5. TxList(mem') /\ (TxCurrent(mem') => TxCurrent(mem))
  BY <1>1, <1>4, SameList
<1>6. AnswerComing'
  <2>1. \/ answers = 1 \/ excused \/ Answering(mem) \/ More(frame)
    BY <1>1 DEF AnswerComing
  <2>2. Answering(mem) => Answering(mem')
    BY <1>4 DEF Answering
  <2>3. frame' = frame /\ answers' = answers /\ clean' /\ (excused => excused')
    BY <1>2
  <2> QED  BY <2>1, <2>2, <2>3 DEF AnswerComing
<1>7. RxHoldsChunk'
  BY <1>2, <1>4 DEF RxHoldsChunk
<1>8. /\ Total(mem') + leaked' = Chunks /\ leaked' \in Nat /\ taken' \in BOOLEAN
      /\ mem'.tx # NoPart /\ mem'.txb = <<>> => taken'
  BY <1>1, <1>2, <1>4
<1> QED  BY <1>1, <1>2, <1>3, <1>4, <1>5, <1>6, <1>7, <1>8, CallStep

LEMMA DiscardStep == ASSUME ModbusInv, DiscardReadBuffer PROVE ModbusInv'
<1>1. /\ mem \in Memory /\ leaked \in Nat /\ ~wild /\ TxList(mem)
      /\ Total(mem) + leaked = Chunks /\ RxHoldsChunk /\ byte \in BOOLEAN
      /\ rx \in {"never", "off", "on"} /\ taken \in BOOLEAN
      /\ mem.tx # NoPart /\ mem.txb = <<>> => taken
  BY InvFacts DEF DiscardReadBuffer, Reader
<1>2. /\ mem' = ClearRx(mem) /\ clean' = FALSE /\ excused' = TRUE
      /\ UNCHANGED <<rx, byte, frame, leaked, wild, taken, answers>>
  BY DEF DiscardReadBuffer
<1>3. /\ mem' \in Memory /\ Total(mem') = Total(mem) /\ mem'.static = mem.static
      /\ mem'.chunk = mem.chunk /\ mem'.held = 0
      /\ mem'.tx = mem.tx /\ mem'.txb = mem.txb /\ mem'.txLive = mem.txLive
  BY <1>1, <1>2, ClearRxFacts
<1>4. TxList(mem') /\ (TxCurrent(mem') => TxCurrent(mem))
  BY <1>1, <1>3, SameList
<1>5. RxHoldsChunk' /\ AnswerComing'
  BY <1>1, <1>2, <1>3 DEF RxHoldsChunk, AnswerComing
<1>6. /\ Total(mem') + leaked' = Chunks /\ leaked' \in Nat /\ taken' \in BOOLEAN
      /\ mem'.tx # NoPart /\ mem'.txb = <<>> => taken'
  BY <1>1, <1>2, <1>3
<1>7. /\ rx' \in {"never", "off", "on"} /\ byte' \in BOOLEAN /\ clean' \in BOOLEAN
      /\ excused' \in BOOLEAN
  BY <1>1, <1>2
<1> QED  BY <1>1, <1>2, <1>3, <1>4, <1>5, <1>6, <1>7, CallStep

(* Both lists are emptied.                                                 *)
LEMMA ClearBothFacts ==
  ASSUME mem \in Memory
  PROVE  LET n == ClearTx(ClearRx(mem)) IN
         /\ n \in Memory /\ n.free \in Nat
         /\ n.static = mem.static /\ n.chunk = mem.chunk /\ n.held = 0
         /\ n.tx = mem.tx /\ n.txb = <<>>
         /\ n.txLive <=> mem.txLive /\ mem.tx = NoPart
         /\ Total(mem) = n.free + Filling(mem)
<1> DEFINE c == ClearRx(mem)
           n == ClearTx(c)
<1>1. /\ c \in Memory /\ Total(c) = Total(mem) /\ c.static = mem.static
      /\ c.chunk = mem.chunk /\ c.held = 0 /\ c.tx = mem.tx /\ c.txLive = mem.txLive
  BY ClearRxFacts
<1> HIDE DEF c
<1>2. /\ n \in Memory /\ Total(n) = Total(c) /\ n.static = c.static /\ n.chunk = c.chunk
      /\ n.held = c.held /\ n.tx = c.tx /\ n.txb = <<>>
      /\ n.txLive <=> c.txLive /\ c.tx = NoPart
  BY <1>1, ClearTxFacts
<1> HIDE DEF n
<1>3. n.free \in Nat /\ Filling(n) = Filling(mem) /\ Filling(mem) \in Nat
  BY <1>1, <1>2 DEF Memory, Filling
<1>4. Total(n) = n.free + 0 + 0 + Filling(mem)
  BY <1>1, <1>2, <1>3, EmptyList DEF Total
<1> QED  BY <1>1, <1>2, <1>3, <1>4 DEF n, c

LEMMA StopStep == ASSUME ModbusInv, Stop PROVE ModbusInv'
<1>1. /\ mem \in Memory /\ leaked \in Nat /\ ~wild /\ TxList(mem)
      /\ Total(mem) + leaked = Chunks /\ RxHoldsChunk
      /\ rx \in {"never", "off", "on"} /\ byte \in BOOLEAN /\ clean \in BOOLEAN
      /\ taken \in BOOLEAN
  BY InvFacts DEF Stop, Reader
<1> DEFINE c == ClearTx(ClearRx(mem))
<1>2. /\ mem' = [c EXCEPT !.static = FALSE, !.room = 0, !.chunk = FALSE]
      /\ excused' = TRUE /\ taken' = (taken \/ mem.tx # NoPart)
      /\ leaked' = IF mem.chunk /\ ~mem.static THEN leaked + 1 ELSE leaked
      /\ UNCHANGED <<rx, byte, frame, clean, wild, answers>>
  BY DEF Stop
<1>3. /\ c \in Memory /\ c.free \in Nat
      /\ c.static = mem.static /\ c.chunk = mem.chunk /\ c.held = 0
      /\ c.tx = mem.tx /\ c.txb = <<>>
      /\ c.txLive <=> mem.txLive /\ mem.tx = NoPart
      /\ Total(mem) = c.free + Filling(mem)
  BY <1>1, ClearBothFacts
<1> HIDE DEF c
<1>4. /\ mem' \in Memory /\ mem'.static = FALSE /\ mem'.chunk = FALSE /\ mem'.held = 0
      /\ mem'.free = c.free /\ mem'.tx = c.tx /\ mem'.txb = <<>> /\ mem'.txLive = c.txLive
  BY <1>2, <1>3 DEF Memory
<1>5. Total(mem') + leaked' = Chunks /\ leaked' \in Nat
  <2>1. Total(mem') = c.free
    BY <1>3, <1>4, EmptyList DEF Total, Filling
  <2>2. leaked' = leaked + Filling(mem) /\ Filling(mem) \in Nat
    BY <1>1, <1>2 DEF Filling
  <2> QED  BY <1>1, <1>3, <2>1, <2>2
<1>6. TxList(mem') /\ (TxCurrent(mem') => TxCurrent(mem))
  <2>1. mem'.tx = mem.tx /\ mem'.txb = <<>> /\ (mem'.txLive <=> mem.txLive /\ mem.tx = NoPart)
    BY <1>3, <1>4
  <2>2. TxList(mem')
    BY <1>1, <2>1, EmptyList DEF TxList
  <2> QED  BY <2>1, <2>2 DEF TxCurrent
<1>7. AnswerComing' /\ RxHoldsChunk'
  BY <1>1, <1>2, <1>3, <1>4 DEF AnswerComing, RxHoldsChunk
<1>8. /\ rx' \in {"never", "off", "on"} /\ byte' \in BOOLEAN /\ clean' \in BOOLEAN
      /\ excused' \in BOOLEAN /\ taken' \in BOOLEAN
      /\ mem'.tx # NoPart /\ mem'.txb = <<>> => taken'
  BY <1>1, <1>2, <1>3, <1>4
<1> QED  BY <1>1, <1>2, <1>4, <1>5, <1>6, <1>7, <1>8, CallStep

LEMMA SetStaticStep == ASSUME ModbusInv, SetStaticBuffers PROVE ModbusInv'
<1>1. /\ mem \in Memory /\ leaked \in Nat /\ ~wild /\ TxList(mem) /\ mem.tx = NoPart
      /\ Total(mem) + leaked = Chunks /\ rx = "never" /\ (mem.static \/ ~mem.chunk)
      /\ byte \in BOOLEAN /\ clean \in BOOLEAN /\ taken \in BOOLEAN /\ excused \in BOOLEAN
      /\ AnswerComing
  BY InvFacts DEF RxHoldsChunk, SetStaticBuffers
<1> DEFINE c == ClearTx(ClearRx(mem))
<1>2. PICK size \in StaticBytes :
         mem' = [c EXCEPT !.static = TRUE, !.room = size, !.chunk = TRUE]
  BY DEF SetStaticBuffers
<1>3. UNCHANGED <<rx, byte, frame, clean, leaked, wild, taken, answers, excused>>
  BY DEF SetStaticBuffers
<1>4. /\ c \in Memory /\ c.free \in Nat
      /\ c.static = mem.static /\ c.chunk = mem.chunk /\ c.held = 0
      /\ c.tx = NoPart /\ c.txb = <<>> /\ c.txLive
      /\ Total(mem) = c.free + Filling(mem)
  BY <1>1, ClearBothFacts DEF TxList
<1> HIDE DEF c
<1>5. size \in Nat
  OBVIOUS
<1>6. /\ mem' \in Memory /\ mem'.static = TRUE /\ mem'.chunk = TRUE /\ mem'.held = 0
      /\ mem'.free = c.free /\ mem'.tx = NoPart /\ mem'.txb = <<>> /\ mem'.txLive = c.txLive
  BY <1>2, <1>4, <1>5 DEF Memory
<1>7. Total(mem') + leaked' = Chunks
  <2>1. Total(mem') = c.free
    BY <1>4, <1>6, EmptyList DEF Total, Filling
  <2>2. Filling(mem) = 0
    BY <1>1 DEF Filling
  <2> QED  BY <1>1, <1>3, <1>4, <2>1, <2>2
<1>8. TxList(mem') /\ ~TxCurrent(mem')
  <2>1. mem'.tx = NoPart /\ mem'.txb = <<>> /\ mem'.txLive
    BY <1>4, <1>6
  <2>2. NoPart.what # "empty" /\ NoPart.current = FALSE
    BY DEF NoPart
  <2>3. TxList(mem')
    BY <2>1, <2>2, EmptyList DEF TxList
  <2>4. ~TxCurrent(mem')
    BY <2>1, <2>2 DEF TxCurrent
  <2> QED  BY <2>3, <2>4
<1>9. RxHoldsChunk'
  BY <1>6 DEF RxHoldsChunk
<1>10. AnswerComing'
  <2>1. \/ answers = 1 \/ excused
        \/ More(frame) /\ clean
    BY <1>1 DEF AnswerComing, Answering, NoPart
  <2> QED  BY <1>3, <2>1 DEF AnswerComing, More
<1>11. /\ leaked' \in Nat /\ rx' \in {"never", "off", "on"} /\ byte' \in BOOLEAN
       /\ clean' \in BOOLEAN /\ taken' \in BOOLEAN /\ excused' \in BOOLEAN
       /\ UNCHANGED <<frame, wild, answers>>
  BY <1>1, <1>3
<1> QED  BY <1>1, <1>6, <1>7, <1>8, <1>9, <1>10, <1>11, CallStep

\* MasterSends makes a part one of an earlier answer.
LEMMA OldPart ==
  ASSUME NEW p \in Part
  PROVE  /\ Old(p) \in Part /\ Old(p).what = p.what /\ Old(p).heap = p.heap
         /\ Old(p).current = FALSE
<1> DEFINE x == FALSE
<1>1. x \in BOOLEAN
  OBVIOUS
<1> HIDE DEF x
<1>2. /\ [p EXCEPT !.current = x] \in Part /\ [p EXCEPT !.current = x].what = p.what
      /\ [p EXCEPT !.current = x].heap = p.heap /\ [p EXCEPT !.current = x].current = x
  BY <1>1 DEF Part
<1> QED  BY <1>2 DEF Old, x

LEMMA OldNoPart == Old(NoPart) = NoPart
<1> DEFINE x == FALSE
<1>1. NoPart \in [what : {"none"}, current : BOOLEAN, heap : BOOLEAN] /\ x \in BOOLEAN
  BY DEF NoPart
<1> HIDE DEF x
<1>2. [NoPart EXCEPT !.current = x]
        = [what |-> NoPart.what, current |-> x, heap |-> NoPart.heap]
  BY <1>1
<1> QED  BY <1>2 DEF Old, NoPart, x

(* The list of an earlier answer has the same chunks.                      *)
LEMMA OldFacts ==
  ASSUME NEW c \in BOOLEAN, NEW s \in Seq(Part), IsList(s, c)
  PROVE  LET t == [i \in DOMAIN s |-> Old(s[i])] IN
         /\ t \in Seq(Part) /\ DOMAIN t = DOMAIN s /\ IsList(t, FALSE)
         /\ \A i \in DOMAIN t : t[i].current = FALSE
         /\ OfHeap(t) = OfHeap(s)
         /\ t = <<>> <=> s = <<>>
         /\ s # <<>> => t[1] = Old(s[1]) /\ t[1].what = s[1].what
<1> DEFINE t == [i \in DOMAIN s |-> Old(s[i])]
<1>1. /\ Len(s) \in Nat /\ DOMAIN s = 1 .. Len(s) /\ \A i \in DOMAIN s : s[i] \in Part
      /\ s = <<>> <=> Len(s) = 0
  OBVIOUS
<1>2. DOMAIN t = DOMAIN s /\ \A i \in DOMAIN s : t[i] = Old(s[i])
  OBVIOUS
<1>3. \A i \in DOMAIN s : /\ t[i] \in Part /\ t[i].what = s[i].what
                          /\ t[i].heap = s[i].heap /\ t[i].current = FALSE
  BY <1>1, <1>2, OldPart
<1>4. t \in [1 .. Len(s) -> Part]
  BY <1>1, <1>3
<1> HIDE DEF t
<1>5. t \in Seq(Part) /\ Len(t) = Len(s)
  BY <1>1, <1>4
<1>6. t = <<>> <=> s = <<>>
  BY <1>1, <1>5
<1>7. IsList(t, FALSE)
  <2> SUFFICES ASSUME NEW i \in DOMAIN s
               PROVE  /\ t[i].current = FALSE
                      /\ i > 1 => t[i].heap /\ t[i].what # "empty"
                      /\ i < Len(t) <=> t[i].what \in {"payload", "empty"}
                      /\ i < Len(t) => (t[i].what = "payload" <=> t[i + 1].what = "crc")
    BY <1>2 DEF IsList
  <2>1. /\ s[i].current = c
        /\ i > 1 => s[i].heap /\ s[i].what # "empty"
        /\ i < Len(s) <=> s[i].what \in {"payload", "empty"}
        /\ i < Len(s) => (s[i].what = "payload" <=> s[i + 1].what = "crc")
    BY DEF IsList
  <2>2. i < Len(s) => i + 1 \in DOMAIN s
    BY <1>1
  <2> DEFINE j == i + 1
  <2> HIDE DEF j
  <2>3. i < Len(s) => t[j].what = s[j].what
    BY <1>3, <2>2 DEF j
  <2>4. i < Len(t) => (t[i].what = "payload" <=> t[j].what = "crc")
    BY <1>3, <1>5, <2>1, <2>3 DEF j
  <2> QED  BY <1>3, <1>5, <2>1, <2>4 DEF j
<1>8. s # <<>> => /\ 1 \in DOMAIN s /\ t[1] = Old(s[1]) /\ t[1].what = s[1].what
                  /\ t[1].heap = s[1].heap
  <2>1. s # <<>> => 1 \in DOMAIN s
    BY <1>1
  <2> QED  BY <1>2, <1>3, <2>1
<1>9. OfHeap(t) = OfHeap(s)
  <2>1. s # <<>> => Head(s) = s[1] /\ Head(t) = t[1] /\ t # <<>>
    BY <1>1, <1>5, <1>6
  <2> QED  BY <1>5, <1>6, <1>8, <2>1 DEF OfHeap
<1> QED  BY <1>2, <1>3, <1>5, <1>6, <1>7, <1>8, <1>9 DEF t

LEMMA MasterSendsStep == ASSUME ModbusInv, MasterSends PROVE ModbusInv'
<1>1. /\ mem \in Memory /\ leaked \in Nat /\ ~wild /\ TxList(mem) /\ ~frame.open
      /\ Total(mem) + leaked = Chunks /\ RxHoldsChunk /\ Composing
      /\ rx \in Reader /\ byte \in BOOLEAN /\ taken \in BOOLEAN /\ mem.held \in Nat
      /\ mem.tx # NoPart /\ mem.txb = <<>> => taken
  BY InvFacts DEF MasterSends, Memory
<1> DEFINE tx == Old(mem.tx)
           txb == [i \in DOMAIN mem.txb |-> Old(mem.txb[i])]
<1>2. /\ mem' = [mem EXCEPT !.tx = tx, !.txb = txb]
      /\ clean' = (mem.held = 0) /\ answers' = 0 /\ excused' = (mem.held > 0 \/ byte)
      /\ UNCHANGED <<rx, byte, leaked, wild, taken>>
  BY DEF MasterSends
<1>3. PICK n \in 0 .. MaxFull, b \in BOOLEAN :
         frame' = [open |-> TRUE, full |-> n, rest |-> b] /\ More(frame')
  BY DEF MasterSends
<1>4. frame' \in Frame /\ frame'.open
  BY <1>3 DEF Frame
<1>5. PICK c \in BOOLEAN : IsList(mem.txb, c)
  BY <1>1 DEF TxList
<1>6. mem.txb \in Seq(Part)
  BY <1>1 DEF Memory
<1>7. /\ txb \in Seq(Part) /\ IsList(txb, FALSE) /\ OfHeap(txb) = OfHeap(mem.txb)
      /\ txb = <<>> <=> mem.txb = <<>>
      /\ mem.txb # <<>> => txb[1] = Old(mem.txb[1]) /\ txb[1].what = mem.txb[1].what
      /\ \A i \in DOMAIN txb : txb[i].current = FALSE
  BY <1>5, <1>6, OldFacts
<1>8. /\ tx \in Part \cup {NoPart} /\ tx.current = FALSE /\ tx.what = mem.tx.what
      /\ tx = NoPart <=> mem.tx = NoPart
  <2>1. CASE mem.tx = NoPart
    BY <2>1, OldNoPart DEF NoPart
  <2>2. CASE mem.tx # NoPart
    <3>1. mem.tx \in Part
      BY <1>1, <2>2 DEF Memory
    <3> QED  BY <2>2, <3>1, OldPart, NoPartNoChunk
  <2> QED  BY <2>1, <2>2
<1>9. mem.tx = mem.txb[1] /\ mem.txb # <<>> => txb[1] = tx
  BY <1>7
<1> HIDE DEF tx, txb
<1>10. /\ mem' \in Memory /\ mem'.tx = tx /\ mem'.txb = txb
       /\ mem'.static = mem.static /\ mem'.free = mem.free /\ mem'.chunk = mem.chunk
       /\ mem'.held = mem.held /\ mem'.txLive = mem.txLive
  BY <1>1, <1>2, <1>7, <1>8 DEF Memory
<1>11. Total(mem') + leaked' = Chunks /\ leaked' \in Nat
  <2>1. Total(mem') = Total(mem)
    BY <1>7, <1>10 DEF Total, Filling
  <2> QED  BY <1>1, <1>2, <2>1
<1>12. TxList(mem')
  BY <1>1, <1>7, <1>8, <1>9, <1>10 DEF TxList
<1>13. ~TxCurrent(mem')
  BY <1>7, <1>8, <1>10 DEF TxCurrent
<1>14. OneAnswer'
  BY <1>2, <1>4, <1>13 DEF OneAnswer
<1>15. AnswerComing'
  <2>1. mem.held > 0 => excused'
    BY <1>2
  <2>2. mem.held = 0 => clean'
    BY <1>2
  <2> QED  BY <1>1, <1>3, <2>1, <2>2 DEF AnswerComing
<1>16. RxHoldsChunk' /\ Composing'
  BY <1>1, <1>2, <1>8, <1>10 DEF RxHoldsChunk, Composing
<1>17. /\ byte' \in BOOLEAN /\ clean' \in BOOLEAN /\ taken' \in BOOLEAN
       /\ excused' \in BOOLEAN /\ rx' \in Reader /\ wild' = FALSE /\ answers' \in 0 .. 1
  BY <1>1, <1>2
<1>18. mem'.tx # NoPart /\ mem'.txb = <<>> => taken'
  BY <1>1, <1>2, <1>7, <1>8, <1>10
<1> QED  BY <1>1, <1>4, <1>10, <1>11, <1>12, <1>14, <1>15, <1>16, <1>17, <1>18, StepKeeps

(* The state of a constructed slave, and the one a reset leaves.           *)
LEMMA FreshInv ==
  ASSUME mem = [static |-> FALSE, room |-> 0, free |-> Chunks, chunk |-> FALSE,
                held |-> 0, txb |-> <<>>, tx |-> NoPart, txLive |-> TRUE],
         rx = "never", byte = FALSE, frame = Silence, clean = TRUE, leaked = 0,
         wild = FALSE, taken = FALSE, answers = 0, excused = TRUE
  PROVE  ModbusInv
<1>1. ModbusTypeOK
  <2>1. mem \in Memory
    BY EmptyList DEF Memory
  <2>2. frame \in Frame
    BY DEF Frame, Silence
  <2>3. /\ clean \in BOOLEAN /\ wild \in BOOLEAN /\ excused \in BOOLEAN
        /\ byte \in BOOLEAN /\ taken \in BOOLEAN
    BY Zenon
  <2>4. rx \in Reader /\ leaked \in Nat /\ answers \in 0 .. 1
    BY DEF Reader
  <2> QED  BY <2>1, <2>2, <2>3, <2>4 DEF ModbusTypeOK
<1>2. ChunksConserved /\ RxHoldsChunk /\ ListOutlivesTransmission
  BY EmptyList DEF ChunksConserved, RxHoldsChunk, ListOutlivesTransmission
<1>3. TxList(mem) /\ ~TxCurrent(mem)
  <2>1. mem.txb = <<>> /\ mem.tx = NoPart /\ mem.txLive
    OBVIOUS
  <2>2. NoPart.what # "empty" /\ NoPart.current = FALSE
    BY DEF NoPart
  <2>3. TxList(mem)
    BY <2>1, <2>2, EmptyList DEF TxList
  <2>4. ~TxCurrent(mem)
    BY <2>1, <2>2 DEF TxCurrent
  <2> QED  BY <2>3, <2>4
<1>4. OneAnswer /\ Composing /\ AnswerComing
  BY <1>3 DEF OneAnswer, Composing, AnswerComing, Silence, More
<1> QED  BY <1>1, <1>2, <1>3, <1>4 DEF ModbusInv

LEMMA InitModbusInv == Init => ModbusInv
  BY FreshInv DEF Init

LEMMA ResetStep == ASSUME Reset PROVE ModbusInv'
<1>1. (/\ mem = [static |-> FALSE, room |-> 0, free |-> Chunks, chunk |-> FALSE,
                 held |-> 0, txb |-> <<>>, tx |-> NoPart, txLive |-> TRUE]
       /\ rx = "never" /\ byte = FALSE /\ frame = Silence /\ clean = TRUE
       /\ leaked = 0 /\ wild = FALSE /\ taken = FALSE
       /\ answers = 0 /\ excused = TRUE)'
  BY DEF Reset
<1>2. Init'
  BY <1>1 DEF Init
<1> QED  BY <1>2, InitModbusInv, PTL

(* The invariant is inductive.                                             *)
LEMMA NextModbusInv == ModbusInv /\ [Next]_vars => ModbusInv'
<1> SUFFICES ASSUME ModbusInv, [Next]_vars PROVE ModbusInv'
  OBVIOUS
<1>1. CASE UNCHANGED vars
  <2>1. (ModbusTypeOK /\ RxHoldsChunk /\ ListOutlivesTransmission)'
    BY <1>1 DEF vars, ModbusInv, ModbusTypeOK, RxHoldsChunk, ListOutlivesTransmission
  <2>2. ChunksConserved'
    BY <1>1 DEF vars, ModbusInv, ChunksConserved
  <2>3. (~wild => TxList(mem))'
    BY <1>1 DEF vars, ModbusInv, TxList
  <2>4. (~wild => OneAnswer)' /\ (~wild => Composing)'
    BY <1>1 DEF vars, ModbusInv, OneAnswer, Composing, TxCurrent
  <2>5. (~wild => AnswerComing)'
    BY <1>1 DEF vars, ModbusInv, AnswerComing, Answering
  <2> QED  BY <2>1, <2>2, <2>3, <2>4, <2>5 DEF ModbusInv
<1> QED  BY <1>1, ReceiveStep, TxCompleteStep, TxErrorStep, StartListenStep, StopStep,
            SetStaticStep, DiscardStep, MasterSendsStep, ResetStep DEF Next

-----------------------------------------------------------------------------

(* Whatever the sizes of the heap, of a request, of the answers and of the *)
(* static chunk: no path of receiving, answering, failing or running out   *)
(* of memory loses a chunk or frees it twice, but for the one that Stop    *)
(* forgets.                                                                *)
THEOREM ChunksAreConserved == Spec => []ChunksConserved
<1> QED  BY InitModbusInv, NextModbusInv, PTL DEF Spec, ModbusInv

(* TxHandler detaches from an empty list only if Stop emptied it, or a     *)
(* request was taken up, since the transmission it ends began: receiving,  *)
(* errors, SetStaticBuffers and chunks of any size never do that.          *)
THEOREM TransmissionKeepsItsList == Spec => []ListOutlivesTransmission
<1> QED  BY InitModbusInv, NextModbusInv, PTL DEF Spec, ModbusInv

(* A request gets at most one answer, and one unless there is a reason.    *)
THEOREM RequestsAnsweredOnce == Spec => []AnsweredOrExcused
<1>1. ModbusInv => AnsweredOrExcused
  <2> SUFFICES ASSUME ModbusInv, ~frame.open, mem.tx = NoPart, ~wild
               PROVE  answers = 1 \/ excused
    BY DEF AnsweredOrExcused, ModbusInv, ModbusTypeOK
  <2>1. OneAnswer /\ AnswerComing /\ Composing
    BY DEF ModbusInv
  <2>2. ~More(frame) /\ ~Answering(mem) /\ rx # "task"
    BY <2>1 DEF OneAnswer, Answering, NoPart, Composing
  <2> QED  BY <2>1, <2>2 DEF AnswerComing
<1> QED  BY <1>1, InitModbusInv, NextModbusInv, PTL DEF Spec
===============================================================================
