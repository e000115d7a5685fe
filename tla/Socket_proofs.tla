----------------------------- MODULE Socket_proofs -----------------------------
(***************************************************************************)
(* Proofs about the sockets.                                               *)
(*                                                                         *)
(* First, SocketTransfer for packets of any size and number, any room in   *)
(* the connection and any timeouts.  Transfers are described once, for     *)
(* both ends, by where they leave the connection, the buffer and count;    *)
(* the steps of the loops then only have to say where they go on.  Reasons *)
(* strengthens ShortHasReason by what a call that has not returned yet     *)
(* knows: an error that is pending, or that recv() or send() has told, is  *)
(* of a broken connection.                                                 *)
(*                                                                         *)
(* Then SocketHandles and SocketServer, for any descriptors, Sockets and   *)
(* threads.  The inductive invariant follows every opening from hand to    *)
(* hand: a Socket, a variable of the program, or what the server has       *)
(* promised to a thread.  HandlesInv(P) is the part the operations on      *)
(* Sockets keep whatever P is promised, so that each of them is one lemma, *)
(* used by all threads; the steps of the server change P.                  *)
(***************************************************************************)
EXTENDS SocketTransfer, SocketServer, SequenceTheorems, WellFoundedInduction, TLAPS

(* Transfers.                                                              *)

Places == {"ready", "first", "again", "time", "select", "returned", "closed"}

Typed ==
  /\ wire \in Seq(Int) /\ broken \in BOOLEAN /\ err \in [Ends -> BOOLEAN]
  /\ buf \in [1..Size -> Int]
  /\ pc \in [Ends -> Places] /\ limit \in [Ends -> Nat]
  /\ count \in [Ends -> 0..Size] /\ rc \in [Ends -> Int]
  /\ elapsed \in [Ends -> Nat] /\ done \in [Ends -> Nat]
  /\ disturbed \subseteq Ends

Reasons ==
  \A e \in Ends :
    /\ err[e] => broken
    /\ rc[e] = ERROR => broken
    /\ pc[e] = "returned" /\ count[e] < Size
         => elapsed[e] >= limit[e] \/ broken \/ e \in disturbed

\* The inductive invariant.
Inv == Typed /\ StreamIntact /\ Reasons

-----------------------------------------------------------------------------
(* Packets and pieces of them.                                             *)

LEMMA SizeFacts == Size \in Nat \ {0} /\ "reader" \in Ends /\ "writer" \in Ends
BY TransferAssumption DEF Ends

LEMMA NextPacket ==
  ASSUME NEW d \in Nat, NEW n \in Nat
  PROVE  (d + 1) * n + 0 = d * n + n
OBVIOUS

LEMMA PacketValue ==
  ASSUME NEW d \in Nat, NEW i \in 1..Size
  PROVE  /\ Packet(d + 1)[i] = d * Size + i /\ Packet(d + 1)[i] \in Int
         /\ d * Size \in Nat
<1>1. (d + 1 - 1) * Size = d * Size /\ d * Size \in Nat
  BY TransferAssumption
<1> QED BY <1>1, TransferAssumption DEF Packet

\* What is left of a sequence without its first r elements.
LEMMA Rest ==
  ASSUME NEW w \in Seq(Int), NEW r \in 0..Len(w)
  PROVE  LET s == SubSeq(w, r + 1, Len(w))
         IN  /\ s \in Seq(Int) /\ Len(s) = Len(w) - r
             /\ \A i \in 1..Len(s) : s[i] = w[r + i]
<1>1. Len(w) \in Nat /\ \A i \in (r + 1)..Len(w) : w[i] \in Int
  OBVIOUS
<1>2. r + 1 \in Int /\ Len(w) \in Int
  BY <1>1
<1> DEFINE s == SubSeq(w, r + 1, Len(w))
<1>3. /\ s \in Seq(Int)
      /\ Len(s) = IF r + 1 <= Len(w) THEN Len(w) - (r + 1) + 1 ELSE 0
      /\ \A i \in 1..Len(w) - (r + 1) + 1 : s[i] = w[r + 1 + i - 1]
  BY <1>1, <1>2, SubSeqProperties
<1> HIDE DEF s
<1>4. Len(s) = Len(w) - r
  BY <1>1, <1>3
<1>5. \A i \in 1..Len(s) : s[i] = w[r + i]
  <2> SUFFICES ASSUME NEW i \in 1..Len(s) PROVE s[i] = w[r + i]
    OBVIOUS
  <2>1. i \in 1..Len(w) - (r + 1) + 1 /\ r + 1 + i - 1 = r + i
    BY <1>1, <1>4
  <2> QED BY <1>3, <2>1
<1> QED BY <1>3, <1>4, <1>5 DEF s

\* What the first elements are.
LEMMA Start ==
  ASSUME NEW w \in Seq(Int), NEW k \in 0..Len(w)
  PROVE  LET s == SubSeq(w, 1, k)
         IN  /\ s \in Seq(Int) /\ Len(s) = k
             /\ \A i \in 1..k : s[i] = w[i]
<1>1. Len(w) \in Nat /\ \A i \in 1..k : w[i] \in Int
  OBVIOUS
<1> DEFINE s == SubSeq(w, 1, k)
<1>2. /\ s \in Seq(Int) /\ Len(s) = IF 1 <= k THEN k - 1 + 1 ELSE 0
      /\ \A i \in 1..k - 1 + 1 : s[i] = w[1 + i - 1]
  BY <1>1, SubSeqProperties
<1> HIDE DEF s
<1>3. Len(s) = k /\ \A i \in 1..k : s[i] = w[i]
  BY <1>1, <1>2
<1> QED BY <1>2, <1>3 DEF s

\* The piece of a packet that send() takes.
LEMMA Piece ==
  ASSUME NEW d \in Nat, NEW c \in 0..Size, NEW r \in Nat, c + r <= Size
  PROVE  LET s == SubSeq(Packet(d + 1), c + 1, c + r)
         IN  /\ s \in Seq(Int) /\ Len(s) = r
             /\ \A i \in 1..r : s[i] = d * Size + c + i
<1> DEFINE p == Packet(d + 1)
           s == SubSeq(p, c + 1, c + r)
<1>1. Size \in Nat
  BY TransferAssumption
<1>2. \A i \in (c + 1)..(c + r) : i \in 1..Size /\ p[i] \in Int /\ p[i] = d * Size + i
  BY <1>1, PacketValue
<1>3. c + 1 \in Int /\ c + r \in Int
  BY <1>1
<1> HIDE DEF p
<1>4. /\ s \in Seq(Int)
      /\ Len(s) = IF c + 1 <= c + r THEN c + r - (c + 1) + 1 ELSE 0
      /\ \A i \in 1..c + r - (c + 1) + 1 : s[i] = p[c + 1 + i - 1]
  BY <1>2, <1>3, SubSeqProperties
<1> HIDE DEF s
<1>5. Len(s) = r
  BY <1>1, <1>4
<1>6. ASSUME NEW i \in 1..r PROVE s[i] = d * Size + c + i
  <2>1. i \in 1..c + r - (c + 1) + 1 /\ c + 1 + i - 1 = c + i
        /\ c + i \in (c + 1)..(c + r)
    BY <1>1
  <2>2. s[i] = d * Size + (c + i)
    BY <1>2, <1>4, <2>1
  <2>3. d * Size \in Nat
    BY <1>1
  <2> QED BY <1>1, <2>2, <2>3
<1> QED BY <1>4, <1>5, <1>6 DEF s, p

-----------------------------------------------------------------------------
(* A transfer.                                                             *)

LEMMA OutcomeFacts ==
  ASSUME Typed, NEW e \in Ends, NEW r \in Outcomes(e)
  PROVE  /\ r \in Int
         /\ r > 0 => r <= Size - count[e]
         /\ r > 0 /\ e = "reader" => r <= Len(wire)
         /\ r > 0 /\ e = "writer" => ~broken
         /\ r = ERROR => broken \/ err[e]
<1>1. Size \in Nat /\ count[e] \in 0..Size /\ Len(wire) \in Nat /\ Room \in Nat
  BY TransferAssumption DEF Typed
<1>2. CASE e = "reader"
  <2>1. CASE r \in 1..Lesser(Len(wire), Asked(e))
    BY <1>1, <1>2, <2>1 DEF Lesser, Asked, ERROR
  <2>2. CASE r \in {ERROR, 0, AGAIN}
    BY <1>2, <2>2 DEF Outcomes, ERROR, AGAIN
  <2> QED BY <1>2, <2>1, <2>2 DEF Outcomes
<1>3. CASE e = "writer"
  <2>1. CASE r \in 1..Lesser(Room - Len(wire), Asked(e)) /\ ~broken
    BY <1>1, <1>3, <2>1 DEF Lesser, Asked, ERROR
  <2>2. CASE r = ERROR /\ broken
    BY <1>3, <2>2 DEF ERROR
  <2>3. CASE r = AGAIN
    BY <1>3, <2>3 DEF ERROR, AGAIN
  <2> QED BY <1>3, <2>1, <2>2, <2>3 DEF Outcomes
<1> QED BY <1>2, <1>3 DEF Ends

\* The bytes the reader takes are the next ones of its packet.
LEMMA ReaderMoves ==
  ASSUME Typed, StreamIntact,
         NEW r \in Nat, r <= Len(wire), r <= Size - count["reader"],
         Move("reader", r), count' = [count EXCEPT !["reader"] = @ + r],
         UNCHANGED <<broken, done>>
  PROVE  /\ wire' \in Seq(Int) /\ buf' \in [1..Size -> Int]
         /\ count' \in [Ends -> 0..Size] /\ StreamIntact'
<1> DEFINE c == count["reader"]
           d == done["reader"]
<1>1. /\ Size \in Nat \ {0} /\ c \in 0..Size /\ d \in Nat /\ d * Size \in Nat
      /\ done["writer"] * Size + count["writer"] \in Int /\ Len(wire) \in Nat
  <2>1. Size \in Nat \ {0} /\ c \in 0..Size /\ d \in Nat /\ wire \in Seq(Int)
    BY SizeFacts DEF Typed
  <2>2. done["writer"] \in Nat /\ count["writer"] \in Nat
    BY SizeFacts DEF Typed
  <2> QED BY <2>1, <2>2
<1>2. /\ buf' = [i \in 1..Size |-> IF i - c \in 1..r THEN wire[i - c] ELSE buf[i]]
      /\ wire' = SubSeq(wire, r + 1, Len(wire))
  BY DEF Move
<1>3. /\ wire' \in Seq(Int) /\ Len(wire') = Len(wire) - r
      /\ \A i \in 1..Len(wire') : wire'[i] = wire[r + i]
  <2>1. r \in 0..Len(wire) /\ wire \in Seq(Int)
    BY <1>1 DEF Typed
  <2> QED BY <1>2, <2>1, Rest
<1>4. /\ \A i \in 1..Len(wire) : wire[i] = d * Size + c + i
      /\ \A i \in 1..c : buf[i] = d * Size + i
      /\ ~broken => d * Size + c + Len(wire) = Sent
  <2>1. ASSUME NEW i \in 1..c PROVE Packet(d + 1)[i] = d * Size + i
    <3>1. i \in 1..Size /\ d \in Nat
      BY <1>1
    <3> HIDE DEF c, d
    <3> QED BY <3>1, PacketValue
  <2> QED BY <2>1 DEF StreamIntact, Received
<1>5. /\ count'["reader"] = c + r /\ count'["writer"] = count["writer"]
      /\ count' \in [Ends -> 0..Size]
  <2>1. c + r \in 0..Size
    BY <1>1
  <2> QED BY <2>1, SizeFacts DEF Typed
<1>6. buf' \in [1..Size -> Int]
  <2>1. ASSUME NEW i \in 1..Size PROVE (IF i - c \in 1..r THEN wire[i - c] ELSE buf[i]) \in Int
    <3>1. CASE i - c \in 1..r
      <4>1. i - c \in 1..Len(wire)
        BY <1>1, <3>1
      <4> QED BY <3>1, <4>1 DEF Typed
    <3>2. CASE i - c \notin 1..r
      BY <3>2 DEF Typed
    <3> QED BY <3>1, <3>2
  <2> QED BY <1>2, <2>1
<1>7. ASSUME NEW i \in 1..c + r PROVE buf'[i] = Packet(d + 1)[i]
  <2>1. i \in 1..Size /\ Packet(d + 1)[i] = d * Size + i
    <3>1. i \in 1..Size /\ d \in Nat
      BY <1>1
    <3> HIDE DEF c, d
    <3> QED BY <3>1, PacketValue
  <2>2. CASE i \in 1..c
    <3>1. i - c \notin 1..r
      BY <1>1, <2>2
    <3> QED BY <1>2, <1>4, <2>1, <2>2, <3>1
  <2>3. CASE i - c \in 1..r
    <3>1. wire[i - c] = d * Size + c + (i - c)
      <4>1. i - c \in 1..Len(wire)
        BY <1>1, <2>3
      <4> QED BY <1>4, <4>1
    <3>2. buf'[i] = wire[i - c]
      BY <1>2, <2>1, <2>3
    <3> QED BY <1>1, <2>1, <3>1, <3>2
  <2> QED BY <1>1, <2>2, <2>3
<1>8. ASSUME NEW i \in 1..Len(wire') PROVE wire'[i] = d * Size + (c + r) + i
  <2>1. r + i \in 1..Len(wire)
    <3>1. Len(wire') = Len(wire) - r
      BY <1>3
    <3>2. i \in 1..(Len(wire) - r) /\ Len(wire) \in Nat /\ r \in Nat
      BY <1>1, <3>1
    <3> QED BY <3>2
  <2>2. wire'[i] = d * Size + c + (r + i)
    BY <1>3, <1>4, <2>1
  <2> QED BY <1>1, <2>2
<1>9. ~broken => d * Size + (c + r) + Len(wire') = Sent
  <2>1. Sent \in Int
    BY <1>1 DEF Sent
  <2> QED BY <1>1, <1>3, <1>4, <2>1
<1>10. Received' = d * Size + (c + r) /\ Sent' = Sent
  BY <1>5 DEF Received, Sent
<1>11. StreamIntact'
  BY <1>5, <1>7, <1>8, <1>9, <1>10 DEF StreamIntact
<1> QED BY <1>3, <1>5, <1>6, <1>11

\* The bytes the writer gives are the next ones of the stream.
LEMMA WriterMoves ==
  ASSUME Typed, StreamIntact, ~broken,
         NEW r \in Nat, r <= Size - count["writer"],
         Move("writer", r), count' = [count EXCEPT !["writer"] = @ + r],
         UNCHANGED <<broken, done>>
  PROVE  /\ wire' \in Seq(Int) /\ buf' \in [1..Size -> Int]
         /\ count' \in [Ends -> 0..Size] /\ StreamIntact'
<1> DEFINE c == count["writer"]
           d == done["writer"]
           s == SubSeq(Packet(d + 1), c + 1, c + r)
<1>1. /\ Size \in Nat \ {0} /\ c \in 0..Size /\ d \in Nat /\ d * Size \in Nat
      /\ Received \in Int /\ Len(wire) \in Nat /\ wire \in Seq(Int)
  <2>1. Size \in Nat \ {0} /\ c \in 0..Size /\ d \in Nat /\ wire \in Seq(Int)
    BY SizeFacts DEF Typed
  <2>2. done["reader"] \in Nat /\ count["reader"] \in Nat
    BY SizeFacts DEF Typed
  <2>3. d * Size \in Nat /\ Received \in Int
    BY <2>1, <2>2 DEF Received
  <2> QED BY <2>1, <2>3
<1>2. wire' = wire \o s /\ buf' = buf
  BY DEF Move
<1>3. s \in Seq(Int) /\ Len(s) = r /\ \A i \in 1..r : s[i] = d * Size + c + i
  <2>1. c + r <= Size
    BY <1>1
  <2>2. c \in 0..Size /\ d \in Nat
    BY <1>1
  <2> HIDE DEF c, d
  <2> QED BY <2>1, <2>2, Piece DEF s
<1> HIDE DEF s
<1>4. /\ wire' \in Seq(Int) /\ Len(wire') = Len(wire) + r
      /\ \A i \in 1..Len(wire) + r :
           wire'[i] = IF i <= Len(wire) THEN wire[i] ELSE s[i - Len(wire)]
  BY <1>1, <1>2, <1>3, ConcatProperties
<1>5. /\ count'["writer"] = c + r /\ count'["reader"] = count["reader"]
      /\ count' \in [Ends -> 0..Size]
  <2>1. c + r \in 0..Size
    BY <1>1
  <2> QED BY <2>1, SizeFacts DEF Typed
<1>6. /\ \A i \in 1..Len(wire) : wire[i] = Received + i
      /\ Received + Len(wire) = d * Size + c
  BY DEF StreamIntact, Sent
<1>7. ASSUME NEW i \in 1..Len(wire') PROVE wire'[i] = Received + i
  <2>1. CASE i <= Len(wire)
    <3>1. i \in 1..Len(wire) /\ i \in 1..Len(wire) + r
      BY <1>1, <1>4, <2>1
    <3> QED BY <1>4, <1>6, <2>1, <3>1
  <2>2. CASE ~(i <= Len(wire))
    <3>1. i - Len(wire) \in 1..r
      BY <1>1, <1>4, <2>2
    <3>2. wire'[i] = d * Size + c + (i - Len(wire))
      BY <1>3, <1>4, <2>2, <3>1
    <3> QED BY <1>1, <1>6, <3>2
  <2> QED BY <2>1, <2>2
<1>8. Received' = Received /\ Sent' = d * Size + (c + r)
  BY <1>5 DEF Received, Sent
<1>9. Received + Len(wire') = d * Size + (c + r)
  <2> DEFINE p == d * Size
             l == Len(wire)
  <2>1. p \in Nat /\ l \in Nat /\ c \in Nat /\ Received \in Int
    BY <1>1
  <2>2. Len(wire') = l + r /\ Received + l = p + c
    BY <1>4, <1>6
  <2>3. Received + Len(wire') = p + (c + r)
    <3> HIDE DEF p, l, c
    <3> QED BY <2>1, <2>2
  <2> QED BY <2>3
<1>10. StreamIntact'
  BY <1>2, <1>5, <1>7, <1>8, <1>9 DEF StreamIntact
<1> QED BY <1>2, <1>4, <1>5, <1>10 DEF Typed

\* recv() or send() in either loop: it returns only when the packet is done,
\* after an error, or, if the call may not wait, at once.
LEMMA TransferInv ==
  ASSUME Inv, NEW e \in Ends, NEW next \in Places, Transfer(e, next),
         UNCHANGED <<broken, limit, elapsed, disturbed, done>>,
         next = "returned" => limit[e] = 0
  PROVE  Inv'
<1>1. PICK r \in Outcomes(e) :
        /\ rc' = [rc EXCEPT ![e] = r]
        /\ IF r > 0 THEN Move(e, r) ELSE UNCHANGED <<wire, buf>>
        /\ count' = [count EXCEPT ![e] = Counted(e, r)]
        /\ err' = [err EXCEPT ![e] = @ /\ r # ERROR]
        /\ pc' = [pc EXCEPT ![e] = IF r = ERROR \/ count'[e] >= Size
                                   THEN "returned" ELSE next]
  BY DEF Transfer
<1>2. /\ Typed /\ StreamIntact /\ Reasons
      /\ r \in Int
      /\ r > 0 => r <= Size - count[e]
      /\ r > 0 /\ e = "reader" => r <= Len(wire)
      /\ r > 0 /\ e = "writer" => ~broken
      /\ r = ERROR => broken \/ err[e]
  BY OutcomeFacts DEF Inv
<1>3. /\ wire' \in Seq(Int) /\ buf' \in [1..Size -> Int]
      /\ count' \in [Ends -> 0..Size] /\ StreamIntact'
  <2>1. CASE r > 0
    <3>1. r \in Nat /\ Move(e, r) /\ count' = [count EXCEPT ![e] = @ + r]
      BY <1>1, <1>2, <2>1 DEF Counted
    <3>2. CASE e = "reader"
      BY <1>2, <2>1, <3>1, <3>2, ReaderMoves
    <3>3. CASE e = "writer"
      BY <1>2, <2>1, <3>1, <3>3, WriterMoves
    <3> QED BY <3>2, <3>3 DEF Ends
  <2>2. CASE ~(r > 0)
    <3>1. UNCHANGED <<wire, buf, count, done, broken>>
      BY <1>1, <1>2, <2>2 DEF Counted, Typed
    <3> QED BY <1>2, <3>1 DEF Typed, StreamIntact, Received, Sent
  <2> QED BY <2>1, <2>2
<1>4. Typed'
  <2>1. rc' \in [Ends -> Int] /\ pc' \in [Ends -> Places]
    BY <1>1, <1>2 DEF Typed, Places
  <2>2. err' \in [Ends -> BOOLEAN]
    BY <1>1, <1>2 DEF Typed
  <2> QED BY <1>2, <1>3, <2>1, <2>2 DEF Typed
<1>5. Reasons'
  <2> SUFFICES ASSUME NEW d \in Ends
               PROVE  /\ err'[d] => broken
                      /\ rc'[d] = ERROR => broken
                      /\ pc'[d] = "returned" /\ count'[d] < Size
                           => elapsed[d] >= limit[d] \/ broken \/ d \in disturbed
    BY DEF Reasons
  <2>1. CASE d # e
    BY <1>1, <1>2, <2>1 DEF Reasons, Typed
  <2>2. CASE d = e
    <3>1. err'[e] => broken
      BY <1>1, <1>2 DEF Reasons, Typed
    <3>2. rc'[e] = ERROR => broken
      BY <1>1, <1>2 DEF Reasons, Typed
    <3>3. ASSUME pc'[e] = "returned", count'[e] < Size
          PROVE  elapsed[e] >= limit[e] \/ broken
      <4>1. count'[e] \in Int /\ Size \in Nat
        BY <1>3, SizeFacts
      <4>2. r = ERROR \/ next = "returned"
        BY <1>1, <1>2, <3>3, <4>1 DEF Typed
      <4>3. CASE r = ERROR
        BY <1>2, <4>3 DEF Reasons
      <4>4. CASE next = "returned"
        BY <1>2, <4>4 DEF Typed
      <4> QED BY <4>2, <4>3, <4>4
    <3> QED BY <2>2, <3>1, <3>2, <3>3
  <2> QED BY <2>1, <2>2
<1> QED BY <1>3, <1>4, <1>5 DEF Inv

-----------------------------------------------------------------------------
(* The other steps.                                                        *)

\* Steps that leave the stream alone.
LEMMA StreamStays ==
  ASSUME StreamIntact, UNCHANGED <<wire, broken, buf, count, done>>
  PROVE  StreamIntact'
BY DEF StreamIntact, Received, Sent

LEMMA CallInv ==
  ASSUME Inv, NEW e \in Ends, Call(e)
  PROVE  Inv'
<1>1. PICK t \in Timeouts : limit' = [limit EXCEPT ![e] = t]
  BY DEF Call
<1>2. t \in Nat
  BY TransferAssumption
<1>3. /\ pc' = [pc EXCEPT ![e] = "first"] /\ elapsed' = [elapsed EXCEPT ![e] = 0]
      /\ UNCHANGED <<wire, broken, err, buf, count, rc, disturbed, done>>
  BY DEF Call
<1>4. Typed'
  BY <1>1, <1>2, <1>3 DEF Inv, Typed, Places
<1>5. Reasons'
  BY <1>1, <1>3 DEF Inv, Reasons, Typed
<1> QED BY <1>3, <1>4, <1>5, StreamStays DEF Inv

LEMMA CheckTimeInv ==
  ASSUME Inv, NEW e \in Ends, CheckTime(e)
  PROVE  Inv'
<1>1. /\ pc' = [pc EXCEPT ![e] = IF elapsed[e] > limit[e] THEN "returned" ELSE "select"]
      /\ UNCHANGED <<wire, broken, err, buf, limit, count, rc, elapsed, disturbed, done>>
  BY DEF CheckTime
<1>2. Typed'
  BY <1>1 DEF Inv, Typed, Places
<1>3. elapsed[e] > limit[e] => elapsed[e] >= limit[e]
  BY DEF Inv, Typed
<1>4. Reasons'
  BY <1>1, <1>3 DEF Inv, Reasons, Typed
<1> QED BY <1>1, <1>2, <1>4, StreamStays DEF Inv

LEMMA SelectInv ==
  ASSUME Inv, NEW e \in Ends, Select(e)
  PROVE  Inv'
<1>1. /\ Ready(e) \/ elapsed[e] >= limit[e]
      /\ pc' = [pc EXCEPT ![e] = IF Ready(e) /\ ~err[e] THEN "again" ELSE "returned"]
      /\ err' = [err EXCEPT ![e] = FALSE]
      /\ UNCHANGED <<wire, broken, buf, limit, count, rc, elapsed, disturbed, done>>
  BY DEF Select
<1>2. Typed'
  BY <1>1 DEF Inv, Typed, Places
<1>3. pc'[e] = "returned" => elapsed[e] >= limit[e] \/ broken
  BY <1>1 DEF Inv, Reasons, Typed
<1>4. Reasons'
  BY <1>1, <1>3 DEF Inv, Reasons, Typed
<1> QED BY <1>1, <1>2, <1>4, StreamStays DEF Inv

LEMMA DisturbInv ==
  ASSUME Inv, NEW e \in Ends, Disturb(e)
  PROVE  Inv'
<1>1. /\ pc' = [pc EXCEPT ![e] = "returned"] /\ disturbed' = disturbed \cup {e}
      /\ UNCHANGED <<wire, broken, err, buf, limit, count, rc, elapsed, done>>
  BY DEF Disturb
<1>2. Typed'
  BY <1>1 DEF Inv, Typed, Places
<1>3. Reasons'
  BY <1>1 DEF Inv, Reasons, Typed
<1> QED BY <1>1, <1>2, <1>3, StreamStays DEF Inv

\* readn() and writen() go on to the next packet only after a whole one.
LEMMA ReturnInv ==
  ASSUME Inv, NEW e \in Ends, Return(e)
  PROVE  Inv'
<1>1. pc[e] = "returned" /\ UNCHANGED <<wire, broken, err, buf, limit, rc, elapsed, disturbed>>
  BY DEF Return
<1>2. Typed /\ StreamIntact /\ Reasons
  BY DEF Inv
<1>3. CASE Value(e) = Size
  <2>1. /\ pc' = [pc EXCEPT ![e] = "ready"]
        /\ done' = [done EXCEPT ![e] = @ + 1]
        /\ count' = [count EXCEPT ![e] = 0]
    BY <1>3 DEF Return
  <2>2. count[e] = Size
    BY <1>3, SizeFacts DEF Value
  <2>3. Typed'
    <3>1. 0 \in 0..Size /\ "ready" \in Places
      BY SizeFacts DEF Places
    <3>2. count' \in [Ends -> 0..Size]
      BY <1>2, <2>1, <3>1 DEF Typed
    <3>3. pc' \in [Ends -> Places]
      BY <1>2, <2>1, <3>1 DEF Typed
    <3>4. done' \in [Ends -> Nat]
      BY <1>2, <2>1 DEF Typed
    <3> QED BY <1>1, <1>2, <3>2, <3>3, <3>4 DEF Typed
  <2>4. Reasons'
    BY <1>1, <1>2, <2>1 DEF Reasons, Typed
  <2>5. \A d \in Ends : done'[d] * Size + count'[d] = done[d] * Size + count[d]
    <3>1. (done[e] + 1) * Size + 0 = done[e] * Size + Size
      <4>1. done[e] \in Nat /\ Size \in Nat
        BY <1>2, SizeFacts DEF Typed
      <4> QED BY <4>1, NextPacket
    <3> QED BY <1>2, <2>1, <2>2, <3>1 DEF Typed
  <2>6. Received' = Received /\ Sent' = Sent
    BY <2>5, SizeFacts DEF Received, Sent
  <2>7. \A i \in 1..count'["reader"] : buf[i] = Packet(done'["reader"] + 1)[i]
    <3>1. CASE e = "reader"
      BY <1>2, <2>1, <3>1 DEF Typed
    <3>2. CASE e # "reader"
      BY <1>2, <2>1, <3>2, SizeFacts DEF Typed, StreamIntact
    <3> QED BY <3>1, <3>2
  <2>8. StreamIntact'
    BY <1>1, <1>2, <2>6, <2>7 DEF StreamIntact
  <2> QED BY <2>3, <2>4, <2>8 DEF Inv
<1>4. CASE Value(e) # Size
  <2>1. pc' = [pc EXCEPT ![e] = "closed"] /\ UNCHANGED <<done, count>>
    BY <1>4 DEF Return
  <2>2. Typed'
    BY <1>1, <1>2, <2>1 DEF Typed, Places
  <2>3. Reasons'
    BY <1>1, <1>2, <2>1 DEF Reasons, Typed
  <2> QED BY <1>1, <1>2, <2>1, <2>2, <2>3, StreamStays DEF Inv
<1> QED BY <1>3, <1>4

\* What is under way is cut somewhere: what is left is still what comes next.
LEMMA BreakInv ==
  ASSUME Inv, Break
  PROVE  Inv'
<1>1. /\ broken' = TRUE /\ err' = [e \in Ends |-> pc[e] # "closed"]
      /\ UNCHANGED <<buf, pc, limit, count, rc, elapsed, disturbed, done>>
  BY DEF Break
<1>2. PICK k \in 0..Len(wire) : wire' = SubSeq(wire, 1, k)
  BY DEF Break
<1>3. /\ wire' \in Seq(Int) /\ Len(wire') = k /\ \A i \in 1..k : wire'[i] = wire[i]
  BY <1>2, Start DEF Inv, Typed
<1>4. \A i \in 1..k : i \in 1..Len(wire)
  BY DEF Inv, Typed
<1>5. StreamIntact'
  BY <1>1, <1>3, <1>4 DEF Inv, StreamIntact, Received
<1>6. Typed'
  BY <1>1, <1>3 DEF Inv, Typed
<1>7. Reasons'
  BY <1>1 DEF Inv, Reasons
<1> QED BY <1>5, <1>6, <1>7 DEF Inv

\* Time only adds to the reasons.
LEMMA TickInv ==
  ASSUME Inv, Tick
  PROVE  Inv'
<1> DEFINE timed == {e \in Ends : /\ pc[e] \in {"again", "time", "select"}
                                  /\ elapsed[e] <= limit[e]}
<1>1. /\ elapsed' = [e \in Ends |-> IF e \in timed THEN elapsed[e] + 1 ELSE elapsed[e]]
      /\ UNCHANGED <<wire, broken, err, buf, pc, limit, count, rc, disturbed, done>>
  BY DEF Tick
<1>2. Typed'
  BY <1>1 DEF Inv, Typed
<1>3. \A e \in Ends : elapsed[e] >= limit[e] => elapsed'[e] >= limit[e]
  BY <1>1 DEF Inv, Typed
<1>4. Reasons'
  BY <1>1, <1>3 DEF Inv, Reasons
<1> QED BY <1>1, <1>2, <1>4, StreamStays DEF Inv

-----------------------------------------------------------------------------
(* The invariant.                                                          *)

LEMMA InitInv == TransferInit => Inv
<1> SUFFICES ASSUME TransferInit PROVE Inv
  OBVIOUS
<1>1. Typed
  <2>1. 0 \in 0..Size /\ "ready" \in Places
    BY SizeFacts DEF Places
  <2>2. wire \in Seq(Int)
    BY DEF TransferInit
  <2>3. broken \in BOOLEAN
    BY DEF TransferInit
  <2>4. err \in [Ends -> BOOLEAN]
    <3>1. err = [e \in Ends |-> FALSE]
      BY DEF TransferInit
    <3> QED BY <3>1, Zenon
  <2>5. buf \in [1..Size -> Int] /\ pc \in [Ends -> Places]
    BY <2>1 DEF TransferInit
  <2>6. count \in [Ends -> 0..Size]
    BY <2>1 DEF TransferInit
  <2>7. limit \in [Ends -> Nat] /\ rc \in [Ends -> Int]
    BY DEF TransferInit
  <2>8. elapsed \in [Ends -> Nat] /\ done \in [Ends -> Nat] /\ disturbed \subseteq Ends
    BY DEF TransferInit
  <2> QED BY <2>2, <2>3, <2>4, <2>5, <2>6, <2>7, <2>8 DEF Typed
<1>2. StreamIntact
  BY SizeFacts DEF TransferInit, StreamIntact, Received, Sent
<1>3. Reasons
  BY DEF TransferInit, Reasons, ERROR
<1> QED BY <1>1, <1>2, <1>3 DEF Inv

LEMMA NextInv ==
  ASSUME Inv, [TransferNext]_connection
  PROVE  Inv'
<1>1. ASSUME NEW e \in Ends, First(e) PROVE Inv'
  <2> DEFINE next == IF limit[e] = 0 THEN "returned" ELSE "again"
  <2>1. Transfer(e, next) /\ UNCHANGED <<broken, limit, elapsed, disturbed, done>>
    BY <1>1 DEF First
  <2>2. next \in Places /\ (next = "returned" => limit[e] = 0)
    BY DEF Places
  <2> HIDE DEF next
  <2> QED BY <2>1, <2>2, TransferInv
<1>2. ASSUME NEW e \in Ends, Again(e) PROVE Inv'
  BY <1>2, TransferInv DEF Again, Places
<1>3. ASSUME NEW e \in Ends, Close(e) PROVE Inv'
  <2>1. /\ pc' = [pc EXCEPT ![e] = "closed"]
        /\ UNCHANGED <<wire, broken, err, buf, limit, count, rc, elapsed, disturbed, done>>
    BY <1>3 DEF Close
  <2>2. Typed'
    BY <2>1 DEF Inv, Typed, Places
  <2>3. Reasons'
    BY <2>1 DEF Inv, Reasons, Typed
  <2> QED BY <2>1, <2>2, <2>3, StreamStays DEF Inv
<1>4. CASE UNCHANGED connection
  <2>1. Typed' /\ Reasons'
    BY <1>4 DEF connection, Inv, Typed, Reasons
  <2> QED BY <1>4, <2>1, StreamStays DEF connection, Inv
<1> QED BY <1>1, <1>2, <1>3, <1>4, CallInv, CheckTimeInv, SelectInv, DisturbInv,
           ReturnInv, BreakInv, TickInv DEF TransferNext, Step

LEMMA SpecInv == TransferSpec => []Inv
<1>1. Inv /\ [TransferNext]_connection => Inv'
  BY NextInv
<1> QED BY InitInv, <1>1, PTL DEF TransferSpec

-----------------------------------------------------------------------------
(* The theorems.                                                           *)

\* For packets of any size, however recv() and send() cut the stream: no byte
\* is lost, sent twice or stored in the wrong place (gsock_read, gsock_write).
THEOREM StreamKept == TransferSpec => []StreamIntact
<1>1. Inv => StreamIntact
  BY DEF Inv
<1> QED BY SpecInv, <1>1, PTL

\* For any timeouts: a call comes short only when its time is over, the
\* connection is broken or its select() was disturbed, and tells of an error only
\* for a broken connection.
THEOREM ShortIsExplained == TransferSpec => []ShortHasReason
<1>1. Inv => ShortHasReason
  <2> SUFFICES ASSUME Inv, NEW e \in Ends, pc[e] = "returned"
               PROVE  /\ Value(e) < Size
                           => elapsed[e] >= limit[e] \/ broken \/ e \in disturbed
                      /\ Value(e) < 0 => broken
    BY DEF ShortHasReason
  <2>1. CASE rc[e] = ERROR
    BY <2>1 DEF Inv, Reasons
  <2>2. CASE rc[e] # ERROR
    <3>1. Value(e) = count[e] /\ count[e] \in 0..Size /\ Size \in Nat
      BY <2>2, SizeFacts DEF Value, Inv, Typed
    <3>2. ~(count[e] < 0)
      BY <3>1
    <3> QED BY <3>1, <3>2 DEF Inv, Reasons
  <2> QED BY <2>1, <2>2
<1> QED BY SpecInv, <1>1, PTL

-----------------------------------------------------------------------------
(* Descriptors.                                                            *)

\* Who has a descriptor: Sockets, and threads that have not read theirs yet.
Holding == {s \in alive : m_sock[s] # INVALID}
Starting == {w \in Workers : worker[w] = "started"}

HandlesTyped ==
  /\ opened \in 0..MaxOpened /\ file \in [Fds -> 0..opened]
  /\ alive \subseteq Sockets
  /\ m_sock \in [Sockets -> Fds \cup {INVALID}] /\ meant \in [Sockets -> 0..opened]
  /\ raw \subseteq Fds \X (1..opened)
  /\ \A d, e \in Fds : file[d] = file[e] /\ file[d] # 0 => d = e

\* No opening is in two hands, or in one and promised to a thread.
InOneHand(P) ==
  /\ P \subseteq Fds \X (1..opened) /\ astray \subseteq Holding
  /\ \A s \in Holding : meant[s] # 0
  /\ \A s, t \in Holding : meant[s] = meant[t] => s = t
  /\ \A q, r \in raw : q[2] = r[2] => q = r
  /\ \A s \in Holding, r \in raw : meant[s] # r[2]
  /\ \A s \in Holding, p \in P : meant[s] # p[2]
  /\ \A r \in raw, p \in P : r[2] # p[2]

\* A descriptor that is held is that of its opening until it is hit.
Meant ==
  /\ \A s \in Holding \ astray : meant[s] \in hit \/ file[m_sock[s]] = meant[s]
  /\ \A r \in raw : r[2] \in hit \/ file[r[1]] = r[2]

\* An open descriptor is in a Socket that has not tried to close it, in a
\* variable, or on its way to a thread, unless it was dropped.
Held(P) ==
  \A fd \in Fds :
    \/ file[fd] \in {0} \cup lost
    \/ \E s \in Holding \ astray : m_sock[s] = fd
    \/ \E r \in raw : r[1] = fd
    \/ <<fd, file[fd]>> \in P

\* What the operations on Sockets keep, whatever is promised.
HandlesInv(P) == HandlesTyped /\ InOneHand(P) /\ Meant /\ Held(P)

-----------------------------------------------------------------------------
(* Least and greatest numbers.                                             *)

\* A set of numbers that is not empty has a least one.
LEMMA LeastOf ==
  ASSUME NEW T, T \subseteq Nat, T # {}
  PROVE  Min(T) \in T /\ \A y \in T : Min(T) <= y
<1> DEFINE R == OpToRel(<, Nat)
<1>1. IsWellFoundedOn(R, Nat)
  BY NatLessThanWellFounded
<1>2. \A x, y \in Nat : x < y => <<x, y>> \in R
  BY DEF OpToRel
<1> HIDE DEF R
<1>3. PICK x \in T : \A y \in T : ~(<<y, x>> \in R)
  BY <1>1, WFMin
<1>4. ASSUME NEW y \in T PROVE x <= y
  <2>1. x \in Nat /\ y \in Nat
    OBVIOUS
  <2>2. ~(<<y, x>> \in R)
    BY <1>3
  <2>3. ~(y < x)
    BY <1>2, <2>1, <2>2, Zenon
  <2> QED BY <2>1, <2>3
<1> QED BY <1>4 DEF Min

\* A set of numbers up to N that is not empty has a greatest one.
LEMMA GreatestOf ==
  ASSUME NEW N \in Nat, NEW T, T \subseteq 1..N, T # {}
  PROVE  Max(T) \in T /\ \A y \in T : y <= Max(T)
<1> DEFINE B == {m \in Nat : \A y \in T : y <= m}
<1>1. B \subseteq Nat /\ N \in B
  OBVIOUS
<1> DEFINE b == Min(B)
<1>2. b \in B /\ \A m \in B : b <= m
  <2> HIDE DEF B
  <2> QED BY <1>1, LeastOf
<1> HIDE DEF b
<1>3. b \in T
  <2> SUFFICES ASSUME b \notin T PROVE FALSE
    OBVIOUS
  <2>1. b \in Nat /\ \A y \in T : y \in Nat /\ y <= b - 1 /\ 1 <= b
    BY <1>2
  <2>2. b - 1 \in Nat
    <3>1. PICK y \in T : TRUE
      OBVIOUS
    <3> QED BY <2>1, <3>1
  <2>3. b - 1 \in B
    BY <2>1, <2>2
  <2> QED BY <1>2, <2>1, <2>3
<1>4. \E x \in T : \A y \in T : x >= y
  BY <1>2, <1>3
<1>5. Max(T) \in T /\ \A y \in T : Max(T) >= y
  BY <1>4, Zenon DEF Max
<1> QED BY <1>5

\* The greatest one is the one no other exceeds.
LEMMA GreatestIs ==
  ASSUME NEW N \in Nat, NEW T, T \subseteq 1..N, NEW n \in T, \A m \in T : m <= n
  PROVE  Max(T) = n
<1>1. Max(T) \in T /\ n <= Max(T)
  BY GreatestOf
<1>2. Max(T) <= n
  BY <1>1
<1>3. Max(T) \in Int /\ n \in Int
  <2>1. Max(T) \in 1..N /\ n \in 1..N
    BY <1>1
  <2> QED BY <2>1
<1> QED BY <1>1, <1>2, <1>3

\* An opening takes a descriptor that is free.
LEMMA FirstOf ==
  ASSUME NEW f \in [Fds -> Nat], CanOpen(f)
  PROVE  Lowest(f) \in Fds /\ f[Lowest(f)] = 0
<1> DEFINE T == {fd \in Fds : f[fd] = 0}
<1>1. T \subseteq Nat /\ T # {}
  BY HandlesAssumption DEF CanOpen
<1>2. Min(T) \in T
  <2> HIDE DEF T
  <2> QED BY <1>1, LeastOf
<1> QED BY <1>2 DEF Lowest

-----------------------------------------------------------------------------
(* The operations on Sockets.                                              *)

\* What fd is closed for opening n leaves of the descriptor e of opening k.
LEMMA HitOrStill ==
  ASSUME HandlesTyped, NEW fd \in Fds \cup {INVALID}, NEW n,
         NEW e \in Fds, NEW k, k # 0, fd = e => k # n,
         k \in hit \/ file[e] = k
  PROVE  k \in hit \cup Hits(fd, n) \/ Closed(file, fd)[e] = k
<1>1. CASE fd = INVALID
  BY <1>1 DEF Closed, Hits
<1>2. CASE fd \in Fds /\ fd # e
  BY <1>2, HandlesAssumption DEF Closed, HandlesTyped
<1>3. CASE fd = e
  BY <1>3, HandlesAssumption DEF Hits
<1> QED BY <1>1, <1>2, <1>3

\* ~Socket().
LEMMA DestroyKeeps ==
  ASSUME NEW P, HandlesInv(P), NEW s \in Sockets, Destroy(s)
  PROVE  HandlesInv(P)'
<1> USE HandlesAssumption DEF HandlesInv
<1>1. HandlesTyped'
  BY DEF HandlesTyped, Holding, Destroy, Closed, Holds, blame
<1>2. InOneHand(P)'
  BY DEF HandlesTyped, InOneHand, Holding, Destroy, Holds, blame
<1>3. Meant'
  BY DEF HandlesTyped, InOneHand, Meant, Holding, Destroy, Closed, Hits, Holds
<1>4. Held(P)'
  BY DEF HandlesTyped, Held, Holding, Destroy, Closed, Holds
<1> QED BY <1>1, <1>2, <1>3, <1>4
\* Socket().
LEMMA ConstructKeeps ==
  ASSUME NEW P, HandlesInv(P), NEW s \in Sockets, Construct(s)
  PROVE  HandlesInv(P)'
<1> USE HandlesAssumption DEF HandlesInv, Construct, Holds, blame
<1>1. HandlesTyped'
  BY DEF HandlesTyped, Holding
<1>2. InOneHand(P)'
  BY DEF HandlesTyped, InOneHand, Holding
<1>3. Meant'
  BY DEF HandlesTyped, InOneHand, Meant, Holding
<1>4. Held(P)'
  BY DEF HandlesTyped, Held, Holding
<1> QED BY <1>1, <1>2, <1>3, <1>4
\* Socket(sock): the descriptor changes hands.
LEMMA ConstructFromKeeps ==
  ASSUME NEW P, HandlesInv(P), NEW s \in Sockets, NEW r \in raw, ConstructFrom(s, r)
  PROVE  HandlesInv(P)'
<1> USE HandlesAssumption DEF HandlesInv, ConstructFrom, Holds, blame
<1>1. HandlesTyped'
  BY DEF HandlesTyped, Holding
<1>2. InOneHand(P)'
  BY DEF HandlesTyped, InOneHand, Holding
<1>3. Meant'
  BY DEF HandlesTyped, InOneHand, Meant, Holding
<1>4. Held(P)'
  BY DEF HandlesTyped, Held, Holding, InOneHand
<1> QED BY <1>1, <1>2, <1>3, <1>4
\* close_socket(), of a Socket that stays or is gone with its thread.
LEMMA ClosesKeeps ==
  ASSUME NEW P, HandlesInv(P), NEW s \in alive, NEW ok \in BOOLEAN, Closes(s, ok),
         UNCHANGED <<opened, raw, lost>>, alive' = alive \/ (ok /\ alive' = alive \ {s})
  PROVE  HandlesInv(P)'
<1> USE HandlesAssumption DEF HandlesInv, Closes, Closed, Hits, Holds, blame
<1>1. HandlesTyped'
  BY DEF HandlesTyped, Holding
<1>2. InOneHand(P)'
  BY DEF HandlesTyped, InOneHand, Holding
<1>3. Meant'
  <2>0. /\ m_sock[s] \in Fds \cup {INVALID}
        /\ file' = Closed(file, m_sock[s]) /\ hit' = hit \cup Hits(m_sock[s], meant[s])
    BY DEF HandlesTyped
  <2>1. ASSUME NEW t \in (Holding \ astray)'
        PROVE  (meant[t] \in hit \/ file[m_sock[t]] = meant[t])'
    <3>1. t \in Holding \ astray /\ t # s /\ m_sock'[t] = m_sock[t] /\ meant'[t] = meant[t]
      BY <2>1 DEF HandlesTyped, Holding
    <3>2. meant[t] # 0 /\ m_sock[t] \in Fds /\ (m_sock[s] = m_sock[t] => meant[t] # meant[s])
      BY <3>1 DEF InOneHand, Holding, HandlesTyped
    <3>3. meant[t] \in hit \/ file[m_sock[t]] = meant[t]
      BY <3>1 DEF Meant
    <3> QED BY <3>1, <3>2, <3>3, <2>0, HitOrStill
  <2>2. ASSUME NEW r \in raw'
        PROVE  (r[2] \in hit \/ file[r[1]] = r[2])'
    <3>1. r \in raw /\ r[1] \in Fds /\ r[2] # 0
      BY DEF HandlesTyped
    <3>2. m_sock[s] = r[1] => r[2] # meant[s]
      BY <3>1 DEF InOneHand, Holding
    <3>3. r[2] \in hit \/ file[r[1]] = r[2]
      BY <3>1 DEF Meant
    <3> QED BY <3>1, <3>2, <3>3, <2>0, HitOrStill
  <2> QED BY <2>1, <2>2 DEF Meant
<1>4. Held(P)'
  BY DEF HandlesTyped, Held, Holding
<1> QED BY <1>1, <1>2, <1>3, <1>4
\* detach(): the descriptor changes hands, unless it is not the Socket's.
LEMMA DetachKeeps ==
  ASSUME NEW P, HandlesInv(P), NEW s \in Sockets, Detach(s)
  PROVE  HandlesInv(P)'
<1> USE HandlesAssumption DEF HandlesInv, Detach, Holds
<1>1. HandlesTyped'
  BY DEF HandlesTyped, InOneHand, Holding
<1>2. InOneHand(P)'
  BY DEF HandlesTyped, InOneHand, Holding
<1>3. Meant'
  BY DEF HandlesTyped, InOneHand, Meant, Holding
<1>4. Held(P)'
  <2> SUFFICES ASSUME NEW fd \in Fds, file[fd] \notin {0} \cup lost, <<fd, file[fd]>> \notin P
               PROVE  \/ \E t \in (Holding \ astray)' : m_sock'[t] = fd
                      \/ \E r \in raw' : r[1] = fd
    BY DEF Held
  <2>1. CASE \E r \in raw : r[1] = fd
    BY <2>1
  <2>2. CASE s \in Holding \ astray /\ m_sock[s] = fd
    <3>1. <<fd, meant[s]>> \in raw'
      BY <2>2 DEF Holding
    <3> QED BY <3>1
  <2>3. CASE \E t \in Holding \ astray : t # s /\ m_sock[t] = fd
    BY <2>3 DEF HandlesTyped, Holding
  <2> QED BY <2>1, <2>2, <2>3 DEF Held
<1> QED BY <1>1, <1>2, <1>3, <1>4
\* attach() of the descriptor the Socket has changes nothing.
LEMMA AttachOwnKeeps ==
  ASSUME NEW P, HandlesInv(P), NEW s \in Sockets, Attach(s, m_sock[s], meant[s])
  PROVE  HandlesInv(P)'
<1> USE HandlesAssumption DEF HandlesInv, Attach, AttachCloses, Holds
<1>1. HandlesTyped'
  BY DEF HandlesTyped, InOneHand, Holding
<1>2. InOneHand(P)'
  BY DEF HandlesTyped, InOneHand, Holding
<1>3. Meant'
  BY DEF HandlesTyped, InOneHand, Meant, Holding
<1>4. Held(P)'
  BY DEF HandlesTyped, Held, Holding, InOneHand
<1> QED BY <1>1, <1>2, <1>3, <1>4
\* attach(): the old descriptor is closed and the new one changes hands.
LEMMA AttachKeeps ==
  ASSUME NEW P, HandlesInv(P), NEW s \in Sockets, NEW r \in raw, Attach(s, r[1], r[2])
  PROVE  HandlesInv(P)'
<1> USE HandlesAssumption DEF HandlesInv, Attach, AttachCloses, Holds
<1>1. HandlesTyped'
  BY DEF HandlesTyped, Holding, Closed
<1>2. InOneHand(P)'
  BY DEF HandlesTyped, InOneHand, Holding
<1>3. Meant'
  <2>0. r[1] \in Fds /\ r[2] # 0 /\ m_sock[s] \in Fds \cup {INVALID}
    BY DEF HandlesTyped
  <2>1. ASSUME NEW e \in Fds, NEW k, k # 0, k \in hit \/ file[e] = k,
               m_sock[s] = e => k # meant[s] \/ m_sock[s] = r[1]
        PROVE  k \in hit' \/ file'[e] = k
    BY <2>0, <2>1, HitOrStill
  <2>2. ASSUME NEW t \in (Holding \ astray)', t # s
        PROVE  (meant[t] \in hit \/ file[m_sock[t]] = meant[t])'
    <3>1. t \in Holding \ astray /\ m_sock'[t] = m_sock[t] /\ meant'[t] = meant[t]
      BY <2>2 DEF HandlesTyped, Holding
    <3>2. meant[t] # 0 /\ m_sock[t] \in Fds /\ (m_sock[s] = m_sock[t] => meant[t] # meant[s])
      BY <2>2, <3>1 DEF InOneHand, Holding, HandlesTyped
    <3>3. meant[t] \in hit \/ file[m_sock[t]] = meant[t]
      BY <3>1 DEF Meant
    <3> QED BY <3>1, <3>2, <3>3, <2>1
  <2>3. r[2] \in hit' \/ file'[r[1]] = r[2]
    BY <2>0, <2>1 DEF Meant
  <2>4. ASSUME NEW q \in raw'
        PROVE  (q[2] \in hit \/ file[q[1]] = q[2])'
    <3>1. q \in raw /\ q[1] \in Fds /\ q[2] # 0
      BY DEF HandlesTyped
    <3>2. m_sock[s] = q[1] => q[2] # meant[s]
      BY <3>1 DEF InOneHand, Holding
    <3>3. q[2] \in hit \/ file[q[1]] = q[2]
      BY <3>1 DEF Meant
    <3> QED BY <3>1, <3>2, <3>3, <2>1
  <2>5. m_sock'[s] = r[1] /\ meant'[s] = r[2]
    BY DEF HandlesTyped
  <2> QED BY <2>2, <2>3, <2>4, <2>5 DEF Meant
<1>4. Held(P)'
  <2>1. ASSUME NEW fd \in Fds, file'[fd] # 0
        PROVE  file'[fd] = file[fd] /\ (m_sock[s] = fd => r[1] = fd)
    BY <2>1 DEF Closed, HandlesTyped
  <2>2. s \in (Holding \ astray)' /\ m_sock'[s] = r[1]
    BY DEF HandlesTyped, Holding, InOneHand
  <2>3. ASSUME NEW fd \in Fds, NEW t \in Holding \ astray, m_sock[t] = fd, t # s
        PROVE  t \in (Holding \ astray)' /\ m_sock'[t] = fd
    BY <2>3 DEF HandlesTyped, Holding
  <2>4. ASSUME NEW fd \in Fds, NEW q \in raw, q[1] = fd, fd # r[1]
        PROVE  q \in raw'
    BY <2>4
  <2> QED BY <2>1, <2>2, <2>3, <2>4 DEF Held
<1> QED BY <1>1, <1>2, <1>3, <1>4

\* gsock_close_socket().
LEMMA GsockCloseKeeps ==
  ASSUME NEW P, HandlesInv(P), NEW r \in raw, GsockClose(r)
  PROVE  HandlesInv(P)'
<1> USE HandlesAssumption DEF HandlesInv, GsockClose, Closed, Hits, objects
<1>1. HandlesTyped'
  BY DEF HandlesTyped, InOneHand, Holding
<1>2. InOneHand(P)'
  BY DEF HandlesTyped, InOneHand, Holding
<1>3. Meant'
  BY DEF HandlesTyped, InOneHand, Meant, Holding
<1>4. Held(P)'
  BY DEF HandlesTyped, Held, Holding, InOneHand
<1> QED BY <1>1, <1>2, <1>3, <1>4

\* create_socket(): the old descriptor is closed, and may be the new one.
LEMMA CreateSocketKeeps ==
  ASSUME NEW P, HandlesInv(P), NEW s \in Sockets, CreateSocket(s)
  PROVE  HandlesInv(P)'
<1> DEFINE f == Closed(file, m_sock[s])
<1> USE HandlesAssumption DEF HandlesInv, CreateSocket, Holds
<1>0. /\ f \in [Fds -> 0..opened]
      /\ \A d, e \in Fds : f[d] = f[e] /\ f[d] # 0 => d = e
      /\ \A d \in Fds : f[d] # 0 => f[d] = file[d] /\ d # m_sock[s]
  BY DEF HandlesTyped, Closed
<1>a. ASSUME CanOpen(f)
      PROVE  Lowest(f) \in Fds /\ f[Lowest(f)] = 0 /\ opened + 1 \in 1..MaxOpened
             /\ opened \in Nat
  BY <1>a, <1>0, FirstOf DEF CanOpen, HandlesTyped
<1>b. ASSUME CanOpen(f)
      PROVE  /\ Opened(f) \in [Fds -> 0..opened + 1]
             /\ \A d, e \in Fds : Opened(f)[d] = Opened(f)[e] /\ Opened(f)[d] # 0 => d = e
             /\ \A d \in Fds : d # Lowest(f) => Opened(f)[d] = f[d]
  <2> HIDE DEF f
  <2> QED BY <1>a, <1>b, <1>0 DEF Opened
<1>1. HandlesTyped'
  BY <1>0, <1>a, <1>b DEF HandlesTyped
<1>2. InOneHand(P)'
  BY <1>a DEF HandlesTyped, InOneHand, Holding
<1>3. Meant'
  <2>1. ASSUME NEW e \in Fds, NEW k, k # 0, k \in hit \/ file[e] = k,
               m_sock[s] = e => k # meant[s]
        PROVE  k \in hit' \/ file'[e] = k
    <3>1. k \in hit' \/ f[e] = k
      BY <2>1, HitOrStill DEF HandlesTyped
    <3> QED BY <2>1, <3>1, <1>0, <1>a DEF Opened
  <2>2. ASSUME NEW t \in (Holding \ astray)', t # s
        PROVE  (meant[t] \in hit \/ file[m_sock[t]] = meant[t])'
    <3>1. t \in Holding \ astray /\ m_sock'[t] = m_sock[t] /\ meant'[t] = meant[t]
      BY <2>2 DEF HandlesTyped, Holding
    <3>2. meant[t] # 0 /\ m_sock[t] \in Fds /\ (m_sock[s] = m_sock[t] => meant[t] # meant[s])
      BY <2>2, <3>1 DEF InOneHand, Holding, HandlesTyped
    <3>3. meant[t] \in hit \/ file[m_sock[t]] = meant[t]
      BY <3>1 DEF Meant
    <3> QED BY <3>1, <3>2, <3>3, <2>1
  <2>3. m_sock'[s] # INVALID => file'[m_sock'[s]] = meant'[s]
    BY <1>a, <1>0 DEF HandlesTyped, Opened
  <2>4. ASSUME NEW q \in raw'
        PROVE  (q[2] \in hit \/ file[q[1]] = q[2])'
    <3>1. q \in raw /\ q[1] \in Fds /\ q[2] # 0
      BY DEF HandlesTyped
    <3>2. m_sock[s] = q[1] => q[2] # meant[s]
      BY <3>1 DEF InOneHand, Holding
    <3>3. q[2] \in hit \/ file[q[1]] = q[2]
      BY <3>1 DEF Meant
    <3> QED BY <3>1, <3>2, <3>3, <2>1
  <2> QED BY <2>2, <2>3, <2>4 DEF Meant, Holding
<1>4. Held(P)'
  <2>1. ASSUME NEW fd \in Fds, file'[fd] # 0, fd # m_sock'[s]
        PROVE  file'[fd] = file[fd] /\ m_sock[s] # fd
    BY <2>1, <1>0, <1>a, <1>b DEF HandlesTyped
  <2>2. m_sock'[s] \in Fds => s \in (Holding \ astray)'
    BY DEF Holding
  <2>3. ASSUME NEW fd \in Fds, NEW t \in Holding \ astray, m_sock[t] = fd, t # s
        PROVE  t \in (Holding \ astray)' /\ m_sock'[t] = fd
    BY <2>3 DEF HandlesTyped, Holding
  <2> QED BY <2>1, <2>2, <2>3 DEF Held
<1> QED BY <1>1, <1>2, <1>3, <1>4

\* gsock_create_socket().
LEMMA GsockCreateKeeps ==
  ASSUME NEW P, HandlesInv(P), GsockCreate
  PROVE  HandlesInv(P)'
<1> USE HandlesAssumption DEF HandlesInv, GsockCreate, objects, blame
<1>a. Lowest(file) \in Fds /\ file[Lowest(file)] = 0 /\ opened + 1 \in 1..MaxOpened
             /\ opened \in Nat
  BY FirstOf DEF CanOpen, HandlesTyped
<1>1. HandlesTyped'
  BY <1>a DEF HandlesTyped, Holding, Opened
<1>2. InOneHand(P)'
  BY <1>a DEF HandlesTyped, InOneHand, Holding
<1>3. Meant'
  BY <1>a DEF HandlesTyped, InOneHand, Meant, Holding, Opened
<1>4. Held(P)'
  BY <1>a DEF HandlesTyped, Held, Holding, Opened
<1> QED BY <1>1, <1>2, <1>3, <1>4

\* A thread of the program that uses Sockets keeps all of this.
LEMMA UsesKeeps ==
  ASSUME NEW P, HandlesInv(P), NEW s \in Sockets, Uses(s)
  PROVE  HandlesInv(P)'
<1>1. ASSUME CloseSocket(s)
      PROVE  HandlesInv(P)'
  <2>1. s \in alive /\ UNCHANGED <<opened, raw, lost>> /\ alive' = alive
    BY <1>1 DEF CloseSocket
  <2> QED BY <1>1, <2>1, ClosesKeeps DEF CloseSocket
<1> QED BY <1>1, ConstructKeeps, CreateSocketKeeps, DetachKeeps, DestroyKeeps,
           AttachOwnKeeps, AttachKeeps, ConstructFromKeeps, GsockCloseKeeps,
           GsockCreateKeeps DEF Uses

-----------------------------------------------------------------------------
(* The server.                                                             *)

ServerTyped ==
  /\ server \in {"start", "create", "listen", "accept", "spawn"}
  /\ sock \in Fds \cup {INVALID} /\ exited \in BOOLEAN
  /\ worker \in [Workers -> {"none", "started", "serving", "failed"}]
  /\ handed \in [Workers -> 0..opened]
  /\ client \in [1..MaxOpened -> {"none", "there", "left"}]

\* What the server still owes a thread, and what threads have not read yet.
Promised ==
  {<<fd, handed[w]>> : fd \in Fds, w \in Starting}
  \cup (IF server = "spawn" THEN {<<sock, Newest>>} ELSE {})

\* Clients come in the order of openings.  A thread has its Socket while it
\* serves, and no two are started for one opening.
Threads ==
  /\ \A n \in 1..MaxOpened : client[n] # "none" => n <= opened
  /\ server = "spawn" => \E n \in 1..MaxOpened : client[n] # "none"
  /\ \A w \in Workers : w \in alive <=> worker[w] \in {"serving", "failed"}
  /\ \A v, w \in Starting : handed[v] = handed[w] => v = w
  /\ \A w \in Starting : handed[w] # 0 /\ (server = "spawn" => handed[w] # Newest)

\* The inductive invariant.
ServerInv ==
  /\ HandlesTyped /\ ServerTyped
  /\ IF exited THEN alive = {} /\ \A fd \in Fds : file[fd] = 0
     ELSE HandlesInv(Promised) /\ Threads

\* The steps that leave what is promised as it is.
LEMMA HandsStay ==
  ASSUME ServerInv, ~exited, ~exited', ServerTyped',
         \A P : HandlesInv(P) => HandlesInv(P)',
         Promised' = Promised, Threads'
  PROVE  ServerInv'
<1>1. PICK P : P = Promised
  OBVIOUS
<1>2. HandlesInv(P)
  BY <1>1 DEF ServerInv
<1>3. HandlesInv(P)'
  BY <1>2
<1>4. HandlesInv(Promised)'
  BY <1>1, <1>3 DEF HandlesInv, InOneHand, Held
<1> QED BY <1>4 DEF ServerInv, HandlesInv

\* There is a connection to start a thread for.
LEMMA NewestIs ==
  ASSUME HandlesTyped, Threads, server = "spawn"
  PROVE  Newest \in 1..opened
<1> DEFINE T == {n \in 1..MaxOpened : client[n] # "none"}
<1>1. MaxOpened \in Nat /\ T \subseteq 1..MaxOpened /\ T # {}
  BY HandlesAssumption DEF Threads
<1>2. Max(T) \in T
  <2> HIDE DEF T
  <2> QED BY <1>1, GreatestOf
<1> QED BY <1>2 DEF Newest, Threads, HandlesTyped

\* The other thread uses one of its Sockets.
LEMMA OtherThreadKeeps ==
  ASSUME ServerInv, NEW s \in Users, OtherThread(s)
  PROVE  ServerInv'
<1>1. s \in Sockets /\ s \notin Workers /\ Uses(s) /\ ~exited /\ ~exited'
      /\ UNCHANGED <<program, client>>
  BY ServerAssumption DEF OtherThread, ServerInv
<1>2. \A P : HandlesInv(P) => HandlesInv(P)'
  BY <1>1, UsesKeeps
<1>3. opened' \in {opened, opened + 1} /\ opened \in Nat
      /\ \A w \in Workers : w \in alive' <=> w \in alive
  BY <1>1 DEF Uses, Construct, CreateSocket, CloseSocket, Detach, Destroy, Attach,
              ConstructFrom, GsockClose, GsockCreate, objects, ServerInv, HandlesTyped
<1>4. ServerTyped' /\ Promised' = Promised
  BY <1>1, <1>3 DEF ServerInv, ServerTyped, Promised, Newest, Starting, program, OtherThread
<1>5. Threads'
  <2>1. UNCHANGED <<server, worker, handed, client, Starting, Newest>>
    BY <1>1 DEF program, Starting, Newest
  <2> QED BY <1>1, <1>3, <2>1 DEF ServerInv, Threads
<1> QED BY <1>1, <1>2, <1>4, <1>5, HandsStay DEF ServerInv

\* The steps of _server().
LEMMA ServerStartKeeps ==
  ASSUME ServerInv, ServerStart
  PROVE  ServerInv'
<1> USE DEF ServerStart
<1>1. Construct(gsListener) /\ gsListener \in Sockets /\ gsListener \notin Workers
  BY ServerAssumption
<1>2. \A P : HandlesInv(P) => HandlesInv(P)'
  BY <1>1, ConstructKeeps
<1>3. ServerTyped' /\ Promised' = Promised
  BY DEF ServerInv, ServerTyped, Promised, Newest, Starting, Construct
<1>4. Threads'
  BY <1>1 DEF ServerInv, ServerTyped, Threads, Starting, Construct
<1> QED BY <1>2, <1>3, <1>4, HandsStay

LEMMA ServerCreateKeeps ==
  ASSUME ServerInv, ServerCreate
  PROVE  ServerInv'
<1> USE DEF ServerCreate
<1>1. CreateSocket(gsListener) /\ gsListener \in Sockets /\ gsListener \notin Workers
  BY ServerAssumption
<1>2. \A P : HandlesInv(P) => HandlesInv(P)'
  BY <1>1, CreateSocketKeeps
<1>3. opened' \in {opened, opened + 1} /\ opened \in Nat /\ alive' = alive
  BY DEF CreateSocket, ServerInv, HandlesTyped
<1>4. ServerTyped' /\ Promised' = Promised
  BY <1>3 DEF ServerInv, ServerTyped, Promised, Newest, Starting
<1>5. Threads'
  BY <1>3 DEF ServerInv, ServerTyped, Threads, Starting
<1> QED BY <1>2, <1>4, <1>5, HandsStay

\* After the end of the process only the types are left to say.
LEMMA ExitKeeps ==
  ASSUME ServerInv, Exit
  PROVE  ServerInv'
BY DEF ServerInv, Exit, HandlesTyped, ServerTyped, program

\* A new connection is promised, whichever descriptor it takes.
LEMMA AcceptKeeps ==
  ASSUME ServerInv, Accept
  PROVE  ServerInv'
<1> USE DEF Accept
<1> DEFINE n == opened + 1  fd == Lowest(file)
<1>1. fd \in Fds /\ file[fd] = 0 /\ n \in 1..MaxOpened /\ opened \in Nat
  BY FirstOf, HandlesAssumption DEF CanOpen, ServerInv, HandlesTyped
<1>2. PICK P : P = Promised
  OBVIOUS
<1>3. HandlesInv(P) /\ Threads /\ HandlesTyped /\ ServerTyped /\ ~exited
  BY <1>2 DEF ServerInv
<1>4. Newest' = n
  <2> DEFINE T == {m \in 1..MaxOpened : client'[m] # "none"}
  <2>1. MaxOpened \in Nat /\ T \subseteq 1..MaxOpened /\ n \in T /\ \A m \in T : m <= n
    BY <1>1, <1>3, HandlesAssumption DEF ServerTyped, Threads
  <2>2. Max(T) = n
    <3> HIDE DEF T, n
    <3> QED BY <2>1, GreatestIs
  <2> QED BY <2>2 DEF Newest
<1>5. PICK Q : Q = P \cup {<<fd, n>>}
  OBVIOUS
<1>6. Promised' = Q
  BY <1>2, <1>4, <1>5 DEF Promised, Starting
<1>7. HandlesTyped' /\ ServerTyped'
  BY <1>1, <1>3 DEF HandlesTyped, ServerTyped, Opened, objects
<1>8. Threads'
  BY <1>1, <1>3, <1>4 DEF Threads, HandlesTyped, ServerTyped, Starting, objects
<1>9. InOneHand(Q)'
  <2>1. Q \subseteq Fds \X (1..n) /\ opened' = n
    BY <1>1, <1>3, <1>5 DEF HandlesInv, InOneHand
  <2>2. \A s \in Holding : meant[s] # n
    BY <1>1, <1>3 DEF HandlesTyped, Holding
  <2>3. \A r \in raw : r[2] # n
    BY <1>1, <1>3 DEF HandlesTyped
  <2>4. Holding' = Holding /\ UNCHANGED <<raw, meant, astray>>
    BY DEF Holding, objects, blame
  <2> QED BY <1>3, <1>5, <2>1, <2>2, <2>3, <2>4 DEF HandlesInv, InOneHand
<1>10. Meant'
  BY <1>1, <1>3 DEF HandlesInv, HandlesTyped, InOneHand, Meant, Holding, objects, blame, Opened
<1>11. Held(Q)'
  <2>1. file'[fd] = n /\ \A e \in Fds \ {fd} : file'[e] = file[e]
    BY <1>1, <1>3 DEF HandlesTyped, Opened
  <2>2. (Holding \ astray)' = Holding \ astray /\ UNCHANGED <<raw, m_sock, lost>>
    BY DEF Holding, objects, blame
  <2> QED BY <1>3, <1>5, <2>1, <2>2 DEF HandlesInv, Held
<1>12. HandlesInv(Promised)'
  BY <1>6, <1>7, <1>9, <1>10, <1>11 DEF HandlesInv, InOneHand, Held
<1> QED BY <1>3, <1>7, <1>8, <1>12 DEF ServerInv

LEMMA ServerListenKeeps ==
  ASSUME ServerInv, ServerListen
  PROVE  ServerInv'
<1>1. CASE Exit
  BY <1>1, ExitKeeps
<1>2. CASE server' = "accept" /\ UNCHANGED <<handles, sock, worker, handed, client, exited>>
  <2>1. HandlesTyped' /\ \A P : HandlesInv(P) => HandlesInv(P)'
    BY <1>2 DEF handles, objects, blame, HandlesInv, HandlesTyped, InOneHand, Holding, Meant, Held, ServerInv
  <2>2. ServerTyped' /\ Promised' = Promised /\ Threads'
    BY <1>2 DEF handles, objects, ServerListen, ServerInv, ServerTyped, Promised, Threads, Starting
  <2> QED BY <1>2, <2>1, <2>2, HandsStay DEF ServerListen
<1> QED BY <1>1, <1>2 DEF ServerListen

LEMMA AcceptFailsKeeps ==
  ASSUME ServerInv, AcceptFails
  PROVE  ServerInv'
<1> USE DEF AcceptFails
<1>1. \A P : HandlesInv(P) => HandlesInv(P)'
  BY DEF handles, objects, blame, HandlesInv, HandlesTyped, InOneHand, Holding, Meant, Held
<1>2. ServerTyped' /\ Promised' = Promised /\ Threads'
  BY DEF handles, objects, ServerInv, ServerTyped, Promised, Threads, Starting
<1> QED BY <1>1, <1>2, HandsStay

\* Clients change nothing of it.
LEMMA ClientLeavesKeeps ==
  ASSUME ServerInv, NEW n \in 1..MaxOpened, ClientLeaves(n)
  PROVE  ServerInv'
<1> USE DEF ClientLeaves
<1>1. \A P : HandlesInv(P) => HandlesInv(P)'
  BY DEF handles, objects, blame, HandlesInv, HandlesTyped, InOneHand, Holding, Meant, Held
<1>2. \A m \in 1..MaxOpened : client'[m] # "none" <=> client[m] # "none"
  BY DEF ServerInv, ServerTyped
<1>3. Newest' = Newest
  BY <1>2 DEF Newest
<1>4. ServerTyped' /\ Promised' = Promised
  BY <1>3 DEF handles, objects, program, ServerInv, ServerTyped, Promised, Starting
<1>5. Threads'
  BY <1>2, <1>3 DEF handles, objects, program, ServerInv, Threads, Starting
<1> QED BY <1>1, <1>4, <1>5, HandsStay DEF ServerInv

\* Nobody has the connection of a thread that did not start; the one that
\* did will read it.
LEMMA SpawnKeeps ==
  ASSUME ServerInv, Spawn
  PROVE  ServerInv'
<1> USE DEF Spawn
<1>1. HandlesInv(Promised) /\ Threads /\ HandlesTyped /\ ServerTyped /\ ~exited
      /\ server = "spawn"
  BY DEF ServerInv
<1>2. PICK P : P = Promised
  OBVIOUS
<1>3. PICK Q : Q = Promised'
  OBVIOUS
<1>4. Newest' = Newest /\ Newest \in 1..opened /\ opened \in Nat
  BY <1>1, NewestIs DEF Newest, HandlesTyped
<1>5. HandlesTyped' /\ ServerTyped'
  BY <1>1, <1>4 DEF HandlesTyped, ServerTyped, objects
<1>6. Threads'
  <2>1. server' = "accept" /\ UNCHANGED <<opened, alive, client>>
    BY DEF objects
  <2>2. CASE UNCHANGED <<worker, handed>>
    BY <1>1, <2>1, <2>2 DEF Threads, Starting
  <2>3. ASSUME NEW w \in Workers, worker[w] = "none",
               worker' = [worker EXCEPT ![w] = "started"],
               handed' = [handed EXCEPT ![w] = Newest]
        PROVE  Threads'
    <3>1. Starting' = Starting \cup {w} /\ handed'[w] = Newest /\ Newest # 0
          /\ \A v \in Starting : handed'[v] = handed[v]
      BY <1>1, <1>4, <2>3 DEF Starting, ServerTyped
    <3>2. \A v \in Workers : worker'[v] \in {"serving", "failed"}
                            <=> worker[v] \in {"serving", "failed"}
      BY <1>1, <2>3 DEF ServerTyped
    <3> QED BY <1>1, <2>1, <3>1, <3>2 DEF Threads
  <2> QED BY <2>2, <2>3
<1>7. InOneHand(Q)'
  <2>1. \A q \in Q : \E p \in P : q[2] = p[2]
    <3>1. ASSUME NEW w \in Starting, NEW fd \in Fds
          PROVE  \E p \in P : handed[w] = p[2]
      <4>1. <<fd, handed[w]>> \in P
        BY <1>2 DEF Promised
      <4> QED BY <4>1
    <3>2. \E p \in P : Newest = p[2]
      <4>1. <<sock, Newest>> \in P
        BY <1>1, <1>2 DEF Promised
      <4> QED BY <4>1
    <3>3. ASSUME NEW w \in Starting'
          PROVE  (w \in Starting /\ handed'[w] = handed[w]) \/ handed'[w] = Newest
      BY <1>1 DEF Starting, ServerTyped
    <3>4. ASSUME NEW q \in Q
          PROVE  \E w \in Starting', fd \in Fds : q = <<fd, handed'[w]>>
      BY <1>3 DEF Promised
    <3> QED BY <3>1, <3>2, <3>3, <3>4
  <2>2. Q \subseteq Fds \X (1..opened)
    BY <1>1, <1>3, <1>4 DEF Promised, Starting, ServerTyped, Threads
  <2> QED BY <1>1, <1>2, <2>1, <2>2 DEF HandlesInv, InOneHand, Holding, objects, blame
<1>8. Meant'
  BY <1>1 DEF HandlesInv, Meant, Holding, objects, blame
<1>9. Held(Q)'
  <2>1. ASSUME NEW fd \in Fds, <<fd, file[fd]>> \in P
        PROVE  <<fd, file[fd]>> \in Q \/ file[fd] \in lost'
    BY <1>1, <1>2, <1>3, <1>4, <2>1 DEF Promised, Starting, ServerTyped
  <2>2. (Holding \ astray)' = Holding \ astray
    BY DEF Holding, objects, blame
  <2> QED BY <1>1, <1>2, <2>1, <2>2 DEF HandlesInv, Held, objects
<1>10. HandlesInv(Promised)'
  BY <1>3, <1>5, <1>7, <1>8, <1>9 DEF HandlesInv, InOneHand, Held
<1> QED BY <1>1, <1>5, <1>6, <1>10 DEF ServerInv

\* A thread closes the descriptor it serves, whatever that is.
LEMMA EndLoopKeeps ==
  ASSUME ServerInv, NEW w \in Workers, EndLoop(w)
  PROVE  ServerInv'
<1>1. PICK ok \in BOOLEAN :
        /\ Closes(w, ok)
        /\ worker' = [worker EXCEPT ![w] = IF ok THEN "none" ELSE "failed"]
        /\ alive' = IF ok THEN alive \ {w} ELSE alive
  BY DEF EndLoop
<1>2. /\ worker[w] = "serving" /\ ~exited
      /\ UNCHANGED <<opened, raw, lost, server, sock, handed, client, exited>>
  BY DEF EndLoop
<1>3. Threads /\ ServerTyped
  BY <1>2 DEF ServerInv
<1>4. w \in alive
  BY <1>2, <1>3 DEF Threads
<1>5. \A P : HandlesInv(P) => HandlesInv(P)'
  BY <1>1, <1>2, <1>4, ClosesKeeps
<1>6. Starting' = Starting /\ Newest' = Newest
  BY <1>1, <1>2, <1>3 DEF Starting, Newest, ServerTyped
<1>7. ServerTyped'
  BY <1>1, <1>2, <1>3 DEF ServerTyped
<1>9. Promised' = Promised
  BY <1>2, <1>6 DEF Promised
<1>8. Threads'
  BY <1>1, <1>2, <1>3, <1>6 DEF Threads, ServerTyped
<1> QED BY <1>2, <1>5, <1>7, <1>8, <1>9, HandsStay

\* A thread that reads its own connection takes it over; one that reads
\* another's is astray, and its own connection is lost.
LEMMA ReadKeeps ==
  ASSUME ServerInv, NEW w \in Workers, Read(w)
  PROVE  ServerInv'
<1> DEFINE right == sock # INVALID /\ file[sock] = handed[w]
           n == handed[w]
<1>1. HandlesInv(Promised) /\ Threads /\ HandlesTyped /\ ServerTyped /\ ~exited
      /\ worker[w] = "started" /\ ~exited'
  BY DEF ServerInv, Read
<1>2. PICK P : P = Promised
  OBVIOUS
<1>3. PICK Q : Q = Promised'
  OBVIOUS
<1>4. /\ lost' = IF right THEN lost ELSE lost \cup {n}
      /\ UNCHANGED <<file, opened, raw, hit, server, sock, handed, client>>
  BY DEF Read
<1>5. w \notin alive /\ w \in Sockets /\ n \in 1..opened /\ opened \in Nat
  <2>1. n \in 0..opened /\ n # 0 /\ opened \in Nat
    BY <1>1 DEF Threads, Starting, ServerTyped, HandlesTyped
  <2> QED BY <1>1, <2>1, ServerAssumption DEF Threads
<1>6. Newest' = Newest /\ Starting' = Starting \ {w}
  BY <1>1 DEF Newest, Starting, ServerTyped, Read
<1>7. \A fd \in Fds : <<fd, n>> \in P /\ <<fd, n>> \notin Q
  BY <1>1, <1>2, <1>3, <1>4, <1>5, <1>6 DEF Promised, Threads, Starting
<1>8. Q \subseteq P /\ \A p \in P : p[2] # n => p \in Q
  BY <1>1, <1>2, <1>3, <1>4, <1>5, <1>6 DEF Promised, Threads, Starting
<1>9. HandlesTyped' /\ ServerTyped'
  <2>1. HandlesTyped'
    <3>1. alive' \subseteq Sockets /\ m_sock' \in [Sockets -> Fds \cup {INVALID}]
          /\ meant' \in [Sockets -> 0..opened]
      <4>1. CASE sock = INVALID
        BY <1>1, <4>1 DEF HandlesTyped, Read, objects
      <4>2. CASE sock # INVALID
        <5>1. alive' = alive \cup {w} /\ Holds(w, sock, n)
          BY <4>2 DEF Read
        <5>2. sock \in Fds \cup {INVALID} /\ n \in 0..opened
          BY <1>1, <1>5 DEF ServerTyped
        <5> HIDE DEF n
        <5> QED BY <1>1, <1>5, <5>1, <5>2 DEF HandlesTyped, Holds
      <4> QED BY <4>1, <4>2
    <3> QED BY <1>1, <1>4, <3>1 DEF HandlesTyped
  <2>2. ServerTyped'
    BY <1>1, <1>4 DEF ServerTyped, Read
  <2> QED BY <2>1, <2>2
<1>10. Threads'
  <2>1. \A v \in Workers : v \in alive' <=> worker'[v] \in {"serving", "failed"}
    BY <1>1, <1>5 DEF Threads, ServerTyped, Read, objects
  <2> QED BY <1>1, <1>4, <1>6, <2>1 DEF Threads
<1>11. CASE sock = INVALID
  <2>1. UNCHANGED <<objects, astray>> /\ lost' = lost \cup {n}
    BY <1>11 DEF Read
  <2>2. InOneHand(Q)' /\ Meant'
    BY <1>1, <1>2, <1>4, <1>8, <2>1 DEF HandlesInv, InOneHand, Meant, Holding, objects
  <2>3. Held(Q)'
    BY <1>1, <1>2, <1>4, <1>8, <2>1 DEF HandlesInv, Held, Holding, objects
  <2>4. HandlesInv(Promised)'
    BY <1>3, <1>9, <2>2, <2>3 DEF HandlesInv, InOneHand, Held
  <2> QED BY <1>1, <1>9, <1>10, <2>4 DEF ServerInv
<1>12. CASE sock # INVALID
  <2>1. /\ alive' = alive \cup {w} /\ Holds(w, sock, n)
        /\ astray' = IF right THEN astray ELSE astray \cup {w}
    BY <1>12 DEF Read
  <2>2. sock \in Fds /\ w \notin astray
    BY <1>1, <1>5, <1>12 DEF ServerTyped, HandlesInv, InOneHand, Holding
  <2>3. /\ Holding' = Holding \cup {w} /\ m_sock'[w] = sock /\ meant'[w] = n
        /\ \A s \in Holding : s # w /\ m_sock'[s] = m_sock[s] /\ meant'[s] = meant[s]
    BY <1>1, <1>5, <1>12, <2>1 DEF Holding, Holds, HandlesTyped
  <2>4. InOneHand(Q)'
    <3>1. <<sock, n>> \in P /\ <<sock, n>>[2] = n
      BY <1>7, <2>2
    <3>2. (\A s \in Holding : meant[s] # n) /\ (\A r \in raw : r[2] # n)
      BY <1>1, <1>2, <3>1 DEF HandlesInv, InOneHand
    <3>3. \A q \in Q : q[2] # n
      BY <1>1, <1>2, <1>7, <1>8 DEF HandlesInv, InOneHand
    <3>4. \A s, t \in Holding' : meant'[s] = meant'[t] => s = t
      BY <1>1, <2>3, <3>2 DEF HandlesInv, InOneHand
    <3>5. ASSUME NEW s \in Holding'
          PROVE  /\ \A r \in raw : meant'[s] # r[2]
                 /\ \A q \in Q : meant'[s] # q[2]
                 /\ meant'[s] # 0
      <4>1. CASE s \in Holding
        <5>1. /\ \A r \in raw : meant[s] # r[2]
              /\ \A q \in P : meant[s] # q[2]
              /\ meant[s] # 0 /\ meant'[s] = meant[s]
          BY <1>1, <1>2, <2>3, <4>1 DEF HandlesInv, InOneHand
        <5> QED BY <1>8, <5>1
      <4>2. CASE s = w
        <5>1. meant'[s] = n
          BY <2>3, <4>2
        <5>2. n # 0
          BY <1>5
        <5> QED BY <3>2, <3>3, <5>1, <5>2
      <4> QED BY <2>3, <4>1, <4>2
    <3>6. astray' \subseteq Holding'
      BY <1>1, <2>1, <2>3 DEF HandlesInv, InOneHand
    <3> QED BY <1>1, <1>2, <1>4, <1>8, <3>4, <3>5, <3>6 DEF HandlesInv, InOneHand
  <2>5. Meant'
    BY <1>1, <1>4, <2>1, <2>2, <2>3, <1>12 DEF HandlesInv, Meant
  <2>6. Held(Q)'
    <3>1. ASSUME NEW fd \in Fds, <<fd, file[fd]>> \in P
          PROVE  \/ <<fd, file[fd]>> \in Q \/ file[fd] \in lost'
                 \/ file[fd] = n /\ right
      BY <1>4, <1>8, <3>1
    <3>2. \A s \in Holding \ astray : s \in (Holding \ astray)'
      BY <2>1, <2>3
    <3>3. ASSUME NEW fd \in Fds, file[fd] = n, right
          PROVE  fd = sock
      BY <1>1, <1>5, <2>2, <3>3 DEF HandlesTyped
    <3> QED BY <1>1, <1>2, <1>4, <2>1, <2>2, <2>3, <3>1, <3>2, <3>3 DEF HandlesInv, Held
  <2>7. HandlesInv(Promised)'
    BY <1>3, <1>9, <2>4, <2>5, <2>6 DEF HandlesInv, InOneHand, Held
  <2> QED BY <1>1, <1>9, <1>10, <2>7 DEF ServerInv
<1> QED BY <1>11, <1>12

-----------------------------------------------------------------------------
(* The invariant of the server.                                            *)

\* At first nobody has anything.
LEMMA InitServerInv == Init => ServerInv
<1> SUFFICES ASSUME Init PROVE ServerInv
  OBVIOUS
<1> USE HandlesAssumption DEF Init, HandlesInit
<1>1. HandlesTyped /\ ServerTyped
  <2>1. file \in [Fds -> 0..opened] /\ meant \in [Sockets -> 0..opened]
        /\ handed \in [Workers -> 0..opened] /\ opened \in 0..MaxOpened
    OBVIOUS
  <2>2. HandlesTyped
    BY <2>1 DEF HandlesTyped
  <2>3. ServerTyped
    BY <2>1 DEF ServerTyped
  <2> QED BY <2>2, <2>3
<1>2. Starting = {} /\ Holding = {} /\ server # "spawn"
  BY DEF Starting, Holding
<1>3. Promised = {}
  BY <1>2 DEF Promised
<1>4. HandlesInv(Promised)
  BY <1>1, <1>2, <1>3 DEF HandlesInv, InOneHand, Meant, Held
<1>5. Threads
  BY <1>2 DEF Threads
<1> QED BY <1>1, <1>4, <1>5 DEF ServerInv

\* Nothing happens after the end of the process.
LEMMA NextServerInv == ServerInv /\ [Next]_vars => ServerInv'
<1> SUFFICES ASSUME ServerInv, [Next]_vars PROVE ServerInv'
  OBVIOUS
<1>1. ASSUME NEW w \in Workers, FindsGone(w) \/ GivesUp(w)
      PROVE  ServerInv'
  BY <1>1, EndLoopKeeps DEF FindsGone, GivesUp
<1>2. ASSUME NEW w \in Workers, SigPipe(w) \/ Terminate(w)
      PROVE  ServerInv'
  BY <1>2, ExitKeeps DEF SigPipe, Terminate
<1>3. CASE ServerBreaks
  BY <1>3, ExitKeeps DEF ServerBreaks
<1>4. CASE UNCHANGED vars
  <2>1. UNCHANGED <<file, opened, alive, m_sock, meant, raw, lost, astray, hit>>
        /\ UNCHANGED <<server, sock, worker, handed, client, exited>>
    BY <1>4 DEF vars, handles, objects, blame, program
  <2>2. UNCHANGED <<Holding, Starting, Newest, Promised>>
    BY <2>1 DEF Holding, Starting, Newest, Promised
  <2>3. HandlesTyped' /\ ServerTyped'
    BY <2>1 DEF ServerInv, HandlesTyped, ServerTyped
  <2>4. CASE exited
    BY <2>1, <2>3, <2>4 DEF ServerInv
  <2>5. CASE ~exited
    <3>1. HandlesInv(Promised)'
      BY <2>1, <2>2, <2>3, <2>5 DEF ServerInv, HandlesInv, InOneHand, Meant, Held
    <3>2. Threads'
      BY <2>1, <2>2, <2>5 DEF ServerInv, Threads
    <3> QED BY <2>1, <2>3, <2>5, <3>1, <3>2 DEF ServerInv
  <2> QED BY <2>4, <2>5
<1> QED BY <1>1, <1>2, <1>3, <1>4, ServerStartKeeps, ServerCreateKeeps, ServerListenKeeps,
           AcceptFailsKeeps, AcceptKeeps, SpawnKeeps, ReadKeeps, ClientLeavesKeeps,
           OtherThreadKeeps DEF Next

LEMMA SpecServerInv == Spec => []ServerInv
BY InitServerInv, NextServerInv, PTL DEF Spec

\* What is promised is what NothingLost finds in sock or with a thread.
LEMMA ServerInvImplies == ServerInv => TypeOK /\ HandlesOwn /\ NothingLost
<1> SUFFICES ASSUME ServerInv PROVE TypeOK /\ HandlesOwn /\ NothingLost
  OBVIOUS
<1>1. TypeOK
  BY DEF TypeOK, ServerInv, HandlesTyped, ServerTyped
<1>2. HandlesOwn
  BY DEF ServerInv, HandlesInv, InOneHand, Meant, Holding, HandlesOwn, Own
<1>3. NothingLost
  <2>1. CASE exited
    BY <2>1 DEF ServerInv, NothingLost
  <2>2. CASE ~exited
    <3> SUFFICES ASSUME NEW fd \in Fds, <<fd, file[fd]>> \in Promised
                 PROVE  \/ server = "spawn" /\ sock = fd
                        \/ \E w \in Workers : worker[w] = "started" /\ handed[w] = file[fd]
      BY <2>2 DEF ServerInv, HandlesInv, Held, Holding, NothingLost
    <3> QED BY DEF Promised, Starting
  <2> QED BY <2>1, <2>2
<1> QED BY <1>1, <1>2, <1>3

\* Types of the Sockets and of the server.
THEOREM ServerTypes == Spec => []TypeOK
BY SpecServerInv, ServerInvImplies, PTL

\* Through any creating, closing, attaching, detaching and destroying, in any
\* number of threads, a Socket's descriptor is open, its own, and nobody else's.
THEOREM SocketsOwn == Spec => []HandlesOwn
BY SpecServerInv, ServerInvImplies, PTL

\* No open descriptor is forgotten, but where a failing ioctl(), a thread that
\* cannot start or one that reads a late accept() drops it.
THEOREM NoneDropped == Spec => []NothingLost
BY SpecServerInv, ServerInvImplies, PTL
=============================================================================
