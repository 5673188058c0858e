------------------------- MODULE HttpStream_proofs -------------------------
(***************************************************************************)
(* What HttpStream says of uncut heads, proved for every length of a body,  *)
(* every number of requests and every limit.                               *)
(*                                                                         *)
(* The client is described by an automaton (Moves): a stream it sends is a   *)
(* run of it, b, from Idle to Idle (StreamSent), and b does not change        *)
(* while the frontend reads, cuts and forwards the stream.  The invariant    *)
(* (HInv) is that the frontend's place in the stream is the client's there:  *)
(* what was forwarded ends where b has content_length bytes of a body left,  *)
(* and a head that is parsed is a head of b (Framed); the buffers put         *)
(* together are the stream (Ordered).  Since the body's length is known to    *)
(* the automaton from the start of the head, a head that is parsed twice,     *)
(* once for the app and once with it, stores the same content_length again.   *)
(***************************************************************************)
EXTENDS HttpStream, SequenceTheorems, WellFoundedInduction, NaturalsInduction, TLAPS

----------------------------------------------------------------------------
(* Sequences                                                               *)

\* What is taken and what is dropped of a sequence make the sequence.
LEMMA TakeDrop ==
    ASSUME NEW S, NEW s \in Seq(S), NEW n \in 0..Len(s)
    PROVE  /\ Take(s, n) \in Seq(S) /\ Len(Take(s, n)) = n
           /\ Drop(s, n) \in Seq(S) /\ Len(Drop(s, n)) = Len(s) - n
           /\ Take(s, n) \o Drop(s, n) = s
<1>1. Len(s) \in Nat /\ \A i \in 1..Len(s) : s[i] \in S
    BY LenProperties, ElementOfSeq
<1>2. Take(s, n) \in Seq(S) /\ Len(Take(s, n)) = n
    BY <1>1, SubSeqProperties DEF Take
<1>3. Drop(s, n) \in Seq(S) /\ Len(Drop(s, n)) = Len(s) - n
  <2>1. \A i \in n + 1 .. Len(s) : s[i] \in S
      BY <1>1
  <2>. QED
      BY <1>1, <2>1, SubSeqProperties DEF Drop
<1>4. Take(s, n) \o Drop(s, n) = s
  <2>1. SubSeq(s, 1, n) \o SubSeq(s, n + 1, Len(s)) = SubSeq(s, 1, Len(s))
    <3>1. 1 \in 1..Len(s) + 1 /\ n \in 1 - 1..Len(s) /\ Len(s) \in n..Len(s)
        BY <1>1
    <3>. QED
        BY <3>1, ConcatAdjacentSubSeq
  <2>. QED
      BY <2>1, SubSeqFull DEF Take, Drop
<1>. QED
    BY <1>2, <1>3, <1>4

\* All is taken, and nothing is left.
LEMMA TakeAll ==
    ASSUME NEW S, NEW s \in Seq(S)
    PROVE  Take(s, Len(s)) = s /\ Drop(s, Len(s)) = <<>> /\ Take(s, 0) = <<>> /\ Drop(s, 0) = s
<1>1. Len(s) \in Nat
    BY LenProperties
<1>. QED
    BY <1>1, SubSeqFull, SubSeqEmpty DEF Take, Drop

\* The first part of a sequence is a prefix of it.
LEMMA FirstPart ==
    ASSUME NEW S, NEW s \in Seq(S), NEW t \in Seq(S)
    PROVE  IsPrefix(s, s \o t)
<1>1. Len(s) \in Nat /\ Len(t) \in Nat /\ Len(s \o t) = Len(s) + Len(t)
    BY LenProperties, ConcatProperties
<1>2. SubSeq(s, 1, Len(s)) = SubSeq(s \o t, 1, Len(s))
  <2>1. CASE Len(s) = 0
      BY <2>1, SubSeqEmpty
  <2>2. CASE Len(s) # 0
      BY <1>1, <2>2, SubSeqOfConcat1
  <2>. QED
      BY <2>1, <2>2
<1>. QED
    BY <1>1, <1>2 DEF IsPrefix

\* What comes next in a sequence of two parts.
LEMMA NextOfParts ==
    ASSUME NEW S, NEW s \in Seq(S), NEW t \in Seq(S), t # <<>>
    PROVE  /\ Len(s) \in Nat /\ Len(t) \in Nat /\ Len(t) >= 1
           /\ Len(s \o t) = Len(s) + Len(t) /\ (s \o t)[Len(s) + 1] = t[1]
<1>1. Len(s) \in Nat /\ Len(t) \in Nat \ {0} /\ Len(s \o t) = Len(s) + Len(t)
    BY LenProperties, EmptySeq, ConcatProperties
<1>2. \A i \in 1..Len(s) + Len(t) : (s \o t)[i] = IF i <= Len(s) THEN s[i] ELSE t[i - Len(s)]
    BY ConcatProperties
<1>3. Len(s) + 1 \in 1..Len(s) + Len(t) /\ ~(Len(s) + 1 <= Len(s)) /\ Len(s) + 1 - Len(s) = 1
    BY <1>1
<1>. QED
    BY <1>1, <1>2, <1>3

----------------------------------------------------------------------------
(* The requests a client sends, as the run of an automaton: what its next   *)
(* token may be.  left: bytes of the body not sent, of the request whose    *)
(* head is being sent or of the body that is; the client knows it from the   *)
(* start of the head.  seen: Content-Length has been sent.  lost: the rest   *)
(* of a request that is refused.                                           *)

Kinds == {"line1", "line2", "host", "header", "length", "coding", "end", "body", "junk"}
Token == [r : Nat, kind : Kinds, val : Nat]
State == [mode : {"body", "line", "head", "lost"}, post : BOOLEAN, seen : BOOLEAN, left : Nat]

Between(n) == [mode |-> "body", post |-> FALSE, seen |-> FALSE, left |-> n]
Idle == Between(0)

Moves(x, t, y) ==
    \/ x = Idle /\ t.kind = "line1"
       /\ y.mode = "line" /\ y.post = (t.val = 1) /\ y.seen = FALSE
    \/ x.mode = "line" /\ t.kind = "line2" /\ y.mode = "head"
       /\ y.post = x.post /\ y.seen = x.seen /\ y.left = x.left
    \/ x.mode = "head" /\ t.kind \in {"host", "header"} /\ y = x
    \/ x.mode = "head" /\ t.kind = "length" /\ x.post /\ t.val = x.left
       /\ y.mode = "head" /\ y.post /\ y.seen /\ y.left = x.left
    \/ x.mode = "head" /\ t.kind = "coding" /\ x.post /\ y.mode = "lost"
    \/ x.mode = "head" /\ t.kind = "end" /\ (x.seen \/ x.left = 0) /\ y = Between(x.left)
    \/ x.mode = "body" /\ x.left > 0 /\ t.kind = "body" /\ y = Between(x.left - 1)
    \/ x.mode = "lost" /\ y.mode = "lost"
    \/ x.mode = "lost" /\ t.kind = "body" /\ y = Idle

Run(s, b) ==
    /\ b \in [0..Len(s) -> State]
    /\ \A i \in 1..Len(s) : s[i] \in Token /\ Moves(b[i - 1], s[i], b[i])

\* s is sent between x and y.
Sent(s, x, y) == s \in Seq(Token) /\ \E b : Run(s, b) /\ b[0] = x /\ b[Len(s)] = y

\* One token is sent in one move.
LEMMA SentOne ==
    ASSUME NEW x \in State, NEW y \in State, NEW t \in Token, Moves(x, t, y)
    PROVE  Sent(<<t>>, x, y)
<1>1. PICK b : b = [i \in 0..1 |-> IF i = 0 THEN x ELSE y]
    OBVIOUS
<1>2. PICK s : s = <<t>>
    OBVIOUS
<1>3. s \in Seq(Token) /\ Len(s) = 1 /\ s[1] = t
    BY <1>2
<1>4. b \in [0..1 -> State] /\ b[0] = x /\ b[1] = y
    BY <1>1
<1>5. Run(s, b)
    BY <1>3, <1>4 DEF Run
<1>. QED
    BY <1>2, <1>3, <1>4, <1>5 DEF Sent

\* Nothing is sent without a move.
LEMMA SentNone == ASSUME NEW x \in State PROVE Sent(<<>>, x, x)
<1>1. PICK b : b = [i \in 0..0 |-> x]
    OBVIOUS
<1>2. PICK s : s = <<>>
    OBVIOUS
<1>3. s \in Seq(Token) /\ Len(s) = 0
    BY <1>2
<1>4. b \in [0..0 -> State] /\ b[0] = x
    BY <1>1
<1>5. Run(s, b)
    BY <1>3, <1>4 DEF Run
<1>. QED
    BY <1>2, <1>3, <1>4, <1>5 DEF Sent

\* What is sent from x to y and from y to z is sent from x to z.
LEMMA SentBoth ==
    ASSUME NEW s, NEW t, NEW x, NEW y, NEW z, Sent(s, x, y), Sent(t, y, z)
    PROVE  Sent(s \o t, x, z)
<1>1. PICK b : Run(s, b) /\ b[0] = x /\ b[Len(s)] = y
    BY DEF Sent
<1>2. PICK c : Run(t, c) /\ c[0] = y /\ c[Len(t)] = z
    BY DEF Sent
<1>3. PICK u, m, n : u = s \o t /\ m = Len(s) /\ n = Len(t)
    OBVIOUS
<1>4. /\ m \in Nat /\ n \in Nat /\ u \in Seq(Token) /\ Len(u) = m + n
      /\ \A i \in 1..m + n : u[i] = IF i <= m THEN s[i] ELSE t[i - m]
    BY <1>3, LenProperties, ConcatProperties DEF Sent
<1>5. PICK d : d = [i \in 0..m + n |-> IF i <= m THEN b[i] ELSE c[i - m]]
    OBVIOUS
<1>6. /\ b \in [0..m -> State] /\ \A i \in 1..m : s[i] \in Token /\ Moves(b[i - 1], s[i], b[i])
      /\ c \in [0..n -> State] /\ \A i \in 1..n : t[i] \in Token /\ Moves(c[i - 1], t[i], c[i])
      /\ b[0] = x /\ b[m] = y /\ c[0] = y /\ c[n] = z
    BY <1>1, <1>2, <1>3 DEF Run
<1>7. /\ d \in [0..m + n -> State]
      /\ \A i \in 0..m : d[i] = b[i]
      /\ \A i \in m..m + n : d[i] = c[i - m]
  <2>1. \A i \in m + 1..m + n : i - m \in 0..n /\ ~(i <= m)
      BY <1>4
  <2>. QED
      BY <1>4, <1>5, <1>6, <2>1
<1>8. ASSUME NEW i \in 1..m + n
      PROVE  u[i] \in Token /\ Moves(d[i - 1], u[i], d[i])
  <2>1. CASE i <= m
    <3>1. i \in 1..m /\ i \in 0..m /\ i - 1 \in 0..m
        BY <1>4, <2>1
    <3>. QED
        BY <1>4, <1>6, <1>7, <2>1, <3>1
  <2>2. CASE i > m
    <3>1. i - m \in 1..n /\ i \in m..m + n /\ i - 1 \in m..m + n /\ (i - 1) - m = (i - m) - 1
          /\ ~(i <= m)
        BY <1>4, <2>2
    <3>. QED
        BY <1>4, <1>6, <1>7, <3>1
  <2>. QED
      BY <1>4, <2>1, <2>2
<1>9. Run(u, d) /\ d[0] = x /\ d[m + n] = z
  <2>1. 0 \in 0..m /\ m + n \in m..m + n /\ m + n - m = n
      BY <1>4
  <2>. QED
      BY <1>4, <1>6, <1>7, <1>8, <2>1 DEF Run
<1>. QED
    BY <1>3, <1>4, <1>9 DEF Sent

\* The least of a set of numbers.
LEMMA LeastOf ==
    ASSUME NEW B \in SUBSET Nat, B # {}
    PROVE  \E m \in B : \A k \in B : m <= k
<1>1. PICK m \in B : \A k \in B : <<k, m>> \notin OpToRel(<, Nat)
    BY NatLessThanWellFounded, WFMin, Zenon
<1>2. ASSUME NEW k \in B PROVE m <= k
  <2>1. m \in Nat /\ k \in Nat
      OBVIOUS
  <2>2. ~(k < m)
      BY <1>1, <2>1 DEF OpToRel
  <2>. QED
      BY <2>1, <2>2
<1>. QED
    BY <1>2

\* Header lines that do not matter leave the client in the head.
LEMMA FillSent ==
    ASSUME NEW r \in Nat, NEW n \in Nat, NEW x \in State, x.mode = "head"
    PROVE  Sent(Fill(r, n), x, x)
<1>1. PICK s : s = Fill(r, n)
    OBVIOUS
<1>2. s \in Seq(Token) /\ Len(s) = n /\ \A i \in 1..n : s[i] \in Token /\ s[i].kind = "header"
  <2>1. \A i \in 1..n : Tok(r, "header", i) \in Token /\ Tok(r, "header", i).kind = "header"
      BY DEF Tok, Token, Kinds
  <2>2. s \in [1..n -> Token] /\ \A i \in 1..n : s[i] = Tok(r, "header", i)
      BY <1>1, <2>1 DEF Fill
  <2>3. s \in Seq(Token)
      BY <2>2, SeqDef
  <2>. QED
      BY <2>1, <2>2, <2>3
<1>3. PICK b : b = [i \in 0..n |-> x]
    OBVIOUS
<1>4. Run(s, b) /\ b[0] = x /\ b[n] = x
    BY <1>2, <1>3 DEF Run, Moves
<1>. QED
    BY <1>1, <1>2, <1>4 DEF Sent

\* A body of n bytes.
LEMMA BodyTokens ==
    ASSUME NEW r \in Nat, NEW n \in Nat
    PROVE  /\ Body(r, n) \in Seq(Token) /\ Len(Body(r, n)) = n
           /\ \A i \in 1..n : Body(r, n)[i] \in Token /\ Body(r, n)[i].kind = "body"
<1>1. \A i \in 1..n : Tok(r, "body", i) \in Token /\ Tok(r, "body", i).kind = "body"
    BY DEF Tok, Token, Kinds
<1>2. PICK s : s = Body(r, n)
    OBVIOUS
<1>3. s \in [1..n -> Token] /\ \A i \in 1..n : s[i] = Tok(r, "body", i)
    BY <1>1, <1>2 DEF Body
<1>4. s \in Seq(Token)
    BY <1>3, SeqDef
<1>. QED
    BY <1>1, <1>2, <1>3, <1>4

\* The states between two requests, or in a body.
LEMMA BetweenState == \A n \in Nat : Between(n) \in State /\ Between(n).mode = "body" /\ Between(n).left = n
BY DEF Between, State

\* A body of n bytes is sent from n bytes left to none.
LEMMA BodySent ==
    ASSUME NEW r \in Nat, NEW n \in Nat
    PROVE  Sent(Body(r, n), Between(n), Idle)
<1>1. PICK s : s = Body(r, n)
    OBVIOUS
<1>2. s \in Seq(Token) /\ Len(s) = n /\ \A i \in 1..n : s[i] \in Token /\ s[i].kind = "body"
    BY <1>1, BodyTokens
<1>3. PICK b : b = [i \in 0..n |-> Between(n - i)]
    OBVIOUS
<1>4. b \in [0..n -> State] /\ \A i \in 0..n : b[i] = Between(n - i)
  <2>1. \A i \in 0..n : Between(n - i) \in State
      BY BetweenState
  <2>. QED
      BY <1>3, <2>1
<1>5. ASSUME NEW i \in 1..n PROVE Moves(b[i - 1], s[i], b[i])
  <2>1. n - i \in Nat /\ n - (i - 1) \in Nat /\ n - (i - 1) > 0 /\ (n - (i - 1)) - 1 = n - i
        /\ i \in 0..n /\ i - 1 \in 0..n
      OBVIOUS
  <2>. QED
      BY <1>2, <1>4, <2>1, BetweenState DEF Moves
<1>6. Run(s, b) /\ b[0] = Between(n) /\ b[n] = Idle
    BY <1>2, <1>4, <1>5 DEF Run, Idle
<1>. QED
    BY <1>1, <1>2, <1>6 DEF Sent

Lost == [mode |-> "lost", post |-> TRUE, seen |-> FALSE, left |-> 0]

\* The rest of a request with Transfer-Encoding.
LEMMA LostSent == ASSUME NEW r \in Nat PROVE Sent(End(r) \o Body(r, 2), Lost, Idle)
<1>1. Lost \in State /\ Idle \in State
    BY BetweenState DEF Lost, State, Idle
<1>2. Sent(End(r), Lost, Lost)
  <2>1. Tok(r, "end", 0) \in Token
      BY DEF Tok, Token, Kinds
  <2>2. Moves(Lost, Tok(r, "end", 0), Lost)
      BY DEF Moves, Lost
  <2>. QED
      BY <1>1, <2>1, <2>2, SentOne DEF End
<1>3. Sent(Body(r, 2), Lost, Idle)
  <2>1. PICK s : s = Body(r, 2)
      OBVIOUS
  <2>2. s \in Seq(Token) /\ Len(s) = 2 /\ \A i \in 1..2 : s[i] \in Token /\ s[i].kind = "body"
      BY <2>1, BodyTokens
  <2>3. PICK b : b = [i \in 0..2 |-> IF i = 2 THEN Idle ELSE Lost]
      OBVIOUS
  <2>4. b \in [0..2 -> State] /\ b[0] = Lost /\ b[1] = Lost /\ b[2] = Idle
      BY <1>1, <2>3
  <2>5. Moves(Lost, s[1], Lost) /\ Moves(Lost, s[2], Idle)
      BY <2>2 DEF Moves, Lost
  <2>6. Run(s, b)
      BY <2>2, <2>4, <2>5 DEF Run
  <2>. QED
      BY <2>1, <2>2, <2>4, <2>6 DEF Sent
<1>. QED
    BY <1>2, <1>3, SentBoth

----------------------------------------------------------------------------
\* The head of a request, up to Host, whose body has n bytes.
Heading(isPost, seen, n) == [mode |-> "head", post |-> isPost, seen |-> seen, left |-> n]

\* The pieces of a head move the client through it.
LEMMA HeadTokens ==
    ASSUME NEW r \in Nat, NEW n \in Nat, NEW p \in BOOLEAN, NEW e \in BOOLEAN
    PROVE  /\ Heading(p, e, n) \in State
           /\ Sent(Head0(r, p), Idle, Heading(p, FALSE, n))
           /\ \A has \in BOOLEAN : Sent(Head1(r, has), Heading(p, e, n), Heading(p, e, n))
           /\ e \/ n = 0 => Sent(End(r), Heading(p, e, n), Between(n))
<1>1. Heading(p, e, n) \in State /\ Heading(p, FALSE, n) \in State
    BY DEF Heading, State
<1>2. Sent(Head0(r, p), Idle, Heading(p, FALSE, n))
  <2>1. PICK t, u, y : /\ t = Tok(r, "line1", IF p THEN 1 ELSE 0) /\ u = Tok(r, "line2", 0)
                       /\ y = [mode |-> "line", post |-> p, seen |-> FALSE, left |-> n]
      OBVIOUS
  <2>2. t \in Token /\ u \in Token /\ y \in State /\ Idle \in State
      BY <2>1, BetweenState DEF Tok, Token, Kinds, State, Idle
  <2>3. Moves(Idle, t, y)
      BY <2>1 DEF Moves, Tok
  <2>4. Moves(y, u, Heading(p, FALSE, n))
    <3>1. y.mode = "line" /\ u.kind = "line2" /\ y.left = n /\ y.post = p /\ y.seen = FALSE
        BY <2>1 DEF Tok
    <3>2. PICK z : z = Heading(p, FALSE, n)
        OBVIOUS
    <3>3. z.mode = "head" /\ z.left = n /\ z.post = p /\ z.seen = FALSE
        BY <3>2 DEF Heading
    <3>. QED
        BY <3>1, <3>2, <3>3 DEF Moves
  <2>5. Sent(<<t>>, Idle, y) /\ Sent(<<u>>, y, Heading(p, FALSE, n))
      BY <1>1, <2>2, <2>3, <2>4, SentOne
  <2>6. Sent(<<t>> \o <<u>>, Idle, Heading(p, FALSE, n))
      BY <2>5, SentBoth
  <2>7. <<t>> \o <<u>> = <<t, u>>
    <3>1. <<t>> \in Seq(Token)
        BY <2>2
    <3>2. Append(<<t>>, u) = <<t>> \o <<u>>
        BY <2>2, <3>1, AppendIsConcat
    <3>3. Append(<<t>>, u) = <<t, u>>
      <4>1. PICK v, w : v = Append(<<t>>, u) /\ w = <<t, u>>
          OBVIOUS
      <4>2. v \in Seq(Token) /\ Len(v) = 2 /\ v[1] = t /\ v[2] = u
          BY <2>2, <3>1, <4>1, AppendProperties
      <4>3. w \in Seq(Token) /\ Len(w) = 2 /\ w[1] = t /\ w[2] = u
          BY <2>2, <4>1
      <4>4. \A i \in 1..Len(v) : v[i] = w[i]
        <5>1. \A i \in 1..2 : i = 1 \/ i = 2
            OBVIOUS
        <5>. QED
            BY <4>2, <4>3, <5>1
      <4>5. v = w
          BY <4>2, <4>3, <4>4, SeqEqual
      <4>. QED
          BY <4>1, <4>5
    <3>. QED
        BY <3>2, <3>3
  <2>8. Head0(r, p) = <<t, u>>
      BY <2>1 DEF Head0
  <2>. QED
      BY <2>6, <2>7, <2>8
<1>3. ASSUME NEW has \in BOOLEAN
      PROVE  Sent(Head1(r, has), Heading(p, e, n), Heading(p, e, n))
  <2>1. Tok(r, "host", 0) \in Token
      BY DEF Tok, Token, Kinds
  <2>2. Moves(Heading(p, e, n), Tok(r, "host", 0), Heading(p, e, n))
      BY DEF Moves, Tok, Heading
  <2>. QED
      BY <1>1, <2>1, <2>2, SentOne, SentNone DEF Head1
<1>4. ASSUME e \/ n = 0
      PROVE  Sent(End(r), Heading(p, e, n), Between(n))
  <2>1. Tok(r, "end", 0) \in Token
      BY DEF Tok, Token, Kinds
  <2>2. Moves(Heading(p, e, n), Tok(r, "end", 0), Between(n))
      BY <1>4 DEF Moves, Tok, Heading
  <2>. QED
      BY <1>1, <2>1, <2>2, SentOne, BetweenState DEF End
<1>. QED
    BY <1>1, <1>2, <1>3, <1>4

\* What the environment may choose in a head.
LEMMA HostsLongs ==
    ASSUME HttpStreamAssumption
    PROVE  Hosts \subseteq BOOLEAN /\ Longs \subseteq Nat
<1>1. ASSUME NEW h \in Hosts PROVE h \in BOOLEAN
    BY DEF Hosts
<1>2. ASSUME NEW n \in Longs PROVE n \in Nat
  <2>1. n = 0 \/ n = MaxReqLen
      BY DEF Longs
  <2>. QED
      BY <2>1, HttpStreamAssumption
<1>. QED
    BY <1>1, <1>2

\* A request is sent from Idle to Idle.
LEMMA RequestSent ==
    ASSUME HttpStreamAssumption, NEW r \in Nat, NEW g \in Requests(r)
    PROVE  Sent(g, Idle, Idle)
<1>1. CASE g \in Gets(r)
  <2>1. PICK h \in Hosts, n \in Longs :
           g = Head0(r, FALSE) \o Head1(r, h) \o Fill(r, n) \o End(r)
    <3>. DEFINE G(h, n) == Head0(r, FALSE) \o Head1(r, h) \o Fill(r, n) \o End(r)
    <3>1. Gets(r) = {G(h, n) : h \in Hosts, n \in Longs}
        BY DEF Gets
    <3>2. \E h \in Hosts, n \in Longs : g = G(h, n)
      <4>. HIDE DEF G
      <4>. QED
          BY <1>1, <3>1
    <3>. QED
        BY <3>2
  <2>2. h \in BOOLEAN /\ n \in Nat
      BY HostsLongs
  <2>3. PICK x, a, b, c, d : /\ x = Heading(FALSE, FALSE, 0) /\ a = Head0(r, FALSE)
                             /\ b = Head1(r, h) /\ c = Fill(r, n) /\ d = End(r)
      OBVIOUS
  <2>4. x \in State /\ x.mode = "head"
      BY <2>3, HeadTokens DEF Heading
  <2>5. Sent(a, Idle, x) /\ Sent(b, x, x) /\ Sent(d, x, Idle)
      BY <2>2, <2>3, HeadTokens DEF Idle
  <2>6. Sent(c, x, x)
      BY <2>2, <2>3, <2>4, FillSent
  <2>7. Sent(a \o b, Idle, x)
      BY <2>5, SentBoth
  <2>8. Sent((a \o b) \o c, Idle, x)
      BY <2>6, <2>7, SentBoth
  <2>9. Sent(((a \o b) \o c) \o d, Idle, Idle)
      BY <2>5, <2>8, SentBoth
  <2>. QED
      BY <2>1, <2>3, <2>9
<1>2. CASE g \in Posts(r)
  <2>1. PICK h \in Hosts, n \in Bodies :
           g = Head0(r, TRUE) \o <<Tok(r, "length", n)>> \o Head1(r, h) \o End(r) \o Body(r, n)
    <3>. DEFINE G(h, n) == Head0(r, TRUE) \o <<Tok(r, "length", n)>> \o Head1(r, h) \o End(r) \o Body(r, n)
    <3>1. Posts(r) = {G(h, n) : h \in Hosts, n \in Bodies}
        BY DEF Posts
    <3>2. \E h \in Hosts, n \in Bodies : g = G(h, n)
      <4>. HIDE DEF G
      <4>. QED
          BY <1>2, <3>1
    <3>. QED
        BY <3>2
  <2>2. h \in BOOLEAN /\ n \in Nat
      BY HostsLongs, HttpStreamAssumption
  <2>3. PICK x, y, a, b, c, d, e :
           /\ x = Heading(TRUE, FALSE, n) /\ y = Heading(TRUE, TRUE, n) /\ a = Head0(r, TRUE)
           /\ b = <<Tok(r, "length", n)>> /\ c = Head1(r, h) /\ d = End(r) /\ e = Body(r, n)
      OBVIOUS
  <2>4. Sent(a, Idle, x) /\ Sent(c, y, y) /\ Sent(d, y, Between(n))
      BY <2>2, <2>3, HeadTokens
  <2>5. Sent(b, x, y)
    <3>1. Tok(r, "length", n) \in Token
        BY <2>2 DEF Tok, Token, Kinds
    <3>2. Moves(x, Tok(r, "length", n), y)
      <4>1. x.mode = "head" /\ x.post /\ x.left = n
          BY <2>3 DEF Heading
      <4>2. Tok(r, "length", n).kind = "length" /\ Tok(r, "length", n).val = n
          BY DEF Tok
      <4>3. y.mode = "head" /\ y.post /\ y.seen /\ y.left = n
          BY <2>3 DEF Heading
      <4>. QED
          BY <4>1, <4>2, <4>3 DEF Moves
    <3>3. x \in State /\ y \in State
        BY <2>2, <2>3, HeadTokens
    <3>. QED
        BY <2>3, <3>1, <3>2, <3>3, SentOne
  <2>6. Sent(e, Between(n), Idle)
      BY <2>2, <2>3, BodySent
  <2>7. Sent(a \o b, Idle, y)
      BY <2>4, <2>5, SentBoth
  <2>8. Sent((a \o b) \o c, Idle, y)
      BY <2>4, <2>7, SentBoth
  <2>9. Sent(((a \o b) \o c) \o d, Idle, Between(n))
      BY <2>4, <2>8, SentBoth
  <2>10. Sent((((a \o b) \o c) \o d) \o e, Idle, Idle)
      BY <2>6, <2>9, SentBoth
  <2>. QED
      BY <2>1, <2>3, <2>10
<1>3. CASE g \in Chunks(r)
  <2>1. g = Head0(r, TRUE) \o Head1(r, TRUE) \o <<Tok(r, "coding", 0)>> \o End(r) \o Body(r, 2)
      BY <1>3 DEF Chunks
  <2>2. PICK x, a, b, c, d, e :
           /\ x = Heading(TRUE, FALSE, 0) /\ a = Head0(r, TRUE) /\ b = Head1(r, TRUE)
           /\ c = <<Tok(r, "coding", 0)>> /\ d = End(r) /\ e = Body(r, 2)
      OBVIOUS
  <2>3. x \in State /\ Sent(a, Idle, x) /\ Sent(b, x, x)
      BY <2>2, HeadTokens
  <2>4. Sent(c, x, Lost)
    <3>1. Tok(r, "coding", 0) \in Token /\ Lost \in State
        BY DEF Tok, Token, Kinds, Lost, State
    <3>2. Moves(x, Tok(r, "coding", 0), Lost)
        BY <2>2 DEF Moves, Tok, Heading, Lost
    <3>. QED
        BY <2>2, <2>3, <3>1, <3>2, SentOne
  <2>5. Sent(d \o e, Lost, Idle)
      BY <2>2, LostSent
  <2>6. Sent(a \o b, Idle, x)
      BY <2>3, SentBoth
  <2>7. Sent((a \o b) \o c, Idle, Lost)
      BY <2>4, <2>6, SentBoth
  <2>8. Sent(((a \o b) \o c) \o (d \o e), Idle, Idle)
      BY <2>5, <2>7, SentBoth
  <2>9. ((a \o b) \o c) \o (d \o e) = (((a \o b) \o c) \o d) \o e
    <3>1. (a \o b) \o c \in Seq(Token)
        BY <2>7 DEF Sent
    <3>2. e \in Seq(Token)
        BY <2>2, BodyTokens
    <3>3. d \in Seq(Token)
        BY <2>2 DEF End, Tok, Token, Kinds
    <3>4. PICK v : v = (a \o b) \o c
        OBVIOUS
    <3>5. v \in Seq(Token)
        BY <3>1, <3>4
    <3>6. (v \o d) \o e = v \o (d \o e)
        BY <3>2, <3>3, <3>5, ConcatAssociative
    <3>. QED
        BY <3>4, <3>6
  <2>. QED
      BY <2>1, <2>2, <2>8, <2>9
<1>. QED
    BY <1>1, <1>2, <1>3 DEF Requests

\* g puts the requests f together, one after the other.
Joins(g, f, n) == g = [i \in 1..n |-> IF i = 1 THEN f[i] ELSE g[i - 1] \o f[i]]

\* Any number of requests can be put together.
LEMMA JoinsExists ==
    ASSUME NEW f, NEW n \in Nat
    PROVE  \E g : Joins(g, f, n)
<1>1. PICK B : B = {k \in Nat : ~\E g : Joins(g, f, k)}
    OBVIOUS
<1>2. SUFFICES ASSUME B # {} PROVE FALSE
    BY <1>1
<1>3. PICK m \in B : \A k \in B : m <= k
    BY <1>1, <1>2, LeastOf
<1>4. m \in Nat /\ ~\E g : Joins(g, f, m)
    BY <1>1
<1>5. m # 0
  <2>1. PICK h : h = [i \in 1..0 |-> IF i = 1 THEN f[i] ELSE {} \o f[i]]
      OBVIOUS
  <2>2. h = [i \in 1..0 |-> IF i = 1 THEN f[i] ELSE h[i - 1] \o f[i]]
      BY <2>1
  <2>. QED
      BY <1>4, <2>2 DEF Joins
<1>6. PICK g : Joins(g, f, m - 1)
  <2>1. m - 1 \in Nat /\ ~(m <= m - 1)
      BY <1>4, <1>5
  <2>. QED
      BY <1>1, <1>3, <2>1
<1>7. PICK h : h = [i \in 1..m |-> IF i < m THEN g[i] ELSE IF i = 1 THEN f[i] ELSE g[i - 1] \o f[i]]
    OBVIOUS
<1>8. ASSUME NEW i \in 1..m
      PROVE  h[i] = IF i = 1 THEN f[i] ELSE h[i - 1] \o f[i]
  <2>1. CASE i < m
    <3>1. i \in 1..m - 1 /\ (i # 1 => i - 1 \in 1..m - 1 /\ i - 1 \in 1..m /\ i - 1 < m)
        BY <1>4, <2>1
    <3>2. g[i] = IF i = 1 THEN f[i] ELSE g[i - 1] \o f[i]
        BY <1>6, <3>1 DEF Joins
    <3>. QED
        BY <1>7, <2>1, <3>1, <3>2
  <2>2. CASE i = m
    <3>1. ~(i < m) /\ (i # 1 => i - 1 \in 1..m /\ i - 1 < m)
        BY <1>4, <2>2
    <3>. QED
        BY <1>7, <3>1
  <2>. QED
      BY <1>4, <2>1, <2>2
<1>9. h = [i \in 1..m |-> IF i = 1 THEN f[i] ELSE h[i - 1] \o f[i]]
    BY <1>7, <1>8
<1>. QED
    BY <1>4, <1>9 DEF Joins

\* FlattenSeq puts them together so.
LEMMA FlattenIs ==
    ASSUME NEW f, Len(f) # 0
    PROVE  FlattenSeq(f) = (CHOOSE g : Joins(g, f, Len(f)))[Len(f)]
BY DEF FlattenSeq, Joins

\* What is put together of requests is sent from Idle to Idle.
LEMMA FlattenSent ==
    ASSUME NEW n \in Nat, n >= 1, NEW f, DOMAIN f = 1..n, f = [i \in 1..n |-> f[i]],
           \A r \in 1..n : Sent(f[r], Idle, Idle)
    PROVE  Sent(FlattenSeq(f), Idle, Idle)
<1>1. Len(f) = n
  <2>1. f \in [1..n -> Seq(Token)]
      BY DEF Sent
  <2>2. f \in Seq(Seq(Token))
      BY <2>1, SeqDef
  <2>3. DOMAIN f = 1..Len(f) /\ Len(f) \in Nat
      BY <2>2, LenProperties
  <2>. QED
      BY <2>3
<1>2. PICK g : g = CHOOSE h : Joins(h, f, n)
    OBVIOUS
<1>3. Joins(g, f, n)
    BY <1>2, JoinsExists
<1>4. \A i \in 1..n : g[i] = IF i = 1 THEN f[i] ELSE g[i - 1] \o f[i]
    BY <1>3 DEF Joins
<1>5. PICK B : B = {k \in 1..n : ~Sent(g[k], Idle, Idle)}
    OBVIOUS
<1>6. B = {}
  <2>1. SUFFICES ASSUME B # {} PROVE FALSE
      OBVIOUS
  <2>2. B \in SUBSET Nat
      BY <1>5
  <2>3. PICK m \in B : \A k \in B : m <= k
      BY <2>1, <2>2, LeastOf
  <2>4. m \in 1..n /\ ~Sent(g[m], Idle, Idle)
      BY <1>5
  <2>5. m # 1
      BY <1>4, <2>4
  <2>6. m - 1 \in 1..n /\ ~(m <= m - 1)
      BY <2>4, <2>5
  <2>7. Sent(g[m - 1], Idle, Idle)
      BY <1>5, <2>3, <2>6
  <2>8. g[m] = g[m - 1] \o f[m]
      BY <1>4, <2>4, <2>5
  <2>9. Sent(f[m], Idle, Idle)
      BY <2>4
  <2>. QED
      BY <2>4, <2>7, <2>8, <2>9, SentBoth
<1>7. FlattenSeq(f) = g[n]
  <2>1. Len(f) # 0
      BY <1>1
  <2>2. FlattenSeq(f) = (CHOOSE h : Joins(h, f, Len(f)))[Len(f)]
      BY <2>1, FlattenIs
  <2>. QED
      BY <1>1, <1>2, <2>2, Zenon
<1>. QED
    BY <1>5, <1>6, <1>7

\* What a client sends is requests, one after the other.
LEMMA StreamSent ==
    ASSUME HttpStreamAssumption, Init
    PROVE  Sent(sent, Idle, Idle)
<1>1. PICK n \in 1..MaxRequests : sent \in Streams(n)
    BY DEF Init
<1>2. n \in Nat /\ n >= 1
    BY HttpStreamAssumption
<1>3. PICK f \in [1..n -> UNION {Requests(r) : r \in 1..n}] :
         sent = FlattenSeq(f) /\ \A r \in 1..n : f[r] \in Requests(r)
    BY <1>1 DEF Streams
<1>4. \A r \in 1..n : Sent(f[r], Idle, Idle)
    BY <1>2, <1>3, RequestSent
<1>5. DOMAIN f = 1..n /\ f = [i \in 1..n |-> f[i]]
    BY <1>3
<1>. QED
    BY <1>2, <1>3, <1>4, <1>5, FlattenSent

----------------------------------------------------------------------------
(* Types                                                                   *)

HTypes ==
    /\ sent \in Seq(Token)
    /\ phase \in Phase /\ post \in BOOLEAN /\ host \in BOOLEAN /\ matched_app \in BOOLEAN
    /\ content_length \in Nat
    /\ wire \in Seq(Tokens) /\ whole \in Seq(Tokens) /\ rest \in Seq(Tokens)
    /\ req \in Seq(Tokens) /\ partial_buf \in Seq(Tokens) /\ saved \in Seq(Tokens)
    /\ out \in Seq(Tokens)

\* The tokens of the stream are tokens.
LEMMA TokensAre ==
    ASSUME sent \in Seq(Token)
    PROVE  Tokens \subseteq Token /\ Junk \in Tokens /\ sent \in Seq(Tokens)
<1>1. DOMAIN sent = 1..Len(sent) /\ Len(sent) \in Nat /\ \A i \in 1..Len(sent) : sent[i] \in Token
    BY LenProperties, ElementOfSeq
<1>2. Junk \in Token
    BY DEF Junk, Tok, Token, Kinds
<1>3. sent \in Seq(Tokens)
  <2>1. sent \in [1..Len(sent) -> Tokens]
    <3>1. sent \in [1..Len(sent) -> Token]
        BY LenProperties
    <3>. QED
        BY <1>1, <3>1 DEF Tokens
  <2>. QED
      BY <1>1, <2>1, SeqDef
<1>. QED
    BY <1>1, <1>2, <1>3 DEF Tokens

\* The least of two numbers is one of them.
LEMMA LeastOfTwo ==
    ASSUME NEW a \in Nat, NEW b \in Nat
    PROVE  /\ Least(a, b) \in Nat /\ Least(a, b) <= a /\ Least(a, b) <= b
           /\ Least(a, b) = a \/ Least(a, b) = b
BY DEF Least

\* What handle_data does with a buffer keeps the types.
LEMMA RecvTypes == ASSUME HTypes, Recv PROVE HTypes'
<1>1. PICK S : S = Tokens
    OBVIOUS
<1>2. sent' = sent /\ S = Tokens'
    BY <1>1 DEF Recv, Tokens
<1>3. PICK n \in 1..Len(wire) : HandleData(Take(wire, n)) /\ wire' = Drop(wire, n)
    BY DEF Recv
<1>4. wire \in Seq(S) /\ partial_buf \in Seq(S) /\ out \in Seq(S) /\ content_length \in Nat
    BY <1>1 DEF HTypes
<1>5. Len(wire) \in Nat /\ n \in 0..Len(wire)
    BY <1>4, LenProperties
<1>6. Take(wire, n) \in Seq(S) /\ Drop(wire, n) \in Seq(S)
    BY <1>4, <1>5, TakeDrop
<1>7. PICK buf, paid : /\ buf = partial_buf \o Take(wire, n)
                       /\ paid = Least(Len(buf), content_length)
    OBVIOUS
<1>8. buf \in Seq(S) /\ Len(buf) \in Nat
    BY <1>4, <1>6, <1>7, ConcatProperties, LenProperties
<1>9. paid \in 0..Len(buf) /\ content_length - paid \in Nat
  <2>1. PICK l, c : l = Len(buf) /\ c = content_length
      OBVIOUS
  <2>2. l \in Nat /\ c \in Nat /\ paid = Least(l, c)
      BY <1>4, <1>7, <1>8, <2>1
  <2>3. paid \in Nat /\ paid <= l /\ paid <= c
      BY <2>2, LeastOfTwo
  <2>. QED
      BY <2>1, <2>2, <2>3
<1>10. Take(buf, paid) \in Seq(S) /\ Drop(buf, paid) \in Seq(S)
    BY <1>8, <1>9, TakeDrop
<1>11. /\ partial_buf' \in {<<>>, buf} /\ out' = out \o Take(buf, paid)
       /\ content_length' = content_length - paid
       /\ UNCHANGED <<phase, whole, rest, req, post>> \/ HandleRequest(Drop(buf, paid))
    BY <1>3, <1>7 DEF HandleData, parsing
<1>12. out' \in Seq(S) /\ partial_buf' \in Seq(S) /\ content_length' \in Nat /\ wire' \in Seq(S)
    BY <1>3, <1>4, <1>6, <1>8, <1>9, <1>10, <1>11, ConcatProperties, EmptySeq
<1>13. /\ phase' \in Phase /\ whole' \in Seq(S) /\ rest' \in Seq(S) /\ req' \in Seq(S)
       /\ post' \in BOOLEAN
    BY <1>1, <1>10, <1>11, EmptySeq DEF HandleRequest, HTypes, Phase
<1>14. /\ sent' \in Seq(Token) /\ host' \in BOOLEAN /\ matched_app' \in BOOLEAN /\ saved' \in Seq(S)
    BY <1>1, <1>2 DEF HTypes, Recv
<1>. QED
    BY <1>2, <1>12, <1>13, <1>14 DEF HTypes

\* The parser's pieces of a buffer are made of its tokens.
LEMMA AdvanceTypes ==
    ASSUME NEW S, NEW r \in Seq(S), NEW q \in Seq(S), NEW n \in Nat, n <= Len(r)
    PROVE  /\ q \o Take(r, n) \in Seq(S) /\ Take(r, n) \in Seq(S) /\ Drop(r, n) \in Seq(S)
           /\ q \o r \in Seq(S)
<1>1. n \in 0..Len(r)
    BY LenProperties
<1>. QED
    BY <1>1, TakeDrop, ConcatProperties

\* What the parser changes, in any of its steps.
ParsedTypes ==
    /\ phase' \in Phase /\ rest' \in Seq(Tokens) /\ req' \in Seq(Tokens) /\ post' \in BOOLEAN
    /\ partial_buf' \in Seq(Tokens) /\ content_length' \in Nat /\ host' \in BOOLEAN
    /\ out' \in Seq(Tokens)

\* handle_partial_req keeps the types.
LEMMA PartialTypes == ASSUME HTypes, Partial PROVE ParsedTypes
<1>1. PICK S, a, b : S = Tokens /\ a = req /\ b = rest
    OBVIOUS
<1>2. a \in Seq(S) /\ b \in Seq(S) /\ Junk \in S /\ partial_buf \in Seq(S)
    BY <1>1, TokensAre DEF HTypes
<1>3. <<Junk>> \in Seq(S)
    BY <1>2
<1>4. (a \o b) \o <<Junk>> \in Seq(S) /\ <<>> \in Seq(S)
    BY <1>2, <1>3, ConcatProperties, EmptySeq
<1>5. /\ rest' = <<>> /\ req' = <<>> /\ phase' \in {"closed", "recv"}
      /\ partial_buf' \in {partial_buf, (a \o b) \o <<Junk>>}
      /\ post' = post /\ content_length' = content_length /\ host' = host /\ out' = out
    BY <1>1 DEF Partial
<1>. QED
    BY <1>1, <1>2, <1>4, <1>5 DEF ParsedTypes, HTypes, Phase

\* So does response_err_and_close,
LEMMA RefuseTypes == ASSUME HTypes, Refuse PROVE ParsedTypes
BY DEF Refuse, ParsedTypes, HTypes, Phase

\* parse_request_line,
LEMMA LineTypes == ASSUME HTypes, ParseRequestLine PROVE ParsedTypes
<1>1. PICK S : S = Tokens
    OBVIOUS
<1>2. rest \in Seq(S) /\ req \in Seq(S) /\ Len(rest) \in Nat
    BY <1>1, LenProperties DEF HTypes
<1>3. ASSUME NEW n \in Nat, n <= Len(rest), req' = Take(rest, n), rest' = Drop(rest, n),
             post' = (rest[1].val = 1), phase' = "headers",
             UNCHANGED <<partial_buf, content_length, host, out>>
      PROVE  ParsedTypes
  <2>1. req' \in Seq(S) /\ rest' \in Seq(S)
      BY <1>2, <1>3, AdvanceTypes
  <2>2. post' \in BOOLEAN
      BY <1>3
  <2>. QED
      BY <1>1, <1>3, <2>1, <2>2 DEF ParsedTypes, HTypes, Phase
<1>4. \/ Partial \/ Refuse
      \/ \E n \in Nat : /\ n <= Len(rest) /\ req' = Take(rest, n) /\ rest' = Drop(rest, n)
                        /\ post' = (rest[1].val = 1) /\ phase' = "headers"
                        /\ UNCHANGED <<partial_buf, content_length, host, out>>
  <2>1. 2 \in Nat /\ 3 \in Nat /\ (Len(rest) > 1 => 2 <= Len(rest)) /\ (Len(rest) > 2 => 3 <= Len(rest))
      BY <1>2
  <2>. QED
      BY <2>1 DEF ParseRequestLine
<1>. QED
    BY <1>3, <1>4, PartialTypes, RefuseTypes

\* parse_header_line,
LEMMA HeaderTypes ==
    ASSUME HTypes, PartialHeader \/ OtherHeader \/ HostHeader \/ LengthHeader \/ BadHeader
    PROVE  ParsedTypes
<1>1. PICK S : S = Tokens
    OBVIOUS
<1>2. rest \in Seq(S) /\ req \in Seq(S) /\ Len(rest) \in Nat /\ (rest # <<>> => Len(rest) >= 1)
    BY <1>1, LenProperties, EmptySeq DEF HTypes
<1>3. ASSUME NEW n \in Nat, n <= Len(rest), Advance(n)
      PROVE  req' \in Seq(S) /\ rest' \in Seq(S)
    BY <1>2, <1>3, AdvanceTypes DEF Advance
<1>4. CASE PartialHeader
    BY <1>4, PartialTypes DEF PartialHeader
<1>5. CASE OtherHeader
  <2>1. Advance(1) \/ (Len(rest) > 1 /\ Advance(2))
      BY <1>5 DEF OtherHeader
  <2>2. rest # <<>> /\ UNCHANGED <<phase, post, partial_buf, content_length, host, out>>
      BY <1>5 DEF OtherHeader
  <2>3. req' \in Seq(S) /\ rest' \in Seq(S)
      BY <1>2, <1>3, <2>1, <2>2
  <2>. QED
      BY <1>1, <2>2, <2>3 DEF ParsedTypes, HTypes
<1>6. CASE HostHeader
  <2>1. /\ rest # <<>> /\ Advance(1) /\ host' = TRUE
        /\ UNCHANGED <<phase, post, partial_buf, content_length, out>>
      BY <1>6 DEF HostHeader
  <2>2. req' \in Seq(S) /\ rest' \in Seq(S)
      BY <1>2, <1>3, <2>1
  <2>. QED
      BY <1>1, <2>1, <2>2 DEF ParsedTypes, HTypes
<1>7. CASE LengthHeader
  <2>1. /\ rest # <<>> /\ Advance(1) /\ content_length' = rest[1].val
        /\ UNCHANGED <<phase, post, partial_buf, host, out>>
      BY <1>7 DEF LengthHeader
  <2>2. req' \in Seq(S) /\ rest' \in Seq(S)
      BY <1>2, <1>3, <2>1
  <2>3. rest[1].val \in Nat
    <3>1. rest[1] \in S
        BY <1>2, <2>1, ElementOfSeq
    <3>. QED
        BY <1>1, <3>1, TokensAre DEF HTypes, Token
  <2>. QED
      BY <1>1, <2>1, <2>2, <2>3 DEF ParsedTypes, HTypes
<1>8. CASE BadHeader
    BY <1>8, RefuseTypes DEF BadHeader
<1>. QED
    BY <1>4, <1>5, <1>6, <1>7, <1>8

\* and a_complete_req.
LEMMA EndTypes == ASSUME HTypes, EndTooLong \/ EndOfReq PROVE ParsedTypes
<1>1. CASE EndTooLong
    BY <1>1, RefuseTypes DEF EndTooLong
<1>2. CASE EndOfReq
  <2>1. PICK S, after, paid : S = Tokens /\ after = Drop(rest, 1) /\ paid = Least(content_length, Len(after))
      OBVIOUS
  <2>2. /\ rest \in Seq(S) /\ req \in Seq(S) /\ out \in Seq(S) /\ content_length \in Nat
        /\ rest # <<>>
      BY <1>2, <2>1 DEF HTypes, EndOfReq, AtEnd
  <2>3. Len(rest) \in Nat /\ 1 \in 0..Len(rest)
      BY <2>2, LenProperties, EmptySeq
  <2>4. after \in Seq(S) /\ Len(after) = Len(rest) - 1 /\ Len(after) \in Nat
      BY <2>1, <2>2, <2>3, TakeDrop, LenProperties
  <2>5. /\ paid \in 0..Len(after) /\ content_length - paid \in Nat
        /\ 1 + paid \in Nat /\ 1 + paid <= Len(rest)
    <3>1. PICK l, c : l = Len(after) /\ c = content_length
        OBVIOUS
    <3>2. l \in Nat /\ c \in Nat /\ paid = Least(c, l)
        BY <2>1, <2>2, <2>4, <3>1
    <3>3. paid \in Nat /\ paid <= l /\ paid <= c
        BY <3>2, LeastOfTwo
    <3>. QED
        BY <2>3, <2>4, <3>1, <3>2, <3>3
  <2>6. Take(rest, 1 + paid) \in Seq(S) /\ Drop(after, paid) \in Seq(S)
      BY <2>2, <2>4, <2>5, AdvanceTypes
  <2>7. /\ out' = out \o req \o Take(rest, 1 + paid) /\ content_length' = content_length - paid
        /\ rest' = Drop(after, paid) /\ req' = <<>> /\ post' = FALSE /\ phase' \in {"recv", "line"}
        /\ UNCHANGED <<partial_buf, host>>
      BY <1>2, <2>1 DEF EndOfReq
  <2>8. out' \in Seq(S)
      BY <2>2, <2>6, <2>7, ConcatProperties
  <2>. QED
      BY <2>1, <2>5, <2>6, <2>7, <2>8, EmptySeq DEF ParsedTypes, HTypes, Phase
<1>. QED
    BY <1>1, <1>2

\* Every step keeps the types.
LEMMA TypesStep == ASSUME HTypes, [Next]_vars PROVE HTypes'
<1>1. CASE UNCHANGED vars
    BY <1>1 DEF vars, parsing, HTypes, Tokens
<1>2. CASE Recv
    BY <1>2, RecvTypes
<1>3. ASSUME ParsedTypes, InputUnchanged PROVE HTypes'
    BY <1>3 DEF ParsedTypes, InputUnchanged, HTypes, Tokens
<1>4. CASE ParseRequestLine
    BY <1>3, <1>4, LineTypes DEF ParseRequestLine
<1>5. CASE PartialHeader \/ OtherHeader \/ HostHeader \/ LengthHeader \/ BadHeader
    BY <1>3, <1>5, HeaderTypes DEF PartialHeader, OtherHeader, HostHeader, LengthHeader, BadHeader
<1>6. CASE EndTooLong \/ EndOfReq
    BY <1>3, <1>6, EndTypes DEF EndTooLong, EndOfReq
<1>7. CASE EndMatchesApp
    BY <1>7 DEF EndMatchesApp, parsing, HTypes, Tokens, Phase
<1>8. CASE BackendConnectOk
    BY <1>8, EmptySeq DEF BackendConnectOk, HandleRequest, HTypes, Tokens, Phase
<1>9. CASE BackendConnectFail
    BY <1>9 DEF BackendConnectFail, parsing, HTypes, Tokens, Phase
<1>. QED
    BY <1>1, <1>2, <1>4, <1>5, <1>6, <1>7, <1>8, <1>9 DEF Next

----------------------------------------------------------------------------
(* The invariant: where the frontend is in the stream                      *)

Buffers ==
    /\ phase = "recv" => req = <<>> /\ rest = <<>>
    /\ phase = "line" => req = <<>>

\* What was forwarded, the request being parsed, the rest of the buffer and what was not
\* received make the stream.  The buffer that is kept for the app is the one that is parsed.
Ordered ==
    NoHeadCut =>
    /\ phase # "closed" => ((out \o req) \o rest) \o wire = sent
    /\ phase = "closed" => \E t \in Seq(Tokens) : out \o t = sent
    /\ ~matched_app /\ phase \in {"line", "headers"} => whole = req \o rest
    /\ phase = "match" => saved = req \o rest

Parsed == Len(out) + Len(req)

\* The client is where the parser thinks it is, and content_length is what is left of the
\* body.  A head that is parsed again, now with an app, finds the content_length it had
\* stored.
Framed(b) ==
    NoHeadCut =>
    /\ phase = "recv" => b[Len(out)] = Between(content_length)
    /\ phase \in {"line", "headers", "match"} =>
         /\ b[Len(out)] = Idle
         /\ content_length # 0 => /\ Len(out) < Len(sent)
                                 /\ content_length = b[Len(out) + 1].left
    /\ phase \in {"headers", "match"} =>
         /\ Len(out) < Parsed
         /\ b[Parsed].mode = "head" /\ b[Parsed].post = post
         /\ b[Parsed].left = b[Len(out) + 1].left
         /\ b[Parsed].seen => content_length = b[Parsed].left

Placed(b) == Buffers /\ Ordered /\ Framed(b)

HInv(b) == HTypes /\ Run(sent, b) /\ b[Len(sent)] = Idle /\ Placed(b)

Parts(S, a, q, r, w) == a \in Seq(S) /\ q \in Seq(S) /\ r \in Seq(S) /\ w \in Seq(S)

Parted(S, a, q, r, w) ==
    q \o (r \o w) \in Seq(S) /\ a \o (q \o (r \o w)) = ((a \o q) \o r) \o w

\* Four parts in a row, taken as the first and what follows it.
LEMMA FourParts ==
    ASSUME NEW S, NEW a, NEW q, NEW r, NEW w, Parts(S, a, q, r, w)
    PROVE  Parted(S, a, q, r, w)
<1>1. PICK u, v : u = r \o w /\ v = a \o q
    OBVIOUS
<1>2. a \in Seq(S) /\ q \in Seq(S)
    BY DEF Parts
<1>3. r \in Seq(S) /\ w \in Seq(S)
    BY DEF Parts
<1>4. u \in Seq(S)
    BY <1>1, <1>3, ConcatProperties
<1>5. v \in Seq(S)
    BY <1>1, <1>2, ConcatProperties
<1>6. (a \o q) \o u = a \o (q \o u)
    BY <1>2, <1>4, ConcatAssociative
<1>7. (v \o r) \o w = v \o (r \o w)
    BY <1>3, <1>5, ConcatAssociative
<1>8. q \o u \in Seq(S)
    BY <1>2, <1>4, ConcatProperties
<1>. QED
  <2>1. q \o (r \o w) \in Seq(S) /\ a \o (q \o (r \o w)) = ((a \o q) \o r) \o w
      BY <1>1, <1>6, <1>7, <1>8, Zenon
  <2>. QED
      BY <2>1, Zenon DEF Parted

Shares(S, a, q, r, n) == a \in Seq(S) /\ q \in Seq(S) /\ r \in Seq(S) /\ n \in 0..Len(r)

\* Sequences in three parts, of which the second is moved into the first.
Moved(S, a, q, r, n) ==
    /\ (a \o (q \o Take(r, n))) \o Drop(r, n) = (a \o q) \o r
    /\ (q \o Take(r, n)) \o Drop(r, n) = q \o r
    /\ q \o Take(r, n) \in Seq(S) /\ Len(q \o Take(r, n)) = Len(q) + n

\* What is moved from the front of r to the end of q changes nothing of the whole.
LEMMA MoveOver ==
    ASSUME NEW S, NEW a, NEW q, NEW r, NEW n, Shares(S, a, q, r, n)
    PROVE  Moved(S, a, q, r, n)
<1>1. PICK t, d : t = Take(r, n) /\ d = Drop(r, n)
    OBVIOUS
<1>0. q \in Seq(S) /\ a \in Seq(S)
    BY DEF Shares
<1>8. q \in Seq(S)
    BY <1>0
<1>9. r \in Seq(S) /\ n \in 0..Len(r)
    BY DEF Shares
<1>2. t \in Seq(S) /\ d \in Seq(S)
    BY <1>1, <1>9, TakeDrop
<1>6. t \o d = r /\ Len(t) = n
    BY <1>1, <1>9, TakeDrop
<1>7. q \o t \in Seq(S) /\ Len(q \o t) = Len(q) + Len(t)
    BY <1>2, <1>8, ConcatProperties
<1>3. q \o t \in Seq(S) /\ Len(q \o t) = Len(q) + n
    BY <1>6, <1>7
<1>4. (q \o t) \o d = q \o r
  <2>1. (q \o t) \o d = q \o (t \o d)
      BY <1>2, <1>8, ConcatAssociative
  <2>. QED
      BY <1>6, <2>1
<1>5. (a \o (q \o t)) \o d = (a \o q) \o r
  <2>1. PICK u : u = q \o t
      OBVIOUS
  <2>2. u \in Seq(S)
      BY <1>3, <2>1
  <2>3. (a \o u) \o d = a \o (u \o d)
    <3>1. a \in Seq(S) /\ d \in Seq(S)
        BY <1>0, <1>2
    <3>. QED
        BY <2>2, <3>1, ConcatAssociative
  <2>4. a \o (q \o r) = (a \o q) \o r
    <3>1. r \in Seq(S)
        BY <1>9
    <3>. QED
        BY <1>0, <3>1, ConcatAssociative
  <2>. QED
      BY <1>4, <2>1, <2>3, <2>4
<1>. QED
    BY <1>1, <1>3, <1>4, <1>5, Zenon DEF Moved

\* The i-th token of the buffer is the next but i - 1 of the stream.
LEMMA Ahead ==
    ASSUME HTypes, NEW b, Run(sent, b), ((out \o req) \o rest) \o wire = sent
    PROVE  /\ Parsed \in Nat /\ Len(out) \in Nat /\ Len(req) \in Nat /\ Len(rest) \in Nat
           /\ Len(sent) \in Nat /\ Parsed + Len(rest) <= Len(sent)
           /\ \A i \in 0..Len(sent) : b[i] \in State
           /\ \A i \in 1..Len(rest) :
                 /\ rest[i] = sent[Parsed + i] /\ rest[i] \in Token
                 /\ Moves(b[(Parsed + i) - 1], rest[i], b[Parsed + i])
<1>1. PICK S, a, r, w : S = Tokens /\ a = out \o req /\ r = rest /\ w = wire
    OBVIOUS
<1>2. a \in Seq(S) /\ Len(a) = Parsed /\ r \in Seq(S) /\ w \in Seq(S)
    BY <1>1, ConcatProperties DEF HTypes, Parsed
<1>3. Len(out) \in Nat /\ Len(req) \in Nat /\ Len(r) \in Nat /\ Len(w) \in Nat /\ Parsed \in Nat
    BY <1>2, LenProperties DEF HTypes, Parsed
<1>4. a \o r \in Seq(S) /\ Len(a \o r) = Parsed + Len(r)
      /\ \A i \in 1..Parsed + Len(r) : (a \o r)[i] = IF i <= Parsed THEN a[i] ELSE r[i - Parsed]
    BY <1>2, ConcatProperties
<1>5. /\ Len(sent) = Parsed + Len(r) + Len(w)
      /\ \A i \in 1..Len(r) : sent[Parsed + i] = r[i]
  <2>1. PICK c, m, n, k : c = a \o r /\ m = Parsed /\ n = Len(r) /\ k = Len(w)
      OBVIOUS
  <2>2. c \in Seq(S) /\ Len(c) = m + n
      BY <1>4, <2>1
  <2>3. Len(c \o w) = Len(c) + Len(w)
        /\ \A i \in 1..Len(c) + Len(w) : (c \o w)[i] = IF i <= Len(c) THEN c[i] ELSE w[i - Len(c)]
      BY <1>2, <2>2, ConcatProperties
  <2>4. c \o w = sent
      BY <1>1, <2>1
  <2>5. Len(sent) = m + n + k
        /\ \A i \in 1..m + n + k : sent[i] = IF i <= m + n THEN c[i] ELSE w[i - (m + n)]
      BY <2>1, <2>2, <2>3, <2>4
  <2>6. \A i \in 1..m + n : c[i] = IF i <= m THEN a[i] ELSE r[i - m]
      BY <1>4, <2>1
  <2>7. m \in Nat /\ n \in Nat /\ k \in Nat
      BY <1>3, <2>1
  <2>8. ASSUME NEW i \in 1..n PROVE sent[m + i] = r[i]
    <3>1. PICK j : j = m + i
        OBVIOUS
    <3>2. j \in 1..m + n + k /\ j \in 1..m + n /\ j <= m + n /\ ~(j <= m) /\ j - m = i
        BY <2>7, <3>1
    <3>3. sent[j] = c[j]
        BY <2>5, <3>2
    <3>4. c[j] = r[j - m]
        BY <2>6, <3>2
    <3>. QED
        BY <3>1, <3>2, <3>3, <3>4
  <2>. QED
      BY <2>1, <2>5, <2>8
<1>6. /\ \A i \in 0..Len(sent) : b[i] \in State
      /\ \A i \in 1..Len(sent) : sent[i] \in Token /\ Moves(b[i - 1], sent[i], b[i])
    BY DEF Run
<1>7. ASSUME NEW i \in 1..Len(r)
      PROVE  r[i] = sent[Parsed + i] /\ r[i] \in Token /\ Moves(b[(Parsed + i) - 1], r[i], b[Parsed + i])
  <2>1. PICK j : j = Parsed + i
      OBVIOUS
  <2>2. j \in 1..Len(sent) /\ j = Parsed + i
      BY <1>3, <1>5, <2>1
  <2>3. sent[j] \in Token /\ Moves(b[j - 1], sent[j], b[j]) /\ sent[j] = r[i]
      BY <1>5, <1>6, <2>2
  <2>. QED
      BY <2>2, <2>3
<1>8. Parsed + Len(r) <= Len(sent) /\ Len(sent) \in Nat
    BY <1>3, <1>5
<1>. QED
    BY <1>1, <1>3, <1>6, <1>7, <1>8

\* The connection ends with what was forwarded.
LEMMA ClosesKeeps ==
    ASSUME HTypes, Ordered, phase # "closed", phase' = "closed", out' = out, sent' = sent,
           partial_buf' = <<>> => partial_buf = <<>>, NEW b
    PROVE  Placed(b)'
<1>1. Tokens' = Tokens
    BY DEF Tokens
<1>2. ASSUME partial_buf' = <<>>
      PROVE  \E t \in Seq(Tokens) : out \o t = sent
  <2>1. PICK S, a, q, r, w : S = Tokens /\ a = out /\ q = req /\ r = rest /\ w = wire
      OBVIOUS
  <2>2. Parts(S, a, q, r, w)
      BY <2>1 DEF HTypes, Parts
  <2>3. ((a \o q) \o r) \o w = sent
      BY <1>2, <2>1 DEF Ordered, NoHeadCut
  <2>4. PICK t : t = q \o (r \o w)
      OBVIOUS
  <2>5. q \o (r \o w) \in Seq(S) /\ a \o (q \o (r \o w)) = ((a \o q) \o r) \o w
    <3>1. Parted(S, a, q, r, w)
        BY <2>2, FourParts
    <3>. QED
        BY <3>1, Zenon DEF Parted
  <2>6. t \in Seq(S) /\ a \o t = sent
      BY <2>3, <2>4, <2>5
  <2>. QED
      BY <2>1, <2>6
<1>3. Ordered'
    BY <1>1, <1>2 DEF Ordered, NoHeadCut
<1>. QED
    BY <1>3 DEF Placed, Buffers, Framed

\* What is kept of a request is one byte at least.
LEMMA PartialKeeps ==
    ASSUME NEW b, HInv(b), phase # "closed", Partial, sent' = sent
    PROVE  Placed(b)'
<1>1. HTypes /\ Ordered
    BY DEF HInv, Placed
<1>2. (req \o rest) \o <<Junk>> # <<>>
  <2>1. PICK S, a : S = Tokens /\ a = req \o rest
      OBVIOUS
  <2>2. a \in Seq(S) /\ <<Junk>> \in Seq(S) /\ <<Junk>> # <<>>
      BY <1>1, <2>1, TokensAre, ConcatProperties DEF HTypes
  <2>. QED
      BY <2>1, <2>2, ConcatEqualIffEmpty
<1>3. CASE phase' = "closed"
  <2>1. partial_buf' = partial_buf \/ partial_buf' # <<>>
      BY <1>2 DEF Partial
  <2>. QED
      BY <1>1, <1>3, <2>1, ClosesKeeps DEF Partial
<1>4. CASE phase' # "closed"
  <2>1. phase' = "recv" /\ rest' = <<>> /\ req' = <<>> /\ partial_buf' # <<>>
      BY <1>2, <1>4 DEF Partial
  <2>. QED
      BY <2>1 DEF Placed, Buffers, Ordered, Framed, NoHeadCut
<1>. QED
    BY <1>3, <1>4

\* A request that is refused ends the connection.
LEMMA RefuseKeeps ==
    ASSUME NEW b, HInv(b), phase # "closed", Refuse, sent' = sent
    PROVE  Placed(b)'
BY ClosesKeeps DEF HInv, Placed, Refuse

\* n tokens of the buffer become part of the request that is parsed.
TakesOver(n) ==
    /\ phase \in {"line", "headers"} /\ phase' = "headers"
    /\ n \in 0..Len(rest) /\ req' = req \o Take(rest, n) /\ rest' = Drop(rest, n)
    /\ UNCHANGED <<sent, wire, out, whole, matched_app>>

\* Tokens that become part of the request stay in the order.
LEMMA AdvanceOrder ==
    ASSUME HTypes, Ordered, NoHeadCut, NEW n, TakesOver(n)
    PROVE  Ordered' /\ Parsed' = Parsed + n
<1>1. PICK S, a, q, r : S = Tokens /\ a = out /\ q = req /\ r = rest
    OBVIOUS
<1>2. Shares(S, a, q, r, n)
    BY <1>1 DEF HTypes, Shares, TakesOver
<1>3. /\ (a \o (q \o Take(r, n))) \o Drop(r, n) = (a \o q) \o r
      /\ (q \o Take(r, n)) \o Drop(r, n) = q \o r
      /\ Len(q \o Take(r, n)) = Len(q) + n
  <2>1. Moved(S, a, q, r, n)
      BY <1>2, MoveOver
  <2>. QED
      BY <2>1, Zenon DEF Moved
<1>4. (out' \o req') \o rest' = (out \o req) \o rest /\ req' \o rest' = req \o rest
      /\ Len(req') = Len(req) + n /\ out' = out
    BY <1>1, <1>3 DEF TakesOver
<1>5. Len(out) \in Nat /\ Len(req) \in Nat
    BY LenProperties DEF HTypes
<1>6. ((out' \o req') \o rest') \o wire' = sent'
    BY <1>4 DEF Ordered, TakesOver
<1>7. ~matched_app => whole = req \o rest
    BY DEF Ordered, TakesOver
<1>8. Ordered'
    BY <1>4, <1>6, <1>7 DEF Ordered, TakesOver
<1>9. n \in Nat
    BY DEF TakesOver
<1>. QED
    BY <1>4, <1>5, <1>8, <1>9 DEF Parsed

\* The request line is parsed: the head begins.
LEMMA LineKeeps ==
    ASSUME NEW b, HInv(b), ParseRequestLine, NoHeadCut
    PROVE  Placed(b)'
<1>1. HTypes /\ Ordered /\ Run(sent, b) /\ phase = "line" /\ req = <<>> /\ sent' = sent
    BY DEF HInv, Placed, Buffers, ParseRequestLine, InputUnchanged
<1>2. PICK p : p = Parsed
    OBVIOUS
<1>3. Len(out) = p /\ p \in Nat
  <2>1. Len(req) = 0 /\ Len(out) \in Nat
      BY <1>1, EmptySeq, LenProperties DEF HTypes
  <2>. QED
      BY <1>2, <2>1 DEF Parsed
<1>4. /\ b[p] = Idle
      /\ content_length # 0 => p < Len(sent) /\ content_length = b[p + 1].left
    BY <1>1, <1>3 DEF HInv, Placed, Framed
<1>5. /\ Len(rest) \in Nat /\ Len(sent) \in Nat /\ p + Len(rest) <= Len(sent)
      /\ \A i \in 0..Len(sent) : b[i] \in State
      /\ \A i \in 1..Len(rest) : Moves(b[(p + i) - 1], rest[i], b[p + i])
  <2>1. ((out \o req) \o rest) \o wire = sent
      BY <1>1 DEF Ordered
  <2>. QED
      BY <1>1, <1>2, <2>1, Ahead
<1>6. CASE Partial
    BY <1>1, <1>6, PartialKeeps
<1>7. CASE Refuse
    BY <1>1, <1>7, RefuseKeeps
<1>8. Len(rest) > 1 => /\ rest[1].kind = "line1" => b[p + 1].mode = "line"
                                                    /\ b[p + 1].post = (rest[1].val = 1)
                       /\ Moves(b[p + 1], rest[2], b[p + 2])
  <2>1. ASSUME Len(rest) > 1
        PROVE  Moves(b[p], rest[1], b[p + 1]) /\ Moves(b[p + 1], rest[2], b[p + 2])
    <3>1. 1 \in 1..Len(rest) /\ 2 \in 1..Len(rest) /\ (p + 1) - 1 = p /\ (p + 2) - 1 = p + 1
        BY <1>3, <1>5, <2>1
    <3>2. Moves(b[(p + 1) - 1], rest[1], b[p + 1]) /\ Moves(b[(p + 2) - 1], rest[2], b[p + 2])
        BY <1>5, <3>1
    <3>. QED
        BY <3>1, <3>2
  <2>2. Len(rest) > 1 /\ rest[1].kind = "line1" =>
           b[p + 1].mode = "line" /\ b[p + 1].post = (rest[1].val = 1)
    <3>1. Idle.mode = "body" /\ Idle.left = 0
        BY BetweenState DEF Idle
    <3>. QED
        BY <1>4, <2>1, <3>1 DEF Moves
  <2>. QED
      BY <2>1, <2>2
<1>9. CASE /\ rest[1].kind = "line1" /\ Len(rest) > 1 /\ rest[2].kind = "line2"
           /\ req' = Take(rest, 2) /\ rest' = Drop(rest, 2)
           /\ post' = (rest[1].val = 1) /\ phase' = "headers"
           /\ UNCHANGED <<partial_buf, content_length, host, out>>
  <2>1. req' = req \o Take(rest, 2)
    <3>1. 2 \in 0..Len(rest) /\ rest \in Seq(Tokens)
        BY <1>1, <1>5, <1>9 DEF HTypes
    <3>2. Take(rest, 2) \in Seq(Tokens)
        BY <3>1, TakeDrop
    <3>. QED
        BY <1>1, <1>9, <3>2, ConcatEmptySeq
  <2>2. Ordered' /\ Parsed' = p + 2
    <3>1. 2 \in 0..Len(rest)
        BY <1>5, <1>9
    <3>2. UNCHANGED <<sent, wire, out, whole, matched_app>>
        BY <1>9 DEF ParseRequestLine, InputUnchanged
    <3>. QED
        BY <1>1, <1>2, <1>9, <2>1, <3>1, <3>2, AdvanceOrder DEF TakesOver
  <2>3. /\ b[p + 2].mode = "head" /\ b[p + 2].post = (rest[1].val = 1)
        /\ b[p + 2].left = b[p + 1].left /\ ~b[p + 2].seen
    <3>1. Moves(b[p + 1], rest[2], b[p + 2]) /\ b[p + 1].mode = "line"
          /\ b[p + 1].post = (rest[1].val = 1)
        BY <1>8, <1>9
    <3>2. ~b[p + 1].seen
      <4>1. Moves(b[p], rest[1], b[p + 1])
        <5>1. 1 \in 1..Len(rest) /\ (p + 1) - 1 = p
            BY <1>3, <1>5, <1>9
        <5>2. Moves(b[(p + 1) - 1], rest[1], b[p + 1])
            BY <1>5, <5>1
        <5>. QED
            BY <5>1, <5>2
      <4>. QED
          BY <1>4, <1>9, <4>1, BetweenState DEF Moves, Idle
    <3>. QED
        BY <1>9, <3>1, <3>2 DEF Moves
  <2>4. Framed(b)'
    <3>1. /\ Len(out)' = p /\ Parsed' = p + 2 /\ p < p + 2 /\ phase' = "headers"
          /\ sent' = sent /\ content_length' = content_length /\ post' = (rest[1].val = 1)
        BY <1>1, <1>3, <1>9, <2>2
    <3>. QED
        BY <1>4, <2>3, <3>1 DEF Framed
  <2>. QED
      BY <1>9, <2>2, <2>4 DEF Placed, Buffers
<1>10. ~(Len(rest) > 1 /\ rest[1].kind = "line1" /\ rest[2].kind = "junk")
    BY <1>8 DEF Moves
<1>11. Partial \/ Refuse
       \/ /\ rest[1].kind = "line1" /\ Len(rest) > 1 /\ rest[2].kind = "line2"
          /\ req' = Take(rest, 2) /\ rest' = Drop(rest, 2)
          /\ post' = (rest[1].val = 1) /\ phase' = "headers"
          /\ UNCHANGED <<partial_buf, content_length, host, out>>
  <2>1. Len(rest) > 2 => Len(rest) > 1
      BY <1>5
  <2>. QED
      BY <1>10, <2>1 DEF ParseRequestLine
<1>. QED
    BY <1>6, <1>7, <1>9, <1>11

\* Where the parser is in the head of a request.
LEMMA HeadersAt ==
    ASSUME NEW b, HInv(b), NoHeadCut, phase = "headers"
    PROVE  /\ HTypes /\ Ordered /\ Run(sent, b) /\ Len(out) \in Nat /\ Parsed \in Nat
           /\ Len(out) < Parsed /\ Len(rest) \in Nat /\ Len(sent) \in Nat
           /\ Parsed + Len(rest) <= Len(sent) /\ ((out \o req) \o rest) \o wire = sent
           /\ b[Len(out)] = Idle
           /\ content_length # 0 => /\ Len(out) < Len(sent)
                                   /\ content_length = b[Len(out) + 1].left
           /\ b[Parsed].mode = "head" /\ b[Parsed].post = post
           /\ b[Parsed].left = b[Len(out) + 1].left
           /\ b[Parsed].seen => content_length = b[Parsed].left
           /\ \A i \in 0..Len(sent) : b[i] \in State
           /\ rest # <<>> => /\ Len(rest) >= 1
                            /\ rest[1] \in Token /\ Moves(b[Parsed], rest[1], b[Parsed + 1])
<1>1. HTypes /\ Ordered /\ Run(sent, b)
    BY DEF HInv, Placed
<1>2. ((out \o req) \o rest) \o wire = sent
    BY <1>1 DEF Ordered
<1>3. /\ Parsed \in Nat /\ Len(out) \in Nat /\ Len(rest) \in Nat /\ Len(sent) \in Nat
      /\ Parsed + Len(rest) <= Len(sent)
      /\ \A i \in 0..Len(sent) : b[i] \in State
      /\ \A i \in 1..Len(rest) :
            rest[i] \in Token /\ Moves(b[(Parsed + i) - 1], rest[i], b[Parsed + i])
    BY <1>1, <1>2, Ahead
<1>4. rest # <<>> => Len(rest) >= 1
    BY <1>1, <1>3, EmptySeq DEF HTypes
<1>5. rest # <<>> => rest[1] \in Token /\ Moves(b[Parsed], rest[1], b[Parsed + 1])
  <2>1. rest # <<>> => 1 \in 1..Len(rest)
      BY <1>3, <1>4
  <2>2. (Parsed + 1) - 1 = Parsed
      BY <1>3
  <2>. QED
      BY <1>3, <2>1, <2>2
<1>. QED
    BY <1>1, <1>2, <1>3, <1>4, <1>5 DEF HInv, Placed, Framed

\* One more token of the head is parsed.
LEMMA HeadStep ==
    ASSUME NEW b, HInv(b), NoHeadCut, phase = "headers", TakesOver(1), post' = post,
           b[Parsed + 1].mode = "head", b[Parsed + 1].post = post,
           b[Parsed + 1].left = b[Parsed].left,
           b[Parsed + 1].seen => content_length' = b[Parsed].left,
           content_length' \in {content_length, b[Parsed].left}
    PROVE  Placed(b)'
<1>1. Ordered' /\ Parsed' = Parsed + 1
    BY HeadersAt, AdvanceOrder
<1>2. PICK p, q : p = Len(out) /\ q = Parsed
    OBVIOUS
<1>3. /\ p \in Nat /\ q \in Nat /\ p < q /\ q <= Len(sent) /\ Len(sent) \in Nat
      /\ b[p] = Idle /\ b[q].left = b[p + 1].left
      /\ content_length # 0 => content_length = b[p + 1].left
  <2>1. Len(rest) \in Nat /\ q + Len(rest) <= Len(sent) /\ Len(sent) \in Nat /\ q \in Nat
      BY <1>2, HeadersAt
  <2>. QED
      BY <1>2, <2>1, HeadersAt
<1>4. out' = out /\ sent' = sent /\ phase' = "headers" /\ Parsed' = q + 1
    BY <1>1, <1>2 DEF TakesOver
<1>5. Framed(b)'
  <2>1. Len(out') = p /\ p < q + 1 /\ p < Len(sent)
      BY <1>2, <1>3, <1>4
  <2>2. content_length' # 0 => content_length' = b[p + 1].left
      BY <1>2, <1>3
  <2>3. /\ b[q + 1].mode = "head" /\ b[q + 1].post = post' /\ b[q + 1].left = b[p + 1].left
        /\ b[q + 1].seen => content_length' = b[q + 1].left
      BY <1>2, <1>3
  <2>. QED
      BY <1>3, <1>4, <2>1, <2>2, <2>3 DEF Framed
<1>. QED
    BY <1>1, <1>4, <1>5 DEF Placed, Buffers

\* A header line is parsed: the client is still in the head.
LEMMA HeaderKeeps ==
    ASSUME NEW b, HInv(b), NoHeadCut, OtherHeader \/ HostHeader \/ LengthHeader
    PROVE  Placed(b)'
<1>1. phase = "headers" /\ rest # <<>> /\ phase' = phase /\ post' = post
    BY DEF OtherHeader, HostHeader, LengthHeader
<1>2. /\ Len(rest) >= 1 /\ Len(rest) \in Nat /\ rest[1] \in Token
      /\ Moves(b[Parsed], rest[1], b[Parsed + 1])
      /\ b[Parsed].mode = "head" /\ b[Parsed].post = post
      /\ b[Parsed].seen => content_length = b[Parsed].left
    BY <1>1, HeadersAt
<1>3. PICK x, y, t, k : x = b[Parsed] /\ y = b[Parsed + 1] /\ t = rest[1] /\ k = rest[1].kind
    OBVIOUS
<1>4. Moves(x, t, y) /\ x.mode = "head" /\ k = t.kind
    BY <1>2, <1>3
<1>5. Advance(1) => TakesOver(1)
  <2>1. UNCHANGED <<sent, wire, out, whole, matched_app>>
      BY DEF OtherHeader, HostHeader, LengthHeader, InputUnchanged
  <2>2. 1 \in 0..Len(rest)
      BY <1>2
  <2>. QED
      BY <1>1, <2>1, <2>2 DEF Advance, TakesOver
<1>6. CASE k \in {"header", "host"}
  <2>1. y = x
      BY <1>4, <1>6 DEF Moves
  <2>2. Advance(1) /\ content_length' = content_length
      BY <1>3, <1>6 DEF OtherHeader, HostHeader, LengthHeader
  <2>. QED
      BY <1>1, <1>2, <1>3, <1>5, <2>1, <2>2, HeadStep
<1>7. CASE k = "length"
  <2>1. /\ x.post /\ t.val = x.left /\ y.mode = "head" /\ y.post /\ y.left = x.left
      BY <1>4, <1>7 DEF Moves
  <2>2. post /\ post = TRUE
    <3>1. b[Parsed].post
        BY <1>3, <2>1
    <3>2. b[Parsed].post = post
        BY <1>2
    <3>3. post \in BOOLEAN
        BY HeadersAt, <1>1 DEF HTypes
    <3>. QED
        BY <3>1, <3>2, <3>3
  <2>3. Advance(1) /\ content_length' = t.val
      BY <1>3, <1>7, <2>2 DEF OtherHeader, HostHeader, LengthHeader
  <2>4. b[Parsed + 1].post = post
    <3>1. y.post \in BOOLEAN
      <4>1. Parsed + 1 \in 0..Len(sent)
        <5>1. Parsed \in Nat /\ Parsed + Len(rest) <= Len(sent) /\ Len(sent) \in Nat
            BY <1>1, HeadersAt
        <5>. QED
            BY <1>2, <5>1
      <4>2. y \in State
          BY <1>1, <1>3, <4>1, HeadersAt
      <4>. QED
          BY <4>2 DEF State
    <3>. QED
        BY <1>3, <2>1, <2>2, <3>1
  <2>. QED
      BY <1>1, <1>3, <1>5, <2>1, <2>3, <2>4, HeadStep
<1>8. k \in {"header", "host", "length"}
  <2>1. k \in {"host", "header", "length", "coding", "end"} /\ (k = "coding" => x.post)
    <3>1. Idle.mode = "body"
        BY BetweenState DEF Idle
    <3>2. x # Idle
        BY <1>4, <3>1
    <3>. QED
        BY <1>4, <3>2 DEF Moves
  <2>2. k = "coding" => post
      BY <1>2, <1>3, <2>1
  <2>. QED
      BY <1>3, <2>1, <2>2 DEF OtherHeader, HostHeader, LengthHeader
<1>. QED
    BY <1>6, <1>7, <1>8

\* n more bytes of a body are sent.
LEMMA BodyAhead ==
    ASSUME NEW s, NEW b, Run(s, b), Len(s) \in Nat, NEW p \in Nat, NEW n \in Nat, NEW k \in Nat,
           b[p] = Between(n), k <= n, p + k <= Len(s)
    PROVE  b[p + k] = Between(n - k)
<1>0. SUFFICES ASSUME b[p + k] # Between(n - k) PROVE FALSE
    OBVIOUS
<1>1. PICK B : B = {j \in Nat : j <= k /\ b[p + j] # Between(n - j)}
    OBVIOUS
<1>2. B # {}
  <2>1. k \in B
      BY <1>0, <1>1
  <2>. QED
      BY <2>1
<1>3. B \in SUBSET Nat
    BY <1>1
<1>4. PICK m \in B : \A j \in B : m <= j
    BY <1>2, <1>3, LeastOf
<1>5. m \in Nat /\ m <= k /\ b[p + m] # Between(n - m)
    BY <1>1
<1>6. m # 0
  <2>1. p + 0 = p /\ n - 0 = n
      OBVIOUS
  <2>. QED
      BY <1>5, <2>1
<1>7. PICK j, i : j = m - 1 /\ i = p + m
    OBVIOUS
<1>8. j \in Nat /\ j <= k /\ ~(m <= j) /\ i \in 1..Len(s) /\ i - 1 = p + j /\ n - j \in Nat
      /\ n - j > 0 /\ (n - j) - 1 = n - m
    BY <1>5, <1>6, <1>7
<1>9. b[p + j] = Between(n - j)
    BY <1>1, <1>4, <1>8
<1>10. Moves(Between(n - j), s[i], b[i])
  <2>1. Moves(b[i - 1], s[i], b[i])
      BY <1>8 DEF Run
  <2>. QED
      BY <1>8, <1>9, <2>1
<1>11. Between(n - j).mode = "body" /\ Between(n - j).left = n - j /\ Between(n - j) # Idle
  <2>1. Idle.left = 0
      BY BetweenState DEF Idle
  <2>. QED
      BY <1>8, <2>1, BetweenState
<1>12. b[i] = Between((n - j) - 1)
    BY <1>10, <1>11 DEF Moves
<1>. QED
    BY <1>5, <1>7, <1>8, <1>12

\* The head is complete and too long, or the app is to be found.
LEMMA EndKeeps ==
    ASSUME NEW b, HInv(b), EndTooLong \/ EndMatchesApp
    PROVE  Placed(b)'
<1>1. phase = "headers" /\ HTypes /\ Ordered
    BY DEF EndTooLong, EndMatchesApp, AtEnd, HInv, Placed
<1>2. CASE EndTooLong
    BY <1>1, <1>2, RefuseKeeps DEF EndTooLong, InputUnchanged
<1>3. CASE EndMatchesApp /\ phase' = "closed"
    BY <1>1, <1>3, ClosesKeeps DEF EndMatchesApp
<1>4. CASE EndMatchesApp /\ phase' # "closed"
  <2>1. /\ ~matched_app /\ saved' = whole /\ phase' \in {"match", "crashed"}
        /\ UNCHANGED <<sent, wire, whole, rest, req, post, partial_buf, content_length, host,
                       matched_app, out>>
      BY <1>4 DEF EndMatchesApp, parsing
  <2>2. Ordered'
      BY <1>1, <2>1 DEF Ordered, NoHeadCut
  <2>3. Framed(b)'
      BY <1>1, <2>1 DEF HInv, Placed, Framed, NoHeadCut, Parsed
  <2>. QED
      BY <2>1, <2>2, <2>3 DEF Placed, Buffers
<1>. QED
    BY <1>2, <1>3, <1>4

\* What was kept is parsed again from where it was parsed from.
LEMMA ConnectKeeps ==
    ASSUME NEW b, HInv(b), BackendConnectOk
    PROVE  Placed(b)'
<1>1. HTypes /\ Ordered
    BY DEF HInv, Placed
<1>2. /\ phase = "match" /\ matched_app' = TRUE /\ phase' = "line" /\ rest' = saved /\ req' = <<>>
      /\ UNCHANGED <<sent, wire, partial_buf, content_length, host, out>>
    BY DEF BackendConnectOk, HandleRequest
<1>3. ASSUME NoHeadCut'
      PROVE  NoHeadCut
    BY <1>2, <1>3 DEF NoHeadCut
<1>4. ASSUME NoHeadCut
      PROVE  ((out' \o req') \o rest') \o wire' = sent'
  <2>1. saved = req \o rest /\ ((out \o req) \o rest) \o wire = sent
      BY <1>1, <1>2, <1>4 DEF Ordered
  <2>2. out \o <<>> = out
      BY <1>1, ConcatEmptySeq DEF HTypes
  <2>3. out \o (req \o rest) = (out \o req) \o rest
    <3>1. PICK S, a, q, r : S = Tokens /\ a = out /\ q = req /\ r = rest
        OBVIOUS
    <3>2. a \in Seq(S) /\ q \in Seq(S) /\ r \in Seq(S)
        BY <1>1, <3>1 DEF HTypes
    <3>3. a \o (q \o r) = (a \o q) \o r
        BY <3>2, ConcatAssociative
    <3>. QED
        BY <3>1, <3>3
  <2>. QED
      BY <1>2, <2>1, <2>2, <2>3
<1>5. Ordered'
    BY <1>2, <1>3, <1>4 DEF Ordered
<1>6. Framed(b)'
    BY <1>2, <1>3 DEF HInv, Placed, Framed
<1>. QED
    BY <1>2, <1>5, <1>6 DEF Placed, Buffers

\* What is left has its places moved.
LEMMA DropIs ==
    ASSUME NEW S, NEW r \in Seq(S), NEW k \in Nat, k <= Len(r)
    PROVE  /\ Drop(r, k) \in Seq(S) /\ Len(Drop(r, k)) = Len(r) - k
           /\ \A i \in 1..Len(r) - k : Drop(r, k)[i] = r[k + i]
<1>1. Len(r) \in Nat /\ \A i \in 1..Len(r) : r[i] \in S
    BY LenProperties, ElementOfSeq
<1>2. k \in 0..Len(r)
    BY <1>1
<1>3. Drop(r, k) \in Seq(S) /\ Len(Drop(r, k)) = Len(r) - k
    BY <1>2, TakeDrop
<1>4. PICK l, j, y : l = Len(r) /\ j = k + 1 /\ y = SubSeq(r, j, l)
    OBVIOUS
<1>5. j \in Int /\ l \in Int /\ \A i \in j..l : r[i] \in S
    BY <1>1, <1>4
<1>6. \A i \in 1..l - j + 1 : y[i] = r[j + i - 1]
    BY <1>4, <1>5, SubSeqProperties
<1>7. l - j + 1 = l - k /\ \A i \in 1..l - k : j + i - 1 = k + i
    BY <1>1, <1>4
<1>8. \A i \in 1..l - k : y[i] = r[k + i]
    BY <1>6, <1>7
<1>. QED
    BY <1>3, <1>4, <1>8 DEF Drop

\* What is dropped in two steps.
LEMMA DropMore ==
    ASSUME NEW S, NEW r \in Seq(S), NEW m \in Nat, NEW n \in Nat, m + n <= Len(r)
    PROVE  Drop(Drop(r, m), n) = Drop(r, m + n)
<1>1. Len(r) \in Nat
    BY LenProperties
<1>2. PICK l, d, x, y : l = Len(r) /\ d = Drop(r, m) /\ x = Drop(d, n) /\ y = Drop(r, m + n)
    OBVIOUS
<1>3. d \in Seq(S) /\ Len(d) = l - m /\ \A i \in 1..l - m : d[i] = r[m + i]
  <2>1. m <= Len(r)
      BY <1>1
  <2>. QED
      BY <1>2, <2>1, DropIs
<1>4. x \in Seq(S) /\ Len(x) = (l - m) - n /\ \A i \in 1..(l - m) - n : x[i] = d[n + i]
  <2>1. n <= Len(d)
      BY <1>1, <1>2, <1>3
  <2>2. d \in Seq(S)
      BY <1>3
  <2>3. x \in Seq(S) /\ Len(x) = Len(d) - n /\ \A i \in 1..Len(d) - n : x[i] = d[n + i]
      BY <1>2, <2>1, <2>2, DropIs
  <2>. QED
      BY <1>3, <2>3
<1>5. /\ y \in Seq(S) /\ Len(y) = l - (m + n)
      /\ \A i \in 1..l - (m + n) : y[i] = r[(m + n) + i]
  <2>1. PICK k : k = m + n
      OBVIOUS
  <2>2. k \in Nat /\ k <= Len(r)
      BY <2>1
  <2>3. y \in Seq(S) /\ Len(y) = Len(r) - k /\ \A i \in 1..Len(r) - k : y[i] = r[k + i]
      BY <1>2, <2>1, <2>2, DropIs
  <2>. QED
      BY <1>2, <2>1, <2>3
<1>6. \A i \in 1..Len(x) : x[i] = y[i]
  <2>1. (l - m) - n = l - (m + n)
      BY <1>1, <1>2
  <2>2. \A i \in 1..(l - m) - n : n + i \in 1..l - m /\ m + (n + i) = (m + n) + i
      BY <1>1, <1>2
  <2>. QED
      BY <1>3, <1>4, <1>5, <2>1, <2>2
<1>7. Len(x) = Len(y)
    BY <1>1, <1>2, <1>4, <1>5
<1>8. x = y
    BY <1>4, <1>5, <1>6, <1>7, SeqEqual
<1>. QED
    BY <1>2, <1>8

\* A part of the buffer is forwarded.
LEMMA Forwards ==
    ASSUME NEW S, NEW a \in Seq(S), NEW r \in Seq(S), NEW n \in 0..Len(r)
    PROVE  /\ (a \o Take(r, n)) \o Drop(r, n) = a \o r
           /\ Len(a \o Take(r, n)) = Len(a) + n
<1>1. Shares(S, a, a, r, n)
    BY DEF Shares
<1>2. Moved(S, a, a, r, n)
    BY <1>1, MoveOver
<1>. QED
    BY <1>2, Zenon DEF Moved

\* The head is complete: it is forwarded, with what there is of the body.
LEMMA EndOfReqKeeps ==
    ASSUME NEW b, HInv(b), NoHeadCut, EndOfReq
    PROVE  Placed(b)'
<1>1. PICK S, a, q, p, l, after, paid :
         /\ S = Tokens /\ a = out \o req /\ q = Parsed /\ p = Len(out) /\ l = b[Parsed].left
         /\ after = Drop(rest, 1) /\ paid = Least(content_length, Len(after))
    OBVIOUS
<1>2. /\ phase = "headers" /\ rest # <<>> /\ rest[1].kind = "end" /\ matched_app
      /\ UNCHANGED <<sent, wire, whole, saved, matched_app, partial_buf>>
      /\ out' = a \o Take(rest, 1 + paid) /\ content_length' = content_length - paid
      /\ rest' = Drop(after, paid) /\ req' = <<>>
      /\ phase' = IF rest' = <<>> THEN "recv" ELSE "line"
    BY <1>1 DEF EndOfReq, AtEnd, InputUnchanged
<1>3. /\ out \in Seq(S) /\ req \in Seq(S) /\ rest \in Seq(S) /\ wire \in Seq(S)
      /\ content_length \in Nat
    BY <1>1 DEF HInv, HTypes
<1>4. /\ p \in Nat /\ q \in Nat /\ p < q /\ Len(rest) \in Nat /\ Len(rest) >= 1
      /\ Len(sent) \in Nat /\ q + Len(rest) <= Len(sent) /\ Run(sent, b)
      /\ (a \o rest) \o wire = sent
      /\ content_length # 0 => content_length = l
      /\ b[q].mode = "head" /\ (b[q].seen => content_length = l)
      /\ \A i \in 0..Len(sent) : b[i] \in State
      /\ Moves(b[q], rest[1], b[q + 1])
    BY <1>1, <1>2, HeadersAt
<1>5. b[q + 1] = Between(l) /\ content_length = l
  <2>1. (b[q].seen \/ b[q].left = 0) /\ b[q + 1] = Between(b[q].left)
    <3>1. b[q] # Idle
        BY <1>4, BetweenState DEF Idle
    <3>. QED
        BY <1>2, <1>4, <3>1 DEF Moves
  <2>2. l = b[q].left
      BY <1>1
  <2>. QED
      BY <1>4, <2>1, <2>2
<1>6. after \in Seq(S) /\ Len(after) = Len(rest) - 1 /\ Len(after) \in Nat
  <2>1. 1 \in 0..Len(rest)
      BY <1>4
  <2>. QED
      BY <1>1, <1>3, <1>4, <2>1, TakeDrop
<1>7. paid \in Nat /\ paid <= Len(after) /\ paid <= l /\ (paid = l \/ paid = Len(after))
  <2>1. PICK m : m = Len(after)
      OBVIOUS
  <2>2. m \in Nat /\ l \in Nat /\ paid = Least(l, m)
      BY <1>1, <1>3, <1>5, <1>6, <2>1
  <2>3. paid \in Nat /\ paid <= l /\ paid <= m /\ (paid = l \/ paid = m)
      BY <2>2, LeastOfTwo
  <2>. QED
      BY <2>1, <2>3
<1>8. 1 + paid \in 0..Len(rest) /\ l \in Nat
    BY <1>3, <1>4, <1>5, <1>6, <1>7
<1>9. rest' = Drop(rest, 1 + paid)
  <2>1. 1 + paid <= Len(rest)
      BY <1>4, <1>8
  <2>2. Drop(Drop(rest, 1), paid) = Drop(rest, 1 + paid)
      BY <1>3, <1>7, <2>1, DropMore
  <2>. QED
      BY <1>1, <1>2, <2>2
<1>10. out' \o rest' = a \o rest /\ Len(out') = (q + 1) + paid /\ out' \in Seq(S)
  <2>1. a \in Seq(S) /\ Len(a) = q
      BY <1>1, <1>3, ConcatProperties DEF Parsed
  <2>2. /\ (a \o Take(rest, 1 + paid)) \o Drop(rest, 1 + paid) = a \o rest
        /\ Len(a \o Take(rest, 1 + paid)) = Len(a) + (1 + paid)
      BY <1>3, <1>8, <2>1, Forwards
  <2>3. Take(rest, 1 + paid) \in Seq(S)
      BY <1>3, <1>8, TakeDrop
  <2>4. out' \in Seq(S)
      BY <1>2, <2>1, <2>3, ConcatProperties
  <2>5. q + (1 + paid) = (q + 1) + paid
      BY <1>4, <1>7
  <2>. QED
      BY <1>2, <1>9, <2>1, <2>2, <2>4, <2>5
<1>11. b[(q + 1) + paid] = Between(l - paid)
  <2>1. PICK j : j = q + 1
      OBVIOUS
  <2>2. j \in Nat /\ j + paid <= Len(sent) /\ Len(sent) \in Nat /\ Run(sent, b)
      BY <1>4, <1>6, <1>7, <2>1
  <2>3. b[j] = Between(l) /\ l \in Nat /\ paid \in Nat /\ paid <= l
      BY <1>5, <1>7, <1>8, <2>1
  <2>4. b[j + paid] = Between(l - paid)
      BY <2>2, <2>3, BodyAhead
  <2>. QED
      BY <2>1, <2>4
<1>12. Ordered'
  <2>1. out' \o req' = out'
      BY <1>2, <1>10, ConcatEmptySeq
  <2>2. ((out' \o req') \o rest') \o wire' = sent'
      BY <1>2, <1>4, <1>10, <2>1
  <2>. QED
      BY <1>2, <2>2 DEF Ordered
<1>13. phase' = "line" => content_length' = 0
  <2>1. paid = Len(after) => rest' = <<>>
      BY <1>2, <1>6, TakeAll
  <2>. QED
      BY <1>2, <1>5, <1>7, <2>1
<1>14. Framed(b)'
  <2>1. b[Len(out')] = Between(content_length')
      BY <1>2, <1>5, <1>10, <1>11
  <2>. QED
      BY <1>2, <1>13, <2>1 DEF Framed, Idle
<1>. QED
    BY <1>2, <1>12, <1>14 DEF Placed, Buffers

\* Nothing was kept: what is received is the next of the stream.
LEMMA RecvKeeps ==
    ASSUME NEW b, HInv(b), NoHeadCut, Recv
    PROVE  Placed(b)'
<1>1. /\ phase = "recv" /\ req = <<>> /\ rest = <<>> /\ HTypes /\ Ordered /\ Run(sent, b)
      /\ partial_buf = <<>> /\ UNCHANGED <<sent, host, saved, matched_app>>
    BY DEF HInv, Placed, Buffers, NoHeadCut, Recv
<1>2. PICK n \in 1..Len(wire) : HandleData(Take(wire, n)) /\ wire' = Drop(wire, n)
    BY DEF Recv
<1>3. PICK S, a, w, p, l, data, paid :
         /\ S = Tokens /\ a = out /\ w = wire /\ p = Len(out) /\ l = content_length
         /\ data = Take(wire, n) /\ paid = Least(Len(data), content_length)
    OBVIOUS
<1>4. a \in Seq(S) /\ w \in Seq(S) /\ l \in Nat /\ p \in Nat /\ Len(w) \in Nat /\ n \in 0..Len(w)
    BY <1>1, <1>3, LenProperties DEF HTypes
<1>5. data \in Seq(S) /\ Len(data) = n /\ data \o wire' = w
    BY <1>2, <1>3, <1>4, TakeDrop
<1>6. paid \in Nat /\ paid <= n /\ paid <= l /\ (paid = l \/ paid = n)
    BY <1>3, <1>4, <1>5, LeastOfTwo
<1>7. <<>> \o data = data
    BY <1>5, ConcatEmptySeq
<1>8. /\ out' = a \o Take(data, paid) /\ content_length' = l - paid
      /\ IF paid = Len(data) THEN UNCHANGED <<phase, parsing>>
         ELSE HandleRequest(Drop(data, paid))
    BY <1>1, <1>2, <1>3, <1>7 DEF HandleData
<1>9. /\ req' = <<>> /\ rest' = Drop(data, paid)
      /\ phase' = IF paid = n THEN "recv" ELSE "line"
      /\ phase' = "line" => whole' = rest'
      /\ phase' = "recv" => rest' = <<>>
  <2>1. CASE paid = Len(data)
    <3>1. Drop(data, paid) = <<>>
        BY <1>5, <2>1, TakeAll
    <3>. QED
        BY <1>1, <1>5, <1>8, <2>1, <3>1 DEF parsing
  <2>2. CASE paid # Len(data)
      BY <1>5, <1>8, <2>2 DEF HandleRequest
  <2>. QED
      BY <2>1, <2>2
<1>10. /\ out' \o rest' = a \o data /\ Len(out') = p + paid /\ out' \in Seq(S) /\ rest' \in Seq(S)
  <2>1. paid \in 0..Len(data)
      BY <1>4, <1>5, <1>6
  <2>2. /\ (a \o Take(data, paid)) \o Drop(data, paid) = a \o data
        /\ Len(a \o Take(data, paid)) = Len(a) + paid
      BY <1>4, <1>5, <2>1, Forwards
  <2>3. Take(data, paid) \in Seq(S) /\ Drop(data, paid) \in Seq(S)
      BY <1>5, <2>1, TakeDrop
  <2>4. a \o Take(data, paid) \in Seq(S)
      BY <1>4, <2>3, ConcatProperties
  <2>. QED
      BY <1>3, <1>8, <1>9, <2>2, <2>3, <2>4
<1>11. a \o w = sent
  <2>1. ((out \o req) \o rest) \o wire = sent
      BY <1>1 DEF Ordered
  <2>2. out \o <<>> = out
      BY <1>3, <1>4, ConcatEmptySeq
  <2>. QED
      BY <1>1, <1>3, <2>1, <2>2
<1>12. ((out' \o req') \o rest') \o wire' = sent'
  <2>1. out' \o req' = out'
      BY <1>9, <1>10, ConcatEmptySeq
  <2>2. (a \o data) \o wire' = a \o (data \o wire')
    <3>1. PICK d : d = wire'
        OBVIOUS
    <3>2. d \in Seq(S)
        BY <1>2, <1>3, <1>4, <3>1, TakeDrop
    <3>3. a \in Seq(S) /\ data \in Seq(S)
        BY <1>4, <1>5
    <3>4. (a \o data) \o d = a \o (data \o d)
        BY <3>2, <3>3, ConcatAssociative
    <3>. QED
        BY <3>1, <3>4
  <2>. QED
      BY <1>1, <1>5, <1>10, <1>11, <2>1, <2>2
<1>13. Ordered'
  <2>1. req' \o rest' = rest'
      BY <1>9, <1>10, ConcatEmptySeq
  <2>. QED
      BY <1>9, <1>12, <2>1 DEF Ordered
<1>14. Framed(b)'
  <2>1. p + paid <= Len(sent) /\ Len(sent) \in Nat
    <3>1. Len(a \o w) = Len(a) + Len(w)
        BY <1>4, ConcatProperties
    <3>. QED
        BY <1>3, <1>4, <1>6, <1>11, <3>1
  <2>2. b[p] = Between(l)
      BY <1>1, <1>3 DEF HInv, Placed, Framed
  <2>3. b[p + paid] = Between(l - paid)
      BY <1>1, <1>4, <1>6, <2>1, <2>2, BodyAhead
  <2>4. phase' = "line" => content_length' = 0
      BY <1>4, <1>6, <1>8, <1>9
  <2>5. b[Len(out')] = Between(content_length')
      BY <1>8, <1>10, <2>3
  <2>. QED
      BY <1>9, <2>4, <2>5 DEF Framed, Idle
<1>. QED
    BY <1>9, <1>13, <1>14 DEF Placed, Buffers

\* Once a head is cut, something is kept for ever.
LEMMA HeadCutKeeps ==
    ASSUME NEW b, HTypes, Buffers, ~NoHeadCut, [Next]_vars
    PROVE  Placed(b)'
<1>1. partial_buf # <<>>
    BY DEF NoHeadCut
<1>2. Recv => partial_buf' # <<>>
  <2>1. SUFFICES ASSUME Recv PROVE partial_buf' # <<>>
      OBVIOUS
  <2>2. PICK n \in 1..Len(wire) : HandleData(Take(wire, n)) /\ wire' = Drop(wire, n)
      BY <2>1 DEF Recv
  <2>3. PICK S, u, v : S = Tokens /\ u = partial_buf /\ v = Take(wire, n)
      OBVIOUS
  <2>4. u \in Seq(S) /\ v \in Seq(S)
    <3>1. wire \in Seq(S) /\ u \in Seq(S)
        BY <2>3 DEF HTypes
    <3>2. n \in 0..Len(wire)
        BY <3>1, LenProperties
    <3>. QED
        BY <2>3, <3>1, <3>2, TakeDrop
  <2>5. u \o v # <<>>
      BY <1>1, <2>3, <2>4, ConcatEqualIffEmpty
  <2>. QED
      BY <1>1, <2>2, <2>3, <2>5 DEF HandleData
<1>3. Partial => partial_buf' # <<>>
    BY <1>1 DEF Partial
<1>4. partial_buf' # <<>>
  <2>1. ParseRequestLine \/ PartialHeader => partial_buf' # <<>>
      BY <1>1, <1>3 DEF ParseRequestLine, PartialHeader, Refuse
  <2>2. OtherHeader \/ HostHeader \/ LengthHeader \/ BadHeader \/ EndTooLong => partial_buf' # <<>>
      BY <1>1 DEF OtherHeader, HostHeader, LengthHeader, BadHeader, EndTooLong, Refuse
  <2>3. EndMatchesApp \/ EndOfReq \/ BackendConnectOk \/ BackendConnectFail \/ UNCHANGED vars
           => partial_buf' # <<>>
      BY <1>1 DEF EndMatchesApp, EndOfReq, BackendConnectOk, BackendConnectFail, vars
  <2>. QED
      BY <1>2, <2>1, <2>2, <2>3 DEF Next
<1>5. Buffers'
  <2>1. CASE Recv
    <3>1. PICK n \in 1..Len(wire) : HandleData(Take(wire, n))
        BY <2>1 DEF Recv
    <3>2. \/ UNCHANGED <<phase, parsing>>
          \/ phase' = "line" /\ req' = <<>>
        BY <3>1 DEF HandleData, HandleRequest
    <3>. QED
        BY <3>2 DEF Buffers, parsing
  <2>2. CASE ParseRequestLine \/ PartialHeader
    <3>1. \/ rest' = <<>> /\ req' = <<>>
          \/ phase' \in {"headers", "closed"}
        BY <2>2 DEF ParseRequestLine, PartialHeader, Partial, Refuse
    <3>. QED
        BY <3>1 DEF Buffers
  <2>3. CASE OtherHeader \/ HostHeader \/ LengthHeader
      BY <2>3 DEF OtherHeader, HostHeader, LengthHeader, Buffers
  <2>4. CASE BadHeader \/ EndTooLong
      BY <2>4 DEF BadHeader, EndTooLong, Refuse, Buffers
  <2>5. CASE EndOfReq
      BY <2>5 DEF EndOfReq, Buffers
  <2>6. CASE EndMatchesApp
      BY <2>6 DEF EndMatchesApp, Buffers
  <2>7. CASE BackendConnectOk
      BY <2>7 DEF BackendConnectOk, HandleRequest, Buffers
  <2>8. CASE BackendConnectFail
      BY <2>8 DEF BackendConnectFail, Buffers
  <2>9. CASE UNCHANGED vars
      BY <2>9 DEF vars, parsing, Buffers
  <2>. QED
      BY <2>1, <2>2, <2>3, <2>4, <2>5, <2>6, <2>7, <2>8, <2>9 DEF Next
<1>. QED
    BY <1>4, <1>5 DEF Placed, Ordered, Framed, NoHeadCut

\* Every step keeps the frontend in the stream as long as no head has been cut,
LEMMA Placing ==
    ASSUME NEW b, HInv(b), NoHeadCut, [Next]_vars
    PROVE  Placed(b)'
<1>0. HTypes /\ Ordered /\ Placed(b)
    BY DEF HInv, Placed
<1>1. CASE Recv
    BY <1>1, RecvKeeps
<1>2. CASE ParseRequestLine
    BY <1>2, LineKeeps
<1>3. CASE PartialHeader
    BY <1>3, PartialKeeps DEF PartialHeader, InputUnchanged
<1>4. CASE OtherHeader \/ HostHeader \/ LengthHeader
    BY <1>4, HeaderKeeps
<1>5. CASE BadHeader
    BY <1>5, RefuseKeeps DEF BadHeader, InputUnchanged
<1>6. CASE EndTooLong \/ EndMatchesApp
    BY <1>6, EndKeeps
<1>7. CASE EndOfReq
    BY <1>7, EndOfReqKeeps
<1>8. CASE BackendConnectOk
    BY <1>8, ConnectKeeps
<1>9. CASE BackendConnectFail
    BY <1>0, <1>9, ClosesKeeps DEF BackendConnectFail
<1>10. CASE UNCHANGED vars
  <2>1. Buffers' /\ Ordered'
      BY <1>0, <1>10 DEF vars, parsing, Placed, Buffers, Ordered, NoHeadCut, Tokens
  <2>2. Framed(b)'
      BY <1>0, <1>10 DEF vars, parsing, Placed, Framed, NoHeadCut, Parsed
  <2>. QED
      BY <2>1, <2>2 DEF Placed
<1>. QED
    BY <1>1, <1>2, <1>3, <1>4, <1>5, <1>6, <1>7, <1>8, <1>9, <1>10 DEF Next

\* The run of the client is the same from the first state to the last.
InStream == \E b : HInv(b)

\* Before anything is received the frontend is at the start of the stream.
LEMMA InStreamFirst == ASSUME Init PROVE InStream
<1>1. Sent(sent, Idle, Idle)
    BY HttpStreamAssumption, StreamSent
<1>2. PICK b : Run(sent, b) /\ b[0] = Idle /\ b[Len(sent)] = Idle
    BY <1>1 DEF Sent
<1>3. sent \in Seq(Token) /\ sent \in Seq(Tokens)
    BY <1>1, TokensAre DEF Sent
<1>4. HTypes
    BY <1>3, EmptySeq DEF Init, HTypes, Phase
<1>5. Len(out) = 0
    BY EmptySeq DEF Init
<1>6. ((out \o req) \o rest) \o wire = sent
  <2>1. <<>> \o <<>> = <<>> /\ <<>> \o sent = sent
      BY <1>3, ConcatEmptySeq, EmptySeq
  <2>. QED
      BY <2>1 DEF Init
<1>7. Placed(b)
    BY <1>2, <1>5, <1>6 DEF Init, Placed, Buffers, Ordered, Framed, Idle
<1>. QED
    BY <1>2, <1>4, <1>7 DEF InStream, HInv

\* Every step keeps it in the stream.
LEMMA InStreamStep == ASSUME InStream, [Next]_vars PROVE InStream'
<1>1. PICK b : HInv(b)
    BY DEF InStream
<1>2. HTypes /\ Buffers
    BY <1>1 DEF HInv, Placed
<1>3. HTypes'
    BY <1>2, TypesStep
<1>4. Placed(b)'
    BY <1>1, <1>2, Placing, HeadCutKeeps
<1>5. sent' = sent
  <2>1. Recv \/ EndMatchesApp \/ BackendConnectOk \/ BackendConnectFail \/ UNCHANGED vars
           => sent' = sent
      BY DEF Recv, EndMatchesApp, BackendConnectOk, BackendConnectFail, vars
  <2>2. ParseRequestLine \/ PartialHeader => sent' = sent
      BY DEF ParseRequestLine, PartialHeader, InputUnchanged
  <2>3. OtherHeader \/ HostHeader \/ LengthHeader \/ BadHeader => sent' = sent
      BY DEF OtherHeader, HostHeader, LengthHeader, BadHeader, InputUnchanged
  <2>4. EndTooLong \/ EndOfReq => sent' = sent
      BY DEF EndTooLong, EndOfReq, InputUnchanged
  <2>. QED
      BY <2>1, <2>2, <2>3, <2>4 DEF Next
<1>6. (Run(sent, b) /\ b[Len(sent)] = Idle)'
    BY <1>1, <1>5 DEF HInv
<1>. QED
    BY <1>3, <1>4, <1>6 DEF InStream, HInv

\* The inductive invariant.
LEMMA InStreamAlways == Spec => []InStream
<1>. QED
    BY InStreamFirst, InStreamStep, PTL DEF Spec

\* What follows from it: the types,
LEMMA TypesFollow == ASSUME InStream PROVE TypeOK
<1>1. HTypes
    BY DEF InStream, HInv
<1>2. ASSUME NEW s \in {wire, whole, rest, req, partial_buf, saved, out}, NEW i \in DOMAIN s
      PROVE  s[i] \in Tokens
  <2>1. PICK S : S = Tokens
      OBVIOUS
  <2>2. s \in Seq(S)
      BY <1>1, <2>1 DEF HTypes
  <2>3. i \in 1..Len(s)
      BY <2>2, LenProperties
  <2>. QED
      BY <2>1, <2>2, <2>3, ElementOfSeq
<1>. QED
    BY <1>1, <1>2 DEF HTypes, TypeOK

\* the order,
LEMMA OrderFollows == ASSUME InStream PROVE InOrderUncut
<1>1. HTypes /\ Ordered
    BY DEF InStream, HInv, Placed
<1>2. SUFFICES ASSUME NoHeadCut PROVE IsPrefix(out, sent)
    BY DEF InOrderUncut, InOrder
<1>3. PICK S, a, q, r, w : S = Tokens /\ a = out /\ q = req /\ r = rest /\ w = wire
    OBVIOUS
<1>4. Parts(S, a, q, r, w) /\ a \in Seq(S)
    BY <1>1, <1>3 DEF HTypes, Parts
<1>5. \E t \in Seq(S) : a \o t = sent
  <2>1. CASE phase = "closed"
      BY <1>1, <1>2, <1>3, <2>1 DEF Ordered
  <2>2. CASE phase # "closed"
    <3>1. ((a \o q) \o r) \o w = sent
        BY <1>1, <1>2, <1>3, <2>2 DEF Ordered
    <3>2. Parted(S, a, q, r, w)
        BY <1>4, FourParts
    <3>3. q \o (r \o w) \in Seq(S) /\ a \o (q \o (r \o w)) = ((a \o q) \o r) \o w
        BY <3>2, Zenon DEF Parted
    <3>. QED
        BY <3>1, <3>3
  <2>. QED
      BY <2>1, <2>2
<1>. QED
    BY <1>3, <1>4, <1>5, FirstPart

\* that nothing is held back,
LEMMA AllFollows == ASSUME InStream PROVE AllForwarded
<1>1. PICK b : HInv(b)
    BY DEF InStream
<1>2. SUFFICES ASSUME NoHeadCut, phase = "recv", wire = <<>> PROVE out = sent /\ content_length = 0
    BY DEF AllForwarded
<1>3. /\ req = <<>> /\ rest = <<>> /\ ((out \o req) \o rest) \o wire = sent
      /\ b[Len(out)] = Between(content_length) /\ b[Len(sent)] = Idle
      /\ out \in Seq(Tokens) /\ content_length \in Nat
    BY <1>1, <1>2 DEF HInv, HTypes, Placed, Buffers, Ordered, Framed
<1>4. out = sent
  <2>1. out \o <<>> = out
      BY <1>3, ConcatEmptySeq
  <2>. QED
      BY <1>2, <1>3, <2>1
<1>5. content_length = 0
    BY <1>3, <1>4, BetweenState DEF Idle
<1>. QED
    BY <1>4, <1>5

\* and that bodies are counted as bodies.
LEMMA SynchronyFollows == ASSUME InStream PROVE Synchronised
<1>1. PICK b : HInv(b)
    BY DEF InStream
<1>2. SUFFICES ASSUME NoHeadCut
               PROVE  /\ phase \in {"line", "headers"} /\ rest # <<>> => rest[1].kind # "body"
                      /\ phase = "recv" /\ wire # <<>> =>
                            (content_length > 0 <=> wire[1].kind = "body")
    BY DEF Synchronised
<1>3. /\ HTypes /\ Run(sent, b) /\ Buffers
      /\ phase # "closed" => ((out \o req) \o rest) \o wire = sent
    BY <1>1, <1>2 DEF HInv, Placed, Ordered
<1>4. Idle.mode = "body" /\ Idle.left = 0
    BY BetweenState DEF Idle
<1>5. ASSUME phase = "headers", rest # <<>>
      PROVE  rest[1].kind # "body"
  <2>1. Moves(b[Parsed], rest[1], b[Parsed + 1]) /\ b[Parsed].mode = "head"
      BY <1>1, <1>2, <1>5, HeadersAt
  <2>. QED
      BY <2>1 DEF Moves
<1>6. ASSUME phase = "line", rest # <<>>
      PROVE  rest[1].kind # "body"
  <2>1. PICK p : p = Parsed
      OBVIOUS
  <2>2. /\ p \in Nat /\ Len(out) \in Nat /\ Len(rest) \in Nat
        /\ \A i \in 1..Len(rest) : Moves(b[(p + i) - 1], rest[i], b[p + i])
      BY <1>3, <1>6, <2>1, Ahead
  <2>3. Len(out) = p /\ Len(rest) >= 1
      BY <1>3, <1>6, <2>1, <2>2, EmptySeq DEF HTypes, Buffers, Parsed
  <2>4. b[p] = Idle
      BY <1>1, <1>2, <1>6, <2>3 DEF HInv, Placed, Framed
  <2>5. Moves(b[p], rest[1], b[p + 1])
    <3>1. 1 \in 1..Len(rest) /\ (p + 1) - 1 = p
        BY <2>2, <2>3
    <3>. QED
        BY <2>2, <3>1
  <2>. QED
      BY <1>4, <2>4, <2>5 DEF Moves
<1>7. ASSUME phase = "recv", wire # <<>>
      PROVE  content_length > 0 <=> wire[1].kind = "body"
  <2>1. PICK S, a, w, p, c : S = Tokens /\ a = out /\ w = wire /\ p = Len(out) /\ c = content_length
      OBVIOUS
  <2>2. a \in Seq(S) /\ w \in Seq(S) /\ w # <<>> /\ c \in Nat
      BY <1>3, <1>7, <2>1 DEF HTypes
  <2>3. a \o w = sent
    <3>1. out \o <<>> = out
        BY <2>1, <2>2, ConcatEmptySeq
    <3>. QED
        BY <1>3, <1>7, <2>1, <3>1 DEF Buffers
  <2>4. p \in Nat /\ p + 1 \in 1..Len(sent) /\ sent[p + 1] = w[1] /\ (p + 1) - 1 = p
    <3>1. Len(a) \in Nat /\ Len(w) \in Nat /\ Len(w) >= 1 /\ Len(a \o w) = Len(a) + Len(w)
          /\ (a \o w)[Len(a) + 1] = w[1]
        BY <2>2, NextOfParts
    <3>. QED
        BY <2>1, <2>3, <3>1
  <2>5. Moves(b[p], w[1], b[p + 1])
    <3>1. Moves(b[(p + 1) - 1], sent[p + 1], b[p + 1])
        BY <1>3, <2>4 DEF Run
    <3>. QED
        BY <2>4, <3>1
  <2>6. b[p] = Between(c) /\ Between(c).mode = "body" /\ Between(c).left = c
      BY <1>1, <1>2, <1>7, <2>1, <2>2, BetweenState DEF HInv, Placed, Framed
  <2>7. c > 0 <=> w[1].kind = "body"
    <3>1. CASE c = 0
        BY <2>5, <2>6, <3>1 DEF Moves
    <3>2. CASE c > 0
      <4>1. Between(c) # Idle
          BY <1>4, <2>6, <3>2
      <4>. QED
          BY <2>5, <2>6, <3>2, <4>1 DEF Moves
    <3>. QED
        BY <2>2, <3>1, <3>2
  <2>. QED
      BY <2>1, <2>7
<1>. QED
    BY <1>5, <1>6, <1>7

----------------------------------------------------------------------------
(* The theorems                                                            *)

\* Whatever the bodies, the number of requests and the limit of a request: the variables keep
\* their types, and no byte is made up: what the frontend keeps, parses and forwards are bytes
\* its client sent (but for the one byte after what was received that handle_partial_req keeps).
THEOREM StreamTypes == Spec => []TypeOK
<1>. QED
    BY InStreamAlways, TypesFollow, PTL

\* a_complete_req and handle_data: as long as no segment has ended inside the head of a
\* request, the backend gets a prefix of the client's stream, whatever the segments are.
THEOREM ForwardedInOrder == Spec => []InOrderUncut
<1>. QED
    BY InStreamAlways, OrderFollows, PTL

\* And nothing of it is held back once all is received and parsed.
THEOREM AllIsForwarded == Spec => []AllForwarded
<1>. QED
    BY InStreamAlways, AllFollows, PTL

\* content_length counts the bytes of a body that are still to come, and nothing else: the
\* parser never starts a request in a body, and no byte of a head is forwarded unparsed.
THEOREM FramingInStep == Spec => []Synchronised
<1>. QED
    BY InStreamAlways, SynchronyFollows, PTL
============================================================================
