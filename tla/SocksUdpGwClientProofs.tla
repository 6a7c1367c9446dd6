----------------------- MODULE SocksUdpGwClientProofs -----------------------
(***************************************************************************)
(* Every job of the device keeps the invariant of the UDP relay: packets   *)
(* are submitted, connections made and evicted only while no job of a      *)
(* connection is pending, so that the table is seen between two complete   *)
(* steps. With that the properties of the relay hold for every number of   *)
(* connections, every set of addresses and every size of the buffers.      *)
(***************************************************************************)
EXTENDS SocksUdpGwClientJobs

-----------------------------------------------------------------------------
(* The list of connections. *)

\* The sequence r of length n is q with the element at i moved to the end.
Moved(q, r, n, i) ==
    \A k \in 1..n : r[k] = IF k < i THEN q[k] ELSE IF k < n THEN q[k + 1] ELSE q[i]

\* Such an r holds what q holds, without repetition.
LEMMA MovedSame ==
    ASSUME NEW S, NEW q \in Seq(S), NEW r \in Seq(S), NEW n \in Nat, Len(q) = n, Len(r) = n,
           NEW i \in 1..n, Moved(q, r, n, i), Distinct(q)
    PROVE  Same(q, r)
<1>1. ASSUME NEW j \in 1..n, NEW k \in 1..n, r[j] = r[k] PROVE j = k
  <2>1. \A x, y \in 1..n : q[x] = q[y] => x = y
    BY DEF Distinct
  <2>2. PICK x \in 1..n : x = IF j < i THEN j ELSE IF j < n THEN j + 1 ELSE i
    OBVIOUS
  <2>3. PICK y \in 1..n : y = IF k < i THEN k ELSE IF k < n THEN k + 1 ELSE i
    OBVIOUS
  <2>4. r[j] = q[x] /\ r[k] = q[y]
    BY <2>2, <2>3 DEF Moved
  <2>5. x = y
    BY <1>1, <2>1, <2>4, Zenon
  <2> QED
    BY <2>2, <2>3, <2>5
<1>2. ASSUME NEW k \in 1..n PROVE \E x \in 1..n : r[k] = q[x]
  <2>1. PICK x \in 1..n : x = IF k < i THEN k ELSE IF k < n THEN k + 1 ELSE i
    OBVIOUS
  <2> QED
    BY <2>1 DEF Moved
<1>3. ASSUME NEW x \in 1..n PROVE \E k \in 1..n : r[k] = q[x]
  <2>1. PICK k \in 1..n : k = IF x < i THEN x ELSE IF x = i THEN n ELSE x - 1
    OBVIOUS
  <2>2. x = IF k < i THEN k ELSE IF k < n THEN k + 1 ELSE i
    BY <2>1
  <2> QED
    BY <2>2, Zenon DEF Moved
<1>4. Distinct(r)
  BY <1>1 DEF Distinct
<1>5. DOMAIN q = 1..n /\ DOMAIN r = 1..n
  BY LenProperties
<1>6. Rng(r) \subseteq Rng(q)
  BY ZenonT(30), <1>2, <1>5 DEF Rng
<1>7. Rng(q) \subseteq Rng(r)
  BY <1>3, <1>5, Zenon DEF Rng
<1> QED
  BY <1>4, <1>6, <1>7, Zenon DEF Same

\* A sequence cut at i, joined without it and with it at the end.
LEMMA MovedCut ==
    ASSUME NEW S, NEW q, NEW n \in Nat, NEW i \in 1..n, \A k \in 1..n : q[k] \in S,
           NEW r, r = Append(SubSeq(q, 1, i - 1) \o SubSeq(q, i + 1, n), q[i])
    PROVE  r \in Seq(S) /\ Len(r) = n /\ Moved(q, r, n, i)
<1>1. PICK a, b, ab : a = SubSeq(q, 1, i - 1) /\ b = SubSeq(q, i + 1, n) /\ ab = a \o b
  BY Zenon
<1>2. a \in Seq(S) /\ Len(a) = i - 1 /\ \A k \in 1..(i - 1) : a[k] = q[k]
  <2>1. \A k \in 1..(i - 1) : q[k] \in S
    OBVIOUS
  <2>2. /\ a \in Seq(S) /\ Len(a) = IF 1 <= i - 1 THEN (i - 1) - 1 + 1 ELSE 0
        /\ \A k \in 1..((i - 1) - 1 + 1) : a[k] = q[1 + k - 1]
    BY <1>1, <2>1, SubSeqProperties
  <2> QED
    BY <2>2
<1>3. b \in Seq(S) /\ Len(b) = n - i /\ \A k \in 1..(n - i) : b[k] = q[k + i]
  <2>1. \A k \in (i + 1)..n : q[k] \in S
    OBVIOUS
  <2>2. /\ b \in Seq(S) /\ Len(b) = IF i + 1 <= n THEN n - (i + 1) + 1 ELSE 0
        /\ \A k \in 1..(n - (i + 1) + 1) : b[k] = q[i + 1 + k - 1]
    BY <1>1, <2>1, SubSeqProperties
  <2> QED
    BY <2>2
<1>4. /\ ab \in Seq(S) /\ Len(ab) = (i - 1) + (n - i)
      /\ \A k \in 1..((i - 1) + (n - i)) : ab[k] = IF k <= i - 1 THEN a[k] ELSE b[k - (i - 1)]
  <2>1. /\ ab \in Seq(S) /\ Len(ab) = Len(a) + Len(b)
        /\ \A k \in 1..(Len(a) + Len(b)) : ab[k] = IF k <= Len(a) THEN a[k] ELSE b[k - Len(a)]
    BY <1>1, <1>2, <1>3, ConcatProperties
  <2>2. Len(a) = i - 1 /\ Len(b) = n - i
    BY <1>2, <1>3
  <2> QED
    BY <2>1, <2>2
<1>5. Len(ab) = n - 1 /\ \A k \in 1..(n - 1) : ab[k] = IF k < i THEN q[k] ELSE q[k + 1]
  <2> SUFFICES ASSUME NEW k \in 1..(n - 1) PROVE ab[k] = IF k < i THEN q[k] ELSE q[k + 1]
    BY <1>4
  <2>1. CASE k < i
    BY <1>2, <1>4, <2>1
  <2>2. CASE k >= i
    <3>1. k - (i - 1) \in 1..(n - i) /\ k - (i - 1) + i = k + 1
      BY <2>2
    <3>2. ab[k] = b[k - (i - 1)]
      BY <1>4, <2>2
    <3> QED
      BY <1>3, <2>2, <3>1, <3>2
  <2> QED
    BY <2>1, <2>2
<1>6. /\ r \in Seq(S) /\ Len(r) = n
      /\ \A k \in 1..(n - 1) : r[k] = ab[k]
      /\ r[n] = q[i]
  <2>1. PICK x \in S : x = q[i] /\ r = Append(ab, x)
    BY <1>1, SMTT(30), Z3T(30)
  <2>2. ab \in Seq(S)
    BY <1>4
  <2>3. /\ Append(ab, x) \in Seq(S) /\ Len(Append(ab, x)) = Len(ab) + 1
        /\ \A k \in 1..Len(ab) : Append(ab, x)[k] = ab[k]
        /\ Append(ab, x)[Len(ab) + 1] = x
    BY <2>2, AppendProperties
  <2>4. Len(ab) = n - 1 /\ Len(ab) + 1 = n
    BY <1>5
  <2> QED
    BY <2>1, <2>3, <2>4, Zenon
<1>7. ASSUME NEW k \in 1..n
      PROVE  r[k] = IF k < i THEN q[k] ELSE IF k < n THEN q[k + 1] ELSE q[i]
  <2>1. CASE k < n
    <3>1. k \in 1..(n - 1)
      BY <2>1
    <3>2. r[k] = ab[k] /\ ab[k] = IF k < i THEN q[k] ELSE q[k + 1]
      BY <1>5, <1>6, <3>1
    <3> QED
      BY <2>1, <3>2
  <2>2. CASE k = n
    BY <1>6, <2>2
  <2> QED
    BY <2>1, <2>2
<1> QED
  BY <1>6, <1>7, Zenon DEF Moved

\* Moving an element of a list to its end changes neither what it holds nor its
\* length.
LEMMA MoveToEnd ==
    ASSUME NEW S, NEW q \in Seq(S), Distinct(q), NEW i \in DOMAIN q, NEW r,
           r = Append(SubSeq(q, 1, i - 1) \o SubSeq(q, i + 1, Len(q)), q[i])
    PROVE  r \in Seq(S) /\ Len(r) = Len(q) /\ Distinct(r) /\ Rng(r) = Rng(q)
<1>1. PICK n \in Nat : n = Len(q) /\ DOMAIN q = 1..n /\ \A k \in 1..n : q[k] \in S
  BY LenProperties
<1>2. PICK j \in 1..n : j = i
  BY <1>1
<1>3. r = Append(SubSeq(q, 1, j - 1) \o SubSeq(q, j + 1, n), q[j])
  BY <1>1, <1>2
<1>4. \A k \in 1..n : q[k] \in S
  BY <1>1
<1>5. r \in Seq(S) /\ Len(r) = n /\ Moved(q, r, n, j)
  BY <1>3, <1>4, MovedCut, Zenon
<1>6. Distinct(r) /\ Rng(r) = Rng(q)
  <2>1. Len(q) = n
    BY <1>1
  <2>2. r \in Seq(S)
    BY <1>5, Zenon
  <2>3. Len(r) = n
    BY <1>5
  <2>4. Moved(q, r, n, j)
    BY <1>5
  <2>5. Same(q, r)
    BY <2>1, <2>2, <2>3, <2>4, MovedSame, Zenon
  <2> QED
    BY <2>5 DEF Same
<1> QED
  BY <1>1, <1>5, <1>6

\* A new element at the end of a list.
LEMMA RngAppend ==
    ASSUME NEW S, NEW q \in Seq(S), NEW x \in S, x \notin Rng(q), Distinct(q)
    PROVE  /\ Append(q, x) \in Seq(S) /\ Len(Append(q, x)) = Len(q) + 1
           /\ Distinct(Append(q, x)) /\ Rng(Append(q, x)) = Rng(q) \cup {x}
<1>1. Distinct(Append(q, x))
  BY DEF Distinct, Rng
<1>2. \A i \in DOMAIN q : i \in DOMAIN Append(q, x) /\ Append(q, x)[i] = q[i]
  OBVIOUS
<1>3. Len(q) + 1 \in DOMAIN Append(q, x) /\ Append(q, x)[Len(q) + 1] = x
  OBVIOUS
<1>4. Rng(Append(q, x)) \subseteq Rng(q) \cup {x}
  BY DEF Rng
<1>5. Rng(q) \cup {x} \subseteq Rng(Append(q, x))
  BY <1>2, <1>3 DEF Rng
<1> QED
  BY <1>1, <1>4, <1>5

-----------------------------------------------------------------------------
(* The table, between the jobs of the device, when no connection has a job. *)

Live(cs) == {c \in Con : cs[c] /= Freed}

Table(cs, l, n, f) ==
    /\ cs \in [Con -> Connection \cup {Freed}]
    /\ l \in Seq(Con) /\ Distinct(l) /\ Rng(l) = Live(cs) /\ IsFiniteSet(Live(cs))
    /\ n = Len(l) /\ n = Cardinality(Live(cs)) /\ n = f /\ n <= max_connections
    /\ \A c, d \in Live(cs) : cs[c].local = cs[d].local => c = d
    /\ \A c \in Live(cs) : ConInv(cs[c], {}) /\ cs[c].first = <<>>

\* That is so when the invariant holds and no job of a connection is pending.
LEMMA TableNow ==
    ASSUME RelayInv, \A c \in Con : Pend(jobs, c) = {},
           jobs /= <<>> => Head(jobs).job \notin {"first", "recv", "writer_recv"}
    PROVE  Table(cons, list, num, fds)
<1>1. \A c \in live : cons[c].first = <<>>
  BY NoFirst
<1>2. live = Live(cons)
  BY DEF live, Live
<1>3. \A c \in live : ConInv(cons[c], {})
  BY DEF RelayInv, ConsInv, live
<1> QED
  BY <1>1, <1>2, <1>3, Zenon DEF Table, RelayInv, TypeOK, TableInv

\* A step that leaves the table in order and no job of a connection.
LEMMA TableKept ==
    ASSUME Table(cons', list', num', fds'),
           dev' \in [state : {"idle", "waiting", "closed"}, data : {0, 1}],
           Good(jobs'), \A c \in Con : Pend(jobs', c) = {},
           dev'.state = "idle" <=> Bottom(jobs')
    PROVE  RelayInv'
<1>1. live' = Live(cons')
  BY DEF live, Live
<1>2. num' \in Nat /\ fds' \in Nat
  <2>1. list' \in Seq(Con) /\ num' = Len(list') /\ fds' = num'
    BY DEF Table
  <2>2. Len(list') \in Nat
    BY <2>1, LenProperties
  <2> QED
    BY <2>1, <2>2
<1>3. TypeOK'
  BY <1>2 DEF TypeOK, Table, Good
<1>4. ConsInv' /\ FirstJobInv'
  <2>1. \A c \in live' : ConInv(cons'[c], {}) /\ cons'[c].first = <<>> /\ c \in Con
    BY <1>1 DEF Table, Live
  <2>2. ConsInv'
    BY <2>1, SMTT(30), Z3T(30) DEF ConsInv
  <2>3. FirstJobInv'
    BY <2>1 DEF FirstJobInv
  <2> QED
    BY <2>2, <2>3
<1>5. StackInv'
  BY DEF StackInv
<1>6. TableInv'
  BY <1>1, Zenon DEF TableInv, Table
<1> QED
  BY <1>3, <1>4, <1>5, <1>6 DEF RelayInv

\* remove_lru_connection leaves the table in order.
LEMMA TableEvict ==
    ASSUME NEW cs, NEW l, NEW n, NEW f, Table(cs, l, n, f), n = max_connections
    PROVE  /\ Table([cs EXCEPT ![l[1]] = Freed], Tail(l), n - 1, f - 1)
           /\ n - 1 < max_connections /\ l[1] \in Con
<1>1. PICK e, cs2 : e = l[1] /\ cs2 = [cs EXCEPT ![e] = Freed]
  BY Zenon
<1>2. /\ cs \in [Con -> Connection \cup {Freed}]
      /\ l \in Seq(Con) /\ Distinct(l) /\ Rng(l) = Live(cs) /\ IsFiniteSet(Live(cs))
      /\ n = Len(l) /\ n = Cardinality(Live(cs)) /\ n = f
  BY DEF Table
<1>3. n \in Nat /\ n >= 1 /\ l /= <<>>
  <2>1. n \in Nat \ {0} /\ l \in Seq(Con) /\ n = Len(l)
    BY <1>2, RelayAssumption
  <2> QED
    BY <2>1, LenZero
<1>4. e \in Con /\ e \in Live(cs) /\ e = Head(l)
  BY <1>1, <1>2, <1>3, SMTT(30), Z3T(30) DEF Rng
<1>5. /\ cs2 \in [Con -> Connection \cup {Freed}] /\ Live(cs2) = Live(cs) \ {e}
      /\ \A c \in Live(cs2) : cs2[c] = cs[c]
  BY <1>1, <1>2, <1>4 DEF Live
<1>6. Tail(l) \in Seq(Con) /\ Distinct(Tail(l)) /\ Rng(Tail(l)) = Live(cs2) /\ Len(Tail(l)) = n - 1
  <2>1. Distinct(Tail(l)) /\ Rng(Tail(l)) = Live(cs2)
    BY <1>2, <1>3, <1>4, <1>5, RngTail, SMTT(30), Z3T(30)
  <2>2. Tail(l) \in Seq(Con) /\ Len(Tail(l)) = Len(l) - 1
    BY <1>2, <1>3, HeadTailProperties, Zenon
  <2> QED
    BY <1>2, <2>1, <2>2
<1>7. IsFiniteSet(Live(cs2)) /\ Cardinality(Live(cs2)) = n - 1
  <2>1. IsFiniteSet(Live(cs) \ {e}) /\ Cardinality(Live(cs) \ {e}) = Cardinality(Live(cs)) - 1
    BY <1>2, <1>4, FS_RemoveElement, Zenon
  <2> QED
    BY <1>2, <1>5, <2>1
<1>8. n - 1 <= max_connections /\ n - 1 < max_connections
  BY <1>3, RelayAssumption
<1>9. /\ \A c, d \in Live(cs2) : cs2[c].local = cs2[d].local => c = d
      /\ \A c \in Live(cs2) : ConInv(cs2[c], {}) /\ cs2[c].first = <<>>
  BY <1>5 DEF Table
<1>10. n - 1 = f - 1
  BY <1>2
<1> QED
  BY <1>1, <1>4, <1>5, <1>6, <1>7, <1>8, <1>9, <1>10, Zenon DEF Table

\* A push in front of a stack written out, by its length.
LEMMA Push1 ==
    ASSUME NEW S, NEW a \in S, NEW b \in S
    PROVE  <<a>> \o <<b>> = <<a, b>>
<1>1. <<a>> \o <<b>> \in Seq(S) /\ <<a, b>> \in Seq(S)
  OBVIOUS
<1>2. Len(<<a>> \o <<b>>) = 2 /\ Len(<<a, b>>) = 2
  OBVIOUS
<1>3. \A i \in 1..2 : (<<a>> \o <<b>>)[i] = <<a, b>>[i]
  <2>1. (<<a>> \o <<b>>)[1] = a /\ (<<a>> \o <<b>>)[2] = b
    OBVIOUS
  <2>2. <<a, b>>[1] = a /\ <<a, b>>[2] = b
    OBVIOUS
  <2> QED
    BY <2>1, <2>2
<1> QED
  BY <1>1, <1>2, <1>3, SeqEqual, Zenon

\* The same with two jobs on it.
LEMMA Push2 ==
    ASSUME NEW S, NEW a \in S, NEW b \in S, NEW c \in S
    PROVE  <<a>> \o <<b, c>> = <<a, b, c>>
<1>1. <<a>> \o <<b, c>> \in Seq(S) /\ <<a, b, c>> \in Seq(S)
  OBVIOUS
<1>2. Len(<<a>> \o <<b, c>>) = 3 /\ Len(<<a, b, c>>) = 3
  OBVIOUS
<1>3. \A i \in 1..3 : (<<a>> \o <<b, c>>)[i] = <<a, b, c>>[i]
  <2>1. (<<a>> \o <<b, c>>)[1] = a /\ (<<a>> \o <<b, c>>)[2] = b /\ (<<a>> \o <<b, c>>)[3] = c
    OBVIOUS
  <2> QED
    BY <2>1
<1> QED
  BY <1>1, <1>2, <1>3, SeqEqual, Zenon

\* And with three.
LEMMA Push3 ==
    ASSUME NEW S, NEW a \in S, NEW b \in S, NEW c \in S, NEW d \in S
    PROVE  <<a>> \o <<b, c, d>> = <<a, b, c, d>>
<1>1. <<a>> \o <<b, c, d>> \in Seq(S) /\ <<a, b, c, d>> \in Seq(S)
  OBVIOUS
<1>2. Len(<<a>> \o <<b, c, d>>) = 4 /\ Len(<<a, b, c, d>>) = 4
  OBVIOUS
<1>3. \A i \in 1..4 : (<<a>> \o <<b, c, d>>)[i] = <<a, b, c, d>>[i]
  <2>1. /\ (<<a>> \o <<b, c, d>>)[1] = a /\ (<<a>> \o <<b, c, d>>)[2] = b
        /\ (<<a>> \o <<b, c, d>>)[3] = c /\ (<<a>> \o <<b, c, d>>)[4] = d
    OBVIOUS
  <2> QED
    BY <2>1
<1> QED
  BY <1>1, <1>2, <1>3, SeqEqual, Zenon

\* Three pushes.
LEMMA Pushed ==
    ASSUME NEW j1, NEW j2, NEW j3, NEW j4
    PROVE  <<j1>> \o (<<j2>> \o (<<j3>> \o <<j4>>)) = <<j1, j2, j3, j4>>
<1>1. PICK S : S = {j1, j2, j3, j4}
  BY Zenon
<1>2. j1 \in S /\ j2 \in S /\ j3 \in S /\ j4 \in S
  BY <1>1
<1>3. <<j3>> \o <<j4>> = <<j3, j4>>
  BY <1>2, Push1
<1>4. <<j2>> \o <<j3, j4>> = <<j2, j3, j4>>
  BY <1>2, Push2
<1>5. <<j1>> \o <<j2, j3, j4>> = <<j1, j2, j3, j4>>
  BY <1>2, Push3
<1> QED
  BY <1>3, <1>4, <1>5, Zenon

\* What connection_init leaves to be done.
LEMMA NewJobs ==
    ASSUME NEW c \in Con, NEW q, q = <<DevJob("dev_done")>>
    PROVE  /\ InitJobs(q, c) \in FirstStack(c)
           /\ Stack(q, InitJobs(q, c), c, {"first", "writer_recv", "recv"})
           /\ Bottom(q) /\ \A d \in Con : Pend(q, d) = {}
<1>1. Good(q) /\ Bottom(q) /\ \A d \in Con : Pend(q, d) = {}
  BY DeviceSet DEF DevJobs
<1>2. PICK q1, q2, q3 : /\ q1 = BPending_Set(q, ConJob("first", c))
                        /\ q2 = BPending_Set(q1, ConJob("writer_recv", c))
                        /\ q3 = BPending_Set(q2, ConJob("recv", c))
  OBVIOUS
<1>3. Stack(q, q, c, {})
  BY SMTT(30), Z3T(30), <1>1 DEF Stack
<1>4. Stack(q, q1, c, {} \cup {"first"})
  BY ZenonT(30), <1>2, <1>3, StackSet DEF ConJobs
<1>5. Stack(q, q2, c, {} \cup {"first"} \cup {"writer_recv"})
  BY ZenonT(30), <1>2, <1>4, StackSet DEF ConJobs
<1>6. Stack(q, q3, c, {} \cup {"first"} \cup {"writer_recv"} \cup {"recv"})
  BY <1>2, <1>5, StackSet, Zenon DEF ConJobs
<1>7. Stack(q, q3, c, {"first", "writer_recv", "recv"})
  <2>1. {} \cup {"first"} \cup {"writer_recv"} \cup {"recv"} = {"first", "writer_recv", "recv"}
    OBVIOUS
  <2> QED
    BY <1>6, <2>1
<1>8. q3 \in FirstStack(c)
  <2>1. PICK j1, j2, j3, j4 : /\ j1 = ConJob("recv", c) /\ j2 = ConJob("writer_recv", c)
                              /\ j3 = ConJob("first", c) /\ j4 = DevJob("dev_done")
    OBVIOUS
  <2>2. q = <<j4>> /\ q1 = <<j3>> \o q /\ q2 = <<j2>> \o q1 /\ q3 = <<j1>> \o q2
    BY <1>2, <2>1 DEF BPending_Set
  <2>3. q3 = <<j1, j2, j3, j4>>
    BY <2>2, Pushed, Zenon
  <2> QED
    BY <2>1, <2>3 DEF FirstStack
<1> QED
  BY <1>1, <1>2, <1>7, <1>8, SMTT(30), Z3T(30) DEF InitJobs

\* A connection connection_init made, with the three jobs it set.
LEMMA NewIsConnection ==
    ASSUME NEW p \in Packet, NEW o, o = NewConnection(p)
    PROVE  /\ o \in Connection /\ o.local = p.local /\ o.first = <<p>> /\ o.first /= <<>>
           /\ o.first[1] = p /\ ~o.started /\ o.buf = <<>>
           /\ o.remote = p.remote /\ o.is_dns = p.is_dns
           /\ ConInv(o, {"first", "writer_recv", "recv"})
<1>1. <<p>> \in Seq(Packet) /\ <<p>> /= <<>> /\ Len(<<p>>) = 1 /\ <<p>>[1] = p
  OBVIOUS
<1>2. <<>> \in Seq(Datagram)
  OBVIOUS
<1>3. /\ o \in Connection /\ o.local = p.local /\ o.remote = p.remote /\ o.is_dns = p.is_dns
      /\ o.first = <<p>> /\ o.out_have = FALSE /\ o.written = <<>> /\ o.buf = <<>>
      /\ o.sending = FALSE /\ o.receiving = FALSE /\ o.started = FALSE /\ o.wait = {}
      /\ o.failed = FALSE
  BY <1>1, <1>2 DEF NewConnection, Connection, Packet
<1>4. SendInv(o, {"first", "writer_recv", "recv"})
  BY <1>3, QueueEmpty DEF SendInv
<1>5. RecvInv(o, {"first", "writer_recv", "recv"})
  BY <1>3 DEF RecvInv
<1>6. FirstInv(o, {"first", "writer_recv", "recv"})
  BY <1>1, <1>3 DEF FirstInv
<1> QED
  BY <1>1, <1>3, <1>4, <1>5, <1>6, SMTT(30), Z3T(30) DEF ConInv

\* connection_init into a table with room.
LEMMA TableAdd ==
    ASSUME NEW cs, NEW l, NEW n, NEW f, Table(cs, l, n, f), n < max_connections,
           NEW c \in Con, cs[c] = Freed, NEW p \in Packet,
           \A d \in Live(cs) : cs[d].local /= p.local,
           NEW q, q = <<DevJob("dev_done")>>,
           cons' = [cs EXCEPT ![c] = NewConnection(p)], list' = Append(l, c),
           num' = n + 1, fds' = f + 1, jobs' = InitJobs(q, c),
           dev \in [state : {"idle", "waiting", "closed"}, data : {0, 1}],
           dev.state = "idle", dev' = dev, p.data = dev.data
    PROVE  RelayInv'
<1>1. PICK o : o = NewConnection(p)
  OBVIOUS
<1>2. /\ o \in Connection /\ o.local = p.local /\ o.first /= <<>>
      /\ o.first[1] = p /\ ~o.started /\ o.buf = <<>>
      /\ o.remote = p.remote /\ o.is_dns = p.is_dns
      /\ ConInv(o, {"first", "writer_recv", "recv"})
  BY <1>1, NewIsConnection, SMTT(30), Z3T(30)
<1>3. /\ cs \in [Con -> Connection \cup {Freed}]
      /\ l \in Seq(Con) /\ Distinct(l) /\ Rng(l) = Live(cs) /\ IsFiniteSet(Live(cs))
      /\ n = Len(l) /\ n = Cardinality(Live(cs)) /\ n = f
      /\ \A d \in Live(cs) : ConInv(cs[d], {}) /\ cs[d].first = <<>>
      /\ \A d, e \in Live(cs) : cs[d].local = cs[e].local => d = e
  BY DEF Table
<1>4. /\ jobs' \in FirstStack(c) /\ Good(jobs') /\ Bottom(jobs')
      /\ Pend(jobs', c) = {"first", "writer_recv", "recv"}
      /\ \A d \in Con : d /= c => Pend(jobs', d) = {}
  BY NewJobs DEF Stack
<1>5. /\ cons' \in [Con -> Connection \cup {Freed}] /\ cons'[c] = o
      /\ \A d \in Con : d /= c => cons'[d] = cs[d]
  BY <1>1, <1>2, <1>3, SMTT(30), Z3T(30)
<1>6. c \notin Live(cs) /\ live' = Live(cs) \cup {c}
  BY <1>2, <1>5, FreedIsNone, SMTT(30), Z3T(30) DEF Live, live
<1>7. /\ list' \in Seq(Con) /\ Len(list') = n + 1
      /\ Distinct(list') /\ Rng(list') = live'
  <2>1. /\ Append(l, c) \in Seq(Con) /\ Len(Append(l, c)) = Len(l) + 1
        /\ Distinct(Append(l, c)) /\ Rng(Append(l, c)) = Rng(l) \cup {c}
    <3>1. l \in Seq(Con) /\ c \notin Rng(l) /\ Distinct(l)
      BY <1>3, <1>6, SMTT(30), Z3T(30)
    <3> QED
      BY <3>1, RngAppend, SMTT(30), Z3T(30)
  <2> QED
    BY <1>3, <1>6, <2>1, SMTT(30), Z3T(30)
<1>8. IsFiniteSet(live') /\ Cardinality(live') = n + 1
  <2>1. /\ IsFiniteSet(Live(cs) \cup {c})
        /\ Cardinality(Live(cs) \cup {c}) = Cardinality(Live(cs)) + 1
    BY <1>3, <1>6, FS_AddElement, Zenon
  <2> QED
    BY <1>3, <1>6, <2>1, SMTT(30), Z3T(30)
<1>9. n \in Nat /\ n + 1 <= max_connections
  <2>1. Len(l) \in Nat
    BY ZenonT(30), <1>3, LenProperties
  <2>2. n \in Nat
    BY <1>3, <2>1, SMTT(30), Z3T(30)
  <2> QED
    BY <2>2, RelayAssumption
<1>10. TypeOK'
  BY <1>3, <1>4, <1>5, <1>7, <1>9, SMTT(30), Z3T(30) DEF TypeOK, Good
<1>11. ConsInv'
  <2> SUFFICES ASSUME NEW d \in live' PROVE ConInv(cons'[d], Pend(jobs', d))
    BY DEF ConsInv
  <2>1. CASE d = c
    BY <1>2, <1>4, <1>5, <2>1, Zenon
  <2>2. CASE d /= c
    <3>1. d \in Con /\ d \in Live(cs)
      BY <1>6, <2>2, SMTT(30), Z3T(30) DEF Live
    <3>2. Pend(jobs', d) = {} /\ cons'[d] = cs[d]
      BY SMTT(30), Z3T(30), <1>4, <1>5, <2>2, <3>1
    <3>3. ConInv(cs[d], {})
      BY <1>3, <3>1
    <3> QED
      BY <3>2, <3>3, Zenon
  <2> QED
    BY <2>1, <2>2
<1>12. StackInv'
  BY SMTT(30), Z3T(30), <1>4, <1>6 DEF StackInv
<1>13. FirstJobInv'
  <2> SUFFICES ASSUME NEW d \in live', cons'[d].first /= <<>>
               PROVE  /\ jobs' \in FirstStack(d)
                      /\ ~cons'[d].started /\ cons'[d].buf = <<>>
                      /\ cons'[d].first[1].data = dev'.data
                      /\ cons'[d].first[1].remote = cons'[d].remote
                      /\ cons'[d].first[1].is_dns = cons'[d].is_dns
    BY SMTT(30), Z3T(30) DEF FirstJobInv, FirstStack
  <2>1. d = c
    BY SMTT(30), Z3T(30), <1>3, <1>5, <1>6 DEF Live
  <2> QED
    BY SMTT(30), Z3T(30), <1>2, <1>4, <1>5, <2>1
<1>14. TableInv'
  <2>1. \A d, e \in live' : cons'[d].local = cons'[e].local => d = e
    BY SMTT(30), Z3T(30), <1>2, <1>3, <1>5, <1>6 DEF Live
  <2> QED
    BY SMTT(30), Z3T(30), <1>3, <1>7, <1>8, <1>9, <2>1 DEF TableInv
<1> QED
  BY <1>10, <1>11, <1>12, <1>13, <1>14, SMTT(30), Z3T(30) DEF RelayInv

-----------------------------------------------------------------------------
(* The jobs of the device. *)

\* When a job of the device runs no other is pending.
LEMMA DeviceNow ==
    ASSUME RelayInv, NEW n \in DevJobs, next(n)
    PROVE  /\ jobs /= <<>> /\ Head(jobs).job = n /\ Tail(jobs) = <<>> /\ Len(jobs) = 1
           /\ jobs[1].con = NoCon /\ dev.state = "idle" /\ Bottom(jobs)
           /\ \A c \in Con : Pend(jobs, c) = {}
           /\ Table(cons, list, num, fds)
           /\ dev \in [state : {"idle", "waiting", "closed"}, data : {0, 1}]
<1>1. jobs /= <<>> /\ Head(jobs).job = n
  BY DEF next
<1>2. /\ Good(jobs) /\ (dev.state = "idle" <=> Bottom(jobs)) /\ jobs \in Seq(Job)
      /\ dev \in [state : {"idle", "waiting", "closed"}, data : {0, 1}]
  BY DEF RelayInv, StackInv, TypeOK
<1>3. Head(jobs) \in Job /\ Head(jobs) = jobs[1]
  BY <1>1, <1>2
<1>4. Head(jobs).con = NoCon
  BY <1>1, <1>3, JobNames DEF DevJobs, ConJobs
<1>5. Len(jobs) = 1 /\ Tail(jobs) = <<>> /\ Bottom(jobs) /\ \A c \in Con : Pend(jobs, c) = {}
  BY <1>1, <1>2, <1>4, DeviceNext, SMTT(30), Z3T(30)
<1>6. Table(cons, list, num, fds)
  BY <1>1, <1>5, TableNow DEF DevJobs
<1> QED
  BY <1>1, <1>2, <1>3, <1>4, <1>5, <1>6, SMTT(30), Z3T(30)

\* A job of the device that sets the next one.
LEMMA DeviceGoesOn ==
    ASSUME RelayInv, NEW n \in DevJobs, next(n), NEW m \in DevJobs,
           jobs' = BPending_Set(Tail(jobs), DevJob(m)),
           UNCHANGED <<cons, list, num, fds>>,
           dev' \in [state : {"idle", "waiting", "closed"}, data : {0, 1}],
           dev'.state = dev.state
    PROVE  RelayInv'
<1>1. Tail(jobs) = <<>> /\ dev.state = "idle" /\ Table(cons, list, num, fds)
  BY DeviceNow
<1>2. Good(jobs') /\ Bottom(jobs') /\ \A c \in Con : Pend(jobs', c) = {}
  BY <1>1, DeviceSet, Zenon
<1>3. Table(cons', list', num', fds')
  BY <1>1
<1> QED
  BY <1>1, <1>2, <1>3, TableKept, SMTT(30), Z3T(30)

\* BTap.c:output_handler_recv keeps the invariant.
LEMMA DevRecv ==
    ASSUME RelayInv, next("dev_recv"), dev_recv, UNCHANGED <<cons, list, num, fds>>
    PROVE  RelayInv'
<1>1. /\ dev \in [state : {"idle", "waiting", "closed"}, data : {0, 1}]
      /\ Tail(jobs) = <<>> /\ Table(cons, list, num, fds)
  BY DeviceNow DEF DevJobs
<1>2. CASE /\ dev' = [dev EXCEPT !.data = 1 - @]
           /\ jobs' = BPending_Set(Tail(jobs), DevJob("dev_recv_done"))
  <2>1. /\ dev' \in [state : {"idle", "waiting", "closed"}, data : {0, 1}]
        /\ dev'.state = dev.state
    BY <1>1, <1>2
  <2> QED
    BY <1>2, <2>1, DeviceGoesOn DEF DevJobs
<1>3. CASE dev' = [dev EXCEPT !.state = "waiting"] /\ jobs' = Tail(jobs)
  <2>1. /\ dev' \in [state : {"idle", "waiting", "closed"}, data : {0, 1}]
        /\ dev'.state = "waiting"
    BY <1>1, <1>3
  <2>2. Good(jobs') /\ ~Bottom(jobs') /\ \A c \in Con : Pend(jobs', c) = {}
    BY <1>1, <1>3, Empty, Zenon
  <2>3. Table(cons', list', num', fds')
    BY <1>1
  <2> QED
    BY <2>1, <2>2, <2>3, TableKept, SMTT(30), Z3T(30)
<1> QED
  BY <1>2, <1>3 DEF dev_recv

\* When nothing is pending the table is in order.
LEMMA Idle ==
    ASSUME RelayInv, jobs = <<>>
    PROVE  /\ Table(cons, list, num, fds)
           /\ dev \in [state : {"idle", "waiting", "closed"}, data : {0, 1}]
<1>1. \A c \in Con : Pend(jobs, c) = {}
  BY Empty
<1>2. Table(cons, list, num, fds)
  BY <1>1, TableNow
<1> QED
  BY <1>2 DEF RelayInv, TypeOK

\* BTap.c:fd_handler keeps it: nobody looks at the buffer it reads into.
LEMMA DevFdHandler ==
    ASSUME RelayInv, dev_fd_handler
    PROVE  RelayInv'
<1>1. /\ Table(cons, list, num, fds) /\ jobs = <<>>
      /\ dev \in [state : {"idle", "waiting", "closed"}, data : {0, 1}]
  BY Idle DEF dev_fd_handler
<1>2. /\ dev' \in [state : {"idle", "waiting", "closed"}, data : {0, 1}]
      /\ dev'.state = "idle"
  BY <1>1 DEF dev_fd_handler
<1>3. Good(jobs') /\ Bottom(jobs') /\ \A c \in Con : Pend(jobs', c) = {}
  BY <1>1, DeviceSet DEF dev_fd_handler, DevJobs
<1>4. Table(cons', list', num', fds')
  BY <1>1 DEF dev_fd_handler
<1> QED
  BY <1>2, <1>3, <1>4, TableKept, SMTT(30), Z3T(30)

\* The table without a connection.
LEMMA TableEmpty ==
    ASSUME NEW cs, cs = [c \in Con |-> Freed]
    PROVE  Table(cs, <<>>, 0, 0)
<1>1. Live(cs) = {}
  BY DEF Live
<1>2. <<>> \in Seq(Con) /\ Distinct(<<>>) /\ Rng(<<>>) = {} /\ Len(<<>>) = 0
  BY DEF Distinct, Rng
<1>3. IsFiniteSet({}) /\ Cardinality({}) = 0
  BY FS_EmptySet
<1>4. 0 <= max_connections
  BY RelayAssumption
<1> QED
  BY <1>1, <1>2, <1>3, <1>4, Zenon DEF Table

\* SocksUdpGwClient_Free keeps the invariant.
LEMMA Free ==
    ASSUME RelayInv, SocksUdpGwClient_Free
    PROVE  RelayInv'
<1>1. /\ Table(cons, list, num, fds) /\ jobs = <<>> /\ jobs' = <<>>
      /\ dev \in [state : {"idle", "waiting", "closed"}, data : {0, 1}]
  BY Idle DEF SocksUdpGwClient_Free
<1>2. /\ dev' \in [state : {"idle", "waiting", "closed"}, data : {0, 1}]
      /\ dev'.state = "closed"
  BY <1>1 DEF SocksUdpGwClient_Free
<1>3. Good(jobs') /\ ~Bottom(jobs') /\ \A c \in Con : Pend(jobs', c) = {}
  BY <1>1, Empty
<1>4. num' = 0 /\ fds' = 0
  <2>1. list \in Seq(Con) /\ num = Len(list) /\ fds = num
    BY <1>1 DEF Table
  <2>2. Len(list) \in Nat
    BY <2>1, LenProperties
  <2> QED
    BY <2>1, <2>2, SMTT(30), Z3T(30) DEF SocksUdpGwClient_Free
<1>5. Table(cons', list', num', fds')
  BY <1>4, TableEmpty, SMTT(30), Z3T(30) DEF SocksUdpGwClient_Free
<1> QED
  BY <1>2, <1>3, <1>5, TableKept, SMTT(30), Z3T(30)

-----------------------------------------------------------------------------
(* A packet of the device. *)

\* What reset_connection makes of the connection o.
Addressed(o, p) == [o EXCEPT !.remote = p.remote, !.is_dns = p.is_dns]

\* connection_send after it, with a place to write to: the datagram written is
\* right.
LEMMA Submitted ==
    ASSUME NEW o \in Connection, ConInv(o, {}), o.out_have,
           NEW p \in Packet, NEW o1, o1 = Addressed(o, p),
           NEW o2, o2 = connection_send(o1, p.data, p)
    PROVE  /\ o2 \in Connection /\ o2.local = o.local /\ o2.first = o.first
           /\ ConInv(o2, {"writer_done"})
<1>1. PICK d : d = <<[is_dns |-> p.is_dns, right |-> TRUE]>>
  BY Zenon
<1>2. Queue(d, 1) /\ d \in Seq(Datagram) /\ d /= <<>>
  BY <1>1 DEF Queue, Datagram, Packet
<1>3. o2 = [o EXCEPT !.remote = p.remote, !.is_dns = p.is_dns, !.out_have = FALSE, !.written = d]
  BY <1>1 DEF connection_send, Addressed, Connection, Packet
<1>4. /\ o2 \in Connection /\ o2.local = o.local /\ o2.first = o.first
      /\ o2.buf = o.buf /\ o2.written = d /\ o2.out_have = FALSE /\ o2.sending = o.sending
      /\ o2.wait = o.wait /\ o2.failed = o.failed /\ o2.receiving = o.receiving /\ o2.started = o.started
  BY ZenonT(30), <1>2, <1>3 DEF Connection, Packet
<1>5. SendInv(o, {}) /\ RecvInv(o, {}) /\ FirstInv(o, {})
  BY DEF ConInv
<1>6. SendInv(o2, {"writer_done"})
  BY <1>2, <1>4, <1>5, SMTT(30), Z3T(30) DEF SendInv
<1>7. RecvInv(o2, {"writer_done"}) /\ FirstInv(o2, {"writer_done"})
  BY <1>4, <1>5 DEF RecvInv, FirstInv
<1> QED
  BY <1>4, <1>6, <1>7, SMTT(30), Z3T(30) DEF ConInv

\* Without a place to write to only the addresses change.
LEMMA Dropped ==
    ASSUME NEW o \in Connection, ConInv(o, {}), ~o.out_have,
           NEW p \in Packet, NEW o1, o1 = Addressed(o, p)
    PROVE  /\ o1 \in Connection /\ o1.local = o.local /\ o1.first = o.first
           /\ connection_send(o1, p.data, p) = o1
           /\ ConInv(o1, {})
<1>1. /\ o1 \in Connection /\ o1.local = o.local /\ o1.first = o.first
      /\ o1.buf = o.buf /\ o1.written = o.written /\ o1.out_have = o.out_have /\ o1.sending = o.sending
      /\ o1.wait = o.wait /\ o1.failed = o.failed /\ o1.receiving = o.receiving /\ o1.started = o.started
  BY Zenon DEF Addressed, Connection, Packet
<1>2. SendInv(o, {}) /\ RecvInv(o, {}) /\ FirstInv(o, {})
  BY SMTT(30), Z3T(30) DEF ConInv
<1>3. SendInv(o1, {})
  BY <1>1, <1>2, SMTT(30), Z3T(30) DEF SendInv
<1>4. RecvInv(o1, {}) /\ FirstInv(o1, {})
  BY <1>1, <1>2 DEF RecvInv, FirstInv
<1> QED
  BY <1>1, <1>3, <1>4 DEF ConInv, connection_send

\* SocksUdpGwClient_SubmitPacket for a connection there is keeps the
\* invariant.
LEMMA Submit ==
    ASSUME RelayInv, next("dev_send"), NEW p \in Packet, NEW c \in find_connection(p),
           p.data = dev.data, submit(p, c), UNCHANGED dev
    PROVE  RelayInv'
<1>1. PICK o, o1, o2 : /\ o = cons[c]
                       /\ o1 = Addressed(o, p)
                       /\ o2 = connection_send(o1, p.data, p)
  OBVIOUS
<1>2. /\ Tail(jobs) = <<>> /\ Bottom(jobs) /\ jobs /= <<>> /\ Head(jobs).job = "dev_send"
      /\ \A d \in Con : Pend(jobs, d) = {}
      /\ list \in Seq(Con) /\ Distinct(list) /\ Rng(list) = live
  <2>1. next("dev_send") /\ "dev_send" \in DevJobs
    BY SMTT(30), Z3T(30) DEF DevJobs
  <2> QED
    BY <2>1, DeviceNow DEF RelayInv, TypeOK, TableInv
<1>3. /\ c \in live /\ c \in Con /\ o \in Connection
      /\ cons \in [Con -> Connection \cup {Freed}] /\ ConInv(o, {})
  BY <1>1, <1>2, Zenon DEF find_connection, RelayInv, TypeOK, ConsInv, live
<1>4. o1.out_have = o.out_have
  BY <1>1, <1>3 DEF Addressed, Connection
<1>5. /\ cons' = [cons EXCEPT ![c] = o2] /\ UNCHANGED <<num, fds, dev>>
      /\ list' = IF o.out_have THEN Append(without(c), c) ELSE list
  BY <1>1, <1>4, SMTT(30), Z3T(30) DEF submit, Addressed
<1>6. PICK q : q = BPending_Set(<<>>, DevJob("dev_done"))
  OBVIOUS
<1>7. jobs' = IF o.out_have THEN BPending_Set(q, ConJob("writer_done", c)) ELSE q
  BY <1>1, <1>2, <1>4, <1>6, Zenon DEF submit, SetJob, Addressed
<1>8. Good(q) /\ Bottom(q) /\ \A d \in Con : Pend(q, d) = {}
  BY <1>6, DeviceSet DEF DevJobs
<1>9. list' \in Seq(Con) /\ Len(list') = Len(list) /\ Same(list, list')
  <2>1. CASE ~o.out_have
    BY <1>2, <1>5, <2>1, SMTT(30), Z3T(30) DEF Same
  <2>2. CASE o.out_have
    <3>1. PICK i \in DOMAIN list : i = CHOOSE j \in DOMAIN list : list[j] = c
      BY <1>2, <1>3, SMTT(30), Z3T(30) DEF Rng
    <3>2. list[i] = c
      BY SMTT(30), Z3T(30), <1>2, <1>3, <3>1 DEF Rng
    <3>3. list' = Append(SubSeq(list, 1, i - 1) \o SubSeq(list, i + 1, Len(list)), list[i])
      BY <1>5, <2>2, <3>1, <3>2, Zenon DEF without
    <3>4. /\ list' \in Seq(Con) /\ Len(list') = Len(list) /\ Distinct(list')
          /\ Rng(list') = Rng(list)
      BY <1>2, <3>3, MoveToEnd, Zenon
    <3> QED
      BY <3>4, SMTT(30), Z3T(30) DEF Same
  <2> QED
    BY <2>1, <2>2, SMTT(30), Z3T(30)
<1>10. CASE ~o.out_have
  <2>1. o2 = o1 /\ o1 \in Connection /\ o1.local = o.local /\ o1.first = o.first /\ ConInv(o1, {})
    BY <1>1, <1>3, <1>10, Dropped, SMTT(30), Z3T(30)
  <2>2. jobs' = q
    BY SMTT(30), Z3T(30), <1>7, <1>10
  <2>3. /\ Good(jobs') /\ (Bottom(jobs') <=> Bottom(jobs)) /\ Pend(jobs', c) = {}
        /\ \A d \in Con : d /= c => Pend(jobs', d) = Pend(jobs, d)
    BY ZenonT(30), <1>2, <1>3, <1>8, <2>2
  <2>4. /\ cons' = [cons EXCEPT ![c] = o1] /\ o1.local = cons[c].local /\ o1.first = cons[c].first
        /\ ConInv(o1, Pend(jobs', c))
        /\ jobs /= <<>> => Head(jobs).job \notin {"first", "recv", "writer_recv"}
    BY <1>1, <1>2, <1>5, <2>1, <2>3, SMTT(30), Z3T(30)
  <2>5. o1 \in Connection /\ c \in live /\ UNCHANGED <<num, fds, dev>>
    BY SMTT(30), Z3T(30), <1>3, <1>5, <2>1
  <2> QED
    BY <1>9, <2>3, <2>4, <2>5, FrameNoFirst, Zenon
<1>11. CASE o.out_have
  <2>1. /\ o2 \in Connection /\ o2.local = o.local /\ o2.first = o.first
        /\ ConInv(o2, {"writer_done"})
    BY <1>1, <1>3, <1>11, Submitted, SMTT(30), Z3T(30)
  <2>2. jobs' = BPending_Set(q, ConJob("writer_done", c))
    BY <1>7, <1>11, SMTT(30), Z3T(30)
  <2>3. Stack(q, q, c, {})
    BY SMTT(30), Z3T(30), <1>3, <1>8 DEF Stack
  <2>4. Stack(q, jobs', c, {} \cup {"writer_done"})
    BY <1>3, <2>2, <2>3, StackSet, Zenon DEF ConJobs
  <2>5. {} \cup {"writer_done"} = {"writer_done"}
    OBVIOUS
  <2>6. /\ Good(jobs') /\ (Bottom(jobs') <=> Bottom(jobs)) /\ Pend(jobs', c) = {"writer_done"}
        /\ \A d \in Con : d /= c => Pend(jobs', d) = Pend(jobs, d)
    BY <1>2, <1>8, <2>4, <2>5, Zenon DEF Stack
  <2>7. /\ cons' = [cons EXCEPT ![c] = o2] /\ o2.local = cons[c].local /\ o2.first = cons[c].first
        /\ ConInv(o2, Pend(jobs', c))
        /\ jobs /= <<>> => Head(jobs).job \notin {"first", "recv", "writer_recv"}
    BY <1>1, <1>2, <1>5, <2>1, <2>6, SMTT(30), Z3T(30)
  <2>8. o2 \in Connection /\ c \in live /\ UNCHANGED <<num, fds, dev>>
    BY <1>3, <1>5, <2>1
  <2> QED
    BY <1>9, <2>6, <2>7, <2>8, FrameNoFirst, Zenon
<1> QED
  BY <1>10, <1>11

\* What is left of one element.
LEMMA TailOfOne ==
    ASSUME NEW S, NEW y \in Seq(S), Len(y) = 1
    PROVE  Tail(y) = <<>>
<1>1. Tail(y) \in Seq(S) /\ Len(Tail(y)) = 0
  OBVIOUS
<1> QED
  BY <1>1, LenZero, Zenon

\* Freeing a connection leaves one job, that of the device that runs.
LEMMA JobsWithout ==
    ASSUME NEW q \in Seq(Job), Len(q) = 1, q[1].con = NoCon, NEW e \in Con
    PROVE  Tail(jobs_without(q, e)) = <<>>
<1>1. PICK kept : kept = {i \in DOMAIN q : q[i].con /= e \/ q[i].job = "first"}
  BY Zenon
<1>2. kept = {1}
  BY <1>1, RelayAssumption
<1>3. Cardinality(kept) = 1
  BY <1>2, FS_Singleton, Zenon
<1>4. PICK x : jobs_without(q, e) = [k \in 1..1 |-> x[k]]
  <2> DEFINE nth(k) == CHOOSE i \in kept : Cardinality({j \in kept : j <= i}) = k
             x == [k \in 1..1 |-> q[nth(k)]]
  <2>1. jobs_without(q, e) = [k \in 1..Cardinality(kept) |-> q[nth(k)]]
    BY <1>1 DEF jobs_without
  <2>2. jobs_without(q, e) = x
    BY <1>3, <2>1
  <2>3. x = [k \in 1..1 |-> x[k]]
    OBVIOUS
  <2> QED
    BY <2>2, <2>3, Zenon
<1>5. PICK y, S : y = [k \in 1..1 |-> x[k]] /\ S = {x[1]}
  BY Zenon
<1>6. y \in Seq(S) /\ Len(y) = 1
  BY <1>5
<1>7. Tail(y) = <<>>
  BY <1>6, TailOfOne, SMTT(30), Z3T(30)
<1> QED
  BY <1>4, <1>5, <1>7

\* The table connection_init adds to has room.
LEMMA MadeRoom ==
    ASSUME RelayInv, next("dev_send"), NEW w,
           w = IF num = max_connections THEN evicted ELSE current
    PROVE  /\ Table(w.cons, w.list, w.num, w.fds) /\ w.num < max_connections
           /\ Tail(w.jobs) = <<>>
           /\ \A d \in Live(w.cons) : d \in live /\ w.cons[d] = cons[d]
<1>1. /\ Tail(jobs) = <<>> /\ Len(jobs) = 1 /\ jobs[1].con = NoCon /\ jobs \in Seq(Job)
      /\ Table(cons, list, num, fds)
  <2>1. "dev_send" \in DevJobs
    BY DEF DevJobs
  <2> QED
    BY <2>1, DeviceNow DEF RelayInv, TypeOK
<1>2. CASE num = max_connections
  <2>1. PICK e, cs : e = list[1] /\ cs = [cons EXCEPT ![e] = Freed]
    BY Zenon
  <2>2. /\ w.cons = cs /\ w.list = Tail(list) /\ w.num = num - 1 /\ w.fds = fds - 1
        /\ w.jobs = jobs_without(jobs, e)
    BY <1>2, <2>1 DEF evicted
  <2>3. Table(cs, Tail(list), num - 1, fds - 1) /\ num - 1 < max_connections /\ e \in Con
    BY <1>1, <1>2, <2>1, TableEvict, Zenon
  <2>4. Tail(w.jobs) = <<>>
    BY <1>1, <2>2, <2>3, JobsWithout, SMTT(30), Z3T(30)
  <2>5. \A d \in Live(cs) : d \in live /\ cs[d] = cons[d]
    <3>1. cons \in [Con -> Connection \cup {Freed}]
      BY <1>1 DEF Table
    <3> QED
      BY <2>1, <2>3, <3>1, SMTT(30), Z3T(30) DEF Live, live
  <2> QED
    BY <2>2, <2>3, <2>4, <2>5, Zenon
<1>3. CASE num /= max_connections
  <2>1. /\ w.cons = cons /\ w.list = list /\ w.num = num /\ w.fds = fds /\ w.jobs = jobs
    BY <1>3 DEF current
  <2>2. num < max_connections
    <3>1. num = Len(list) /\ list \in Seq(Con) /\ num <= max_connections
      BY <1>1 DEF Table
    <3>2. Len(list) \in Nat
      BY <3>1, LenProperties
    <3>3. num \in Nat
      BY <3>1, <3>2
    <3> QED
      BY SMTT(30), Z3T(30), <1>3, <3>1, <3>3, RelayAssumption
  <2>3. \A d \in Live(cons) : d \in live /\ cons[d] = cons[d]
    BY DEF Live, live
  <2> QED
    BY <1>1, <2>1, <2>2, <2>3, SMTT(30), Z3T(30)
<1> QED
  BY <1>2, <1>3

\* SocksUdpGwClient_SubmitPacket for a new local address keeps the invariant,
\* whether connection_init succeeds or not.
LEMMA ConnectionInit ==
    ASSUME RelayInv, next("dev_send"), NEW p \in Packet, NEW c \in Con, NEW ok \in BOOLEAN,
           find_connection(p) = {}, p.data = dev.data, connection_init(p, c, ok), UNCHANGED dev
    PROVE  RelayInv'
<1>1. PICK w, q : /\ w = IF num = max_connections THEN evicted ELSE current
                  /\ q = BPending_Set(Tail(w.jobs), DevJob("dev_done"))
  OBVIOUS
<1>2. /\ Table(w.cons, w.list, w.num, w.fds) /\ w.num < max_connections
      /\ Tail(w.jobs) = <<>>
      /\ \A d \in Live(w.cons) : d \in live /\ w.cons[d] = cons[d]
  BY SMTT(30), Z3T(30), <1>1, MadeRoom
<1>3. q = <<DevJob("dev_done")>> /\ Good(q) /\ Bottom(q) /\ \A d \in Con : Pend(q, d) = {}
  BY <1>1, <1>2, DeviceSet, Zenon DEF DevJobs
<1>4. /\ dev \in [state : {"idle", "waiting", "closed"}, data : {0, 1}]
      /\ dev.state = "idle"
  <2>1. "dev_send" \in DevJobs
    BY DEF DevJobs
  <2> QED
    BY <2>1, DeviceNow
<1>5. \A d \in Live(w.cons) : w.cons[d].local /= p.local
  BY SMTT(30), Z3T(30), <1>2 DEF find_connection
<1>6. CASE ok
  <2>1. /\ w.cons[c] = Freed
        /\ cons' = [w.cons EXCEPT ![c] = NewConnection(p)]
        /\ list' = Append(w.list, c)
        /\ num' = w.num + 1 /\ fds' = w.fds + 1
        /\ jobs' = InitJobs(q, c)
    BY <1>1, <1>6, SMTT(30), Z3T(30) DEF connection_init
  <2>2. PICK cs, l, n, f : cs = w.cons /\ l = w.list /\ n = w.num /\ f = w.fds
    BY SMTT(30), Z3T(30)
  <2>3. /\ Table(cs, l, n, f) /\ n < max_connections
        /\ \A d \in Live(cs) : cs[d].local /= p.local
        /\ cs[c] = Freed
        /\ cons' = [cs EXCEPT ![c] = NewConnection(p)] /\ list' = Append(l, c)
        /\ num' = n + 1 /\ fds' = f + 1 /\ jobs' = InitJobs(q, c)
    BY <1>2, <1>5, <2>1, <2>2, SMTT(30), Z3T(30)
  <2> QED
    BY <1>3, <1>4, <2>3, TableAdd, ZenonT(30)
<1>7. CASE ~ok
  <2>1. cons' = w.cons /\ list' = w.list /\ num' = w.num /\ fds' = w.fds /\ jobs' = q
    BY <1>1, <1>7, SMTT(30), Z3T(30) DEF connection_init
  <2>2. Table(cons', list', num', fds')
    BY <1>2, <2>1, SMTT(30), Z3T(30)
  <2>3. /\ dev' \in [state : {"idle", "waiting", "closed"}, data : {0, 1}]
        /\ dev'.state = "idle"
    BY <1>4, SMTT(30), Z3T(30)
  <2>4. Good(jobs') /\ Bottom(jobs') /\ \A d \in Con : Pend(jobs', d) = {}
    BY <1>3, <2>1
  <2> QED
    BY SMTT(30), Z3T(30), <2>2, <2>3, <2>4, TableKept
<1> QED
  BY <1>6, <1>7

-----------------------------------------------------------------------------
(* Every step keeps the invariant. *)

\* The invariant holds when tun2socks has started.
LEMMA RelayInit == Init => RelayInv
<1> SUFFICES ASSUME Init PROVE RelayInv
  OBVIOUS
<1>1. Table(cons, <<>>, 0, 0) /\ list = <<>> /\ num = 0 /\ fds = 0
  BY TableEmpty DEF Init
<1>2. /\ dev \in [state : {"idle", "waiting", "closed"}, data : {0, 1}]
      /\ dev.state = "idle"
  BY DEF Init
<1>3. Good(jobs) /\ Bottom(jobs) /\ \A c \in Con : Pend(jobs, c) = {}
  BY DeviceSet DEF Init, DevJobs, BPending_Set
<1>4. live = Live(cons) /\ live = {}
  BY DEF Init, live, Live
<1>5. TypeOK
  BY <1>1, <1>2, <1>3, SMTT(30), Z3T(30) DEF TypeOK, Table, Good
<1>6. ConsInv /\ FirstJobInv
  BY <1>4 DEF ConsInv, FirstJobInv
<1>7. StackInv
  BY <1>2, <1>3, SMTT(30), Z3T(30) DEF StackInv
<1>8. TableInv
  BY <1>1, <1>4, SMTT(30), Z3T(30) DEF TableInv, Table
<1> QED
  BY <1>5, <1>6, <1>7, <1>8, SMTT(30), Z3T(30) DEF RelayInv

\* Every job of the device keeps it.
LEMMA DeviceJobKeeps ==
    ASSUME RelayInv, DeviceJob
    PROVE  RelayInv'
<1>1. dev \in [state : {"idle", "waiting", "closed"}, data : {0, 1}]
  BY DEF RelayInv, TypeOK
<1>2. CASE next("dev_recv") /\ dev_recv /\ UNCHANGED <<cons, list, num, fds>>
  BY <1>2, DevRecv
<1>3. CASE /\ next("dev_recv_done")
           /\ jobs' = BPending_Set(Tail(jobs), DevJob("dev_send"))
           /\ UNCHANGED <<cons, list, num, fds, dev>>
  BY <1>1, <1>3, DeviceGoesOn DEF DevJobs
<1>4. CASE /\ next("dev_send")
           /\ \E p \in Packet, c \in Con, ok \in BOOLEAN : device_read_handler_send(p, c, ok)
  <2>1. PICK p \in Packet, c \in Con, ok \in BOOLEAN : device_read_handler_send(p, c, ok)
    BY <1>4, SMTT(30), Z3T(30)
  <2>2. CASE find_connection(p) = {}
    BY SMTT(30), Z3T(30), <1>4, <2>1, <2>2, ConnectionInit DEF device_read_handler_send
  <2>3. CASE find_connection(p) /= {}
    BY <1>4, <2>1, <2>3, Submit, SMTT(30), Z3T(30) DEF device_read_handler_send
  <2> QED
    BY <2>2, <2>3
<1>5. CASE /\ next("dev_send")
           /\ jobs' = BPending_Set(Tail(jobs), DevJob("dev_done"))
           /\ UNCHANGED <<cons, list, num, fds, dev>>
  BY <1>1, <1>5, DeviceGoesOn, SMTT(30), Z3T(30) DEF DevJobs
<1>6. CASE /\ next("dev_done")
           /\ jobs' = BPending_Set(Tail(jobs), DevJob("dev_recv"))
           /\ UNCHANGED <<cons, list, num, fds, dev>>
  BY <1>1, <1>6, DeviceGoesOn, SMTT(30), Z3T(30) DEF DevJobs
<1> QED
  BY <1>2, <1>3, <1>4, <1>5, <1>6, SMTT(30), Z3T(30) DEF DeviceJob

\* The next job is one of its connection.
LEMMA NextIsReady ==
    ASSUME RelayInv, NEW n \in ConJobs, next(n), Head(jobs).con \in live
    PROVE  Ready(n, Head(jobs).con)
<1>1. jobs /= <<>> /\ Head(jobs).job = n /\ jobs \in Seq(Job)
  BY DEF next, RelayInv, TypeOK
<1>2. Head(jobs) \in Job
  BY <1>1
<1>3. Head(jobs).con \in Con
  BY SMTT(30), Z3T(30) DEF live
<1>4. Head(jobs) = ConJob(n, Head(jobs).con)
  BY SMTT(30), Z3T(30), <1>1, <1>2, <1>3, JobNames, RelayAssumption
<1> QED
  BY <1>1, <1>4, SMTT(30), Z3T(30) DEF Ready

\* Every job of a connection keeps it.
LEMMA ConnectionJobKeeps ==
    ASSUME RelayInv, ConnectionJob
    PROVE  RelayInv'
<1>1. PICK c : c = Head(jobs).con
  OBVIOUS
<1>2. c \in live /\ UNCHANGED <<list, num, fds, dev>>
  BY <1>1 DEF ConnectionJob
<1>3. ASSUME NEW n \in ConJobs, next(n) PROVE Runs(n, c)
  BY <1>1, <1>2, <1>3, NextIsReady, SMTT(30), Z3T(30) DEF Runs
<1>4. CASE next("first") /\ first(c)
  BY <1>3, <1>4, First, SMTT(30), Z3T(30) DEF ConJobs
<1>5. CASE next("writer_recv") /\ writer_recv(c)
  BY <1>3, <1>5, WriterRecv, SMTT(30), Z3T(30) DEF ConJobs
<1>6. CASE next("writer_done") /\ writer_done(c)
  BY <1>3, <1>6, WriterDone, SMTT(30), Z3T(30) DEF ConJobs
<1>7. CASE next("send") /\ send(c)
  BY <1>3, <1>7, Send, SMTT(30), Z3T(30) DEF ConJobs
<1>8. CASE next("send_job") /\ \E out \in Outcome : do_send(c, cons[c].wait, Tail(jobs), out)
  BY <1>3, <1>8, SendJob, SMTT(30), Z3T(30) DEF ConJobs
<1>9. CASE next("send_done") /\ send_done(c)
  BY <1>3, <1>9, SendDone, SMTT(30), Z3T(30) DEF ConJobs
<1>10. CASE next("recv") /\ recv(c)
  BY <1>3, <1>10, Recv, SMTT(30), Z3T(30) DEF ConJobs
<1>11. CASE next("recv_job") /\ \E out \in Outcome : do_recv(c, cons[c].wait, Tail(jobs), out)
  BY <1>3, <1>11, RecvJob, SMTT(30), Z3T(30) DEF ConJobs
<1>12. CASE next("recv_done") /\ recv_done(c)
  BY <1>3, <1>12, RecvDone, SMTT(30), Z3T(30) DEF ConJobs
<1>13. CASE next("rx") /\ \E r \in Remotes : dgram_handler_received(c, r)
  BY <1>3, <1>13, Received, SMTT(30), Z3T(30) DEF ConJobs
<1>14. CASE next("rx_done") /\ rx_done(c)
  BY <1>3, <1>14, RxDone, SMTT(30), Z3T(30) DEF ConJobs
<1> QED
  BY <1>1, <1>4, <1>5, <1>6, <1>7, <1>8, <1>9, <1>10, <1>11, <1>12, <1>13, <1>14, SMTT(30), Z3T(30)
     DEF ConnectionJob

\* Every event on a socket keeps it.
LEMMA SocketEventKeeps ==
    ASSUME RelayInv, SocketEvent
    PROVE  RelayInv'
<1>1. PICK c \in live, out \in Outcome :
        \E events \in (SUBSET (cons[c].wait \cup {"error"})) \ {{}} : fd_handler(c, events, out)
  BY DEF SocketEvent
<1>2. PICK events \in (SUBSET (cons[c].wait \cup {"error"})) \ {{}} : fd_handler(c, events, out)
  BY <1>1
<1>3. jobs = <<>> /\ UNCHANGED <<list, num, fds, dev>>
  BY DEF SocketEvent
<1>4. events \in SUBSET (cons[c].wait \cup {"error"}) /\ events /= {}
  BY <1>2
<1> QED
  BY <1>2, <1>3, <1>4, Event, SMTT(30), Z3T(30)

\* The invariant is inductive.
LEMMA RelayStep == RelayInv /\ [Next]_vars => RelayInv'
<1> SUFFICES ASSUME RelayInv, [Next]_vars PROVE RelayInv'
  OBVIOUS
<1>1. CASE DeviceJob
  BY <1>1, DeviceJobKeeps
<1>2. CASE ConnectionJob
  BY <1>2, ConnectionJobKeeps, SMTT(30), Z3T(30)
<1>3. CASE dev_fd_handler
  BY <1>3, DevFdHandler
<1>4. CASE SocketEvent
  BY <1>4, SocketEventKeeps
<1>5. CASE SocksUdpGwClient_Free
  BY <1>5, Free
<1>6. CASE UNCHANGED vars
  BY <1>6, Zenon DEF vars, RelayInv, TypeOK, ConsInv, StackInv, FirstJobInv, TableInv, live
<1> QED
  BY <1>1, <1>2, <1>3, <1>4, <1>5, <1>6, SMTT(30), Z3T(30) DEF Next

-----------------------------------------------------------------------------
(* What follows. *)

\* Right datagrams, wherever they are.
LEMMA QueuesRight ==
    ASSUME NEW a, Queue(a, 1), NEW b, Queue(b, BufSize)
    PROVE  \A i \in DOMAIN (a \o b) : (a \o b)[i].right
<1>1. /\ a \in Seq(Datagram) /\ b \in Seq(Datagram)
      /\ \A i \in DOMAIN a : a[i].right
      /\ \A i \in DOMAIN b : b[i].right
  BY SMTT(30), Z3T(30) DEF Queue
<1> QED
  BY <1>1

\* The invariant implies each of the properties: what goes out is what came
\* in,
LEMMA RelayRight == RelayInv => RightDatagram
<1> SUFFICES ASSUME RelayInv PROVE RightDatagram
  OBVIOUS
<1>1. ASSUME NEW c \in live
      PROVE  LET all == cons[c].written \o cons[c].buf IN
             \A i \in DOMAIN all : all[i].right
  <2>1. Queue(cons[c].written, 1) /\ Queue(cons[c].buf, BufSize)
    BY SMTT(30), Z3T(30) DEF RelayInv, ConsInv, ConInv, SendInv
  <2> QED
    BY ZenonT(30), <2>1, QueuesRight
<1>2. ASSUME next("first") PROVE cons[Head(jobs).con].out_have
  <2>1. PICK c : c = Head(jobs).con
    OBVIOUS
  <2>2. /\ jobs /= <<>> /\ Head(jobs).job = "first" /\ jobs \in Seq(Job) /\ Head(jobs) = jobs[1]
        /\ 1 \in DOMAIN jobs
    BY <1>2 DEF next, RelayInv, TypeOK
  <2>3. Head(jobs) \in Job
    BY <2>2
  <2>4. c \in Con /\ Head(jobs) = ConJob("first", c)
    BY <2>1, <2>2, <2>3, SMTT(30), Z3T(30) DEF Job, DevJobs, ConJob
  <2>5. "first" \in Pend(jobs, c)
    BY <2>2, <2>4, SMTT(30), Z3T(30) DEF Pend, Rng, ConJobs
  <2>6. c \in live
    BY <2>4, <2>5, SMTT(30), Z3T(30) DEF RelayInv, StackInv
  <2> QED
    BY <2>1, <2>2, <2>4, <2>6, FirstFound, SMTT(30), Z3T(30) DEF Ready
<1> QED
  BY <1>1, <1>2, Zenon DEF RightDatagram

\* no job outlives its connection,
LEMMA RelayJobs == RelayInv => JobsLive
<1> SUFFICES ASSUME RelayInv PROVE JobsLive
  OBVIOUS
<1>1. jobs \in Seq(Job) /\ \A i, j \in DOMAIN jobs : jobs[i] = jobs[j] => i = j
  BY DEF RelayInv, StackInv, Good, Distinct
<1>2. ASSUME NEW i \in DOMAIN jobs PROVE jobs[i].con \in live \cup {NoCon}
  <2>1. jobs[i] \in Job
    BY <1>1
  <2>2. CASE jobs[i].con /= NoCon
    <3>1. jobs[i].con \in Con /\ jobs[i].job \in ConJobs /\ jobs[i] = ConJob(jobs[i].job, jobs[i].con)
      BY <2>1, <2>2, JobNames, SMTT(30), Z3T(30)
    <3>2. jobs[i].job \in Pend(jobs, jobs[i].con)
      BY <3>1 DEF Pend, Rng
    <3> QED
      BY <3>1, <3>2, SMTT(30), Z3T(30) DEF RelayInv, StackInv
  <2> QED
    BY <2>2
<1>3. ASSUME NEW c \in live
      PROVE  cons[c].first /= <<>> <=> \E i \in DOMAIN jobs : jobs[i] = ConJob("first", c)
  <2>1. cons[c].first /= <<>> <=> "first" \in Pend(jobs, c)
    BY DEF RelayInv, ConsInv, ConInv, FirstInv
  <2>2. "first" \in Pend(jobs, c) <=> \E i \in DOMAIN jobs : jobs[i] = ConJob("first", c)
    BY DEF Pend, Rng, ConJobs
  <2> QED
    BY <2>1, <2>2, SMTT(30), Z3T(30)
<1> QED
  BY <1>1, <1>2, <1>3, SMTT(30), Z3T(30) DEF JobsLive

\* the table is exact,
LEMMA RelayTable == RelayInv => TableIsExact
BY SMTT(30), Z3T(30) DEF RelayInv, TableInv, TableIsExact, Rng

\* and no wakeup is lost.
LEMMA RelayWakes == RelayInv => NoLostWakeup
<1> SUFFICES ASSUME RelayInv, jobs = <<>>, NEW c \in live, NEW o, o = cons[c]
             PROVE  /\ o.out_have <=> room(o.buf)
                    /\ "write" \in o.wait => o.sending
                    /\ "read" \in o.wait => o.receiving /\ o.started
                    /\ o.failed \/ (/\ o.sending <=> o.buf /= <<>>
                                    /\ o.sending => "write" \in o.wait
                                    /\ o.receiving
                                    /\ o.started => "read" \in o.wait)
  BY DEF NoLostWakeup
<1>1. c \in Con /\ ConInv(o, Pend(jobs, c))
  BY DEF RelayInv, ConsInv, live
<1>2. Pend(jobs, c) = {}
  BY <1>1, Empty
<1>3. SendInv(o, {}) /\ RecvInv(o, {})
  BY <1>1, <1>2, Zenon DEF ConInv
<1>4. o.out_have <=> room(o.buf)
  BY <1>3, SMTT(30), Z3T(30) DEF SendInv
<1>5. /\ "write" \in o.wait => o.sending
      /\ o.sending <=> o.buf /= <<>>
      /\ o.sending => o.failed \/ "write" \in o.wait
  BY <1>3, SMTT(30), Z3T(30) DEF SendInv
<1>6. /\ o.receiving
      /\ "read" \in o.wait => o.started
      /\ o.receiving /\ o.started => o.failed \/ "read" \in o.wait
  BY <1>3 DEF RecvInv
<1> QED
  BY <1>4, <1>5, <1>6, SMTT(30), Z3T(30)

\* The inductive invariant holds in every state, for any number of
\* connections, addresses and buffered packets.
THEOREM RelayInvariant == Spec => []RelayInv
BY RelayInit, RelayStep, PTL DEF Spec

\* RightDatagram: a datagram carries the data of the packet it was made for,
\* although connection_first_job_handler copies that data only later, from
\* the one buffer the device is read into; and it finds a place to copy it
\* to.
THEOREM RelayRightDatagram == Spec => []RightDatagram
BY RelayInvariant, RelayRight, PTL

\* JobsLive: connection_free leaves no job behind, although it does not free
\* first_job.
THEOREM RelayJobsLive == Spec => []JobsLive
BY RelayInvariant, RelayJobs, PTL

\* TableIsExact: the tree, the list, num_connections and the open sockets
\* agree, under eviction, failures of connection_init and
\* SocksUdpGwClient_Free.
THEOREM RelayTableIsExact == Spec => []TableIsExact
BY RelayInvariant, RelayTable, PTL

\* NoLostWakeup: when the reactor sleeps every connection waits for exactly
\* what it still needs.
THEOREM RelayNoLostWakeup == Spec => []NoLostWakeup
BY RelayInvariant, RelayWakes, PTL
=============================================================================
