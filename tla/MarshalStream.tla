----------------------------- MODULE MarshalStream -----------------------------
(***************************************************************************)
(* That minijail_unmarshal() takes each content of the stream for what     *)
(* minijail_marshal() wrote it as, for every jail, however long its lists. *)
(***************************************************************************)
EXTENDS MarshalProofs

\* The order of the parts, by name.
LEMMA PartRanks ==
  /\ PartRank["src"] = 1 /\ PartRank["path"] = 1 /\ PartRank["dest"] = 2 /\ PartRank["type"] = 3
  /\ PartRank["has_data"] = 4 /\ PartRank["zero"] = 4 /\ PartRank["whole"] = 4
  /\ PartRank["data"] = 5 /\ PartRank["flags"] = 6
  /\ DOMAIN PartRank = {"src", "path", "dest", "type", "has_data", "zero", "whole", "data", "flags"}
BY DEF PartRank

\* The parts of an entry, by name.
LEMMA PartsAre ==
  /\ PartsOf("mounts") = {"src", "dest", "type", "has_data", "data", "flags"}
  /\ PartsOf("cgroups") = {"path"} /\ PartsOf("fs_rules") = {"path", "flags"}
BY DEF PartsOf

\* Each field has a rank of its own.
LEMMA RanksDiffer ==
  /\ \A f \in Fields : Rank[f] \in 1 .. 12
  /\ \A f, h \in Fields : Rank[f] = Rank[h] => f = h
  /\ Rank["sent"] = 13 /\ Rank["returned"] = 13
<1>1. Rank["sent"] = 13 /\ Rank["returned"] = 13
  BY ZenonT(60) DEF Rank
<1>2. \A f \in Fields : Rank[f] \in 1 .. 12
  BY NamesAre, Ranks
<1>3. \A f, h \in Fields : Rank[f] = Rank[h] => f = h
  BY NamesAre, Ranks
<1> QED BY <1>1, <1>2, <1>3

\* A place in the order has a rank, a number and a part.
Ordered(c) == Rank[c[1]] \in Nat /\ c[2] \in Nat /\ PartRank[c[3]] \in Nat

\* The order is strict.
LEMMA EarlierFacts ==
  ASSUME NEW c, NEW d, Ordered(c), Ordered(d)
  PROVE  ~Earlier(c, c) /\ (Earlier(c, d) => ~Earlier(d, c))
BY DEF Ordered, Earlier

\* Contents have their places, before the end.
LEMMA DueOrdered ==
  ASSUME JailInv, NEW c, Due(c)
  PROVE  /\ Ordered(c) /\ Earlier(c, Whole("sent")) /\ Earlier(c, Whole("returned"))
         /\ c \in Contents /\ c[2] \in Nat
<1>l. from.len \in [Lists -> Nat]
  BY DEF JailInv, JailOptions
<1>s. Rank["sent"] = 13 /\ Rank["returned"] = 13 /\ \A f \in Fields : Rank[f] \in 1 .. 12
  BY RanksDiffer
<1>1. CASE \E f \in Fields \ (Lists \cup {"filter"}) : c = Whole(f) /\ Written(f)
  <2>1. PICK f \in Fields : c = <<f, 0, "whole">>
    BY <1>1 DEF Whole
  <2>2. c[1] = f /\ c[2] = 0 /\ c[3] = "whole"
    BY <2>1
  <2>3. c \in Contents
    BY <2>1, PartRanks DEF Contents
  <2> QED BY <1>s, <2>2, <2>3, PartRanks DEF Ordered, Earlier, Whole
<1>2. CASE \E l \in Lists : \E n \in 1 .. from.len[l] : \E p \in PartsOf(l) :
             c = <<l, n, p>> /\ (p = "data" => n \in from.data)
  <2>1. PICK l \in Lists : \E n \in 1 .. from.len[l] : \E p \in PartsOf(l) : c = <<l, n, p>>
    BY <1>2
  <2>2. PICK n \in 1 .. from.len[l] : \E p \in PartsOf(l) : c = <<l, n, p>>
    BY <2>1
  <2>3. PICK p \in PartsOf(l) : c = <<l, n, p>>
    BY <2>2
  <2>4. c[1] = l /\ c[2] = n /\ c[3] = p /\ l \in Fields /\ n \in Nat
    BY <2>3, <1>l, NamesAre DEF Lists
  <2>5. p \in DOMAIN PartRank /\ PartRank[p] \in Nat
    BY PartsAre, PartRanks DEF Lists
  <2>6. c \in Contents
    BY <2>3, <2>4, <2>5 DEF Contents
  <2> QED BY <1>s, <2>4, <2>5, <2>6 DEF Ordered, Earlier, Whole
<1> QED BY <1>1, <1>2 DEF Due

\* The bytes of a content have its place.
LEMMA BytesOrdered ==
  ASSUME JailInv, NEW c, Due(c)
  PROVE  /\ Ordered(Bytes(c)) /\ Bytes(c) \in Contents
         /\ \A d : (Earlier(Bytes(c), d) <=> Earlier(c, d)) /\ (Earlier(d, Bytes(c)) <=> Earlier(d, c))
<1>1. Ordered(c) /\ c \in Contents
  BY DueOrdered
<1>2. CASE ~Zero(c)
  BY <1>1, <1>2 DEF Bytes
<1>3. CASE Zero(c)
  <2>1. Bytes(c) = <<c[1], c[2], "zero">>
    BY <1>3 DEF Bytes
  <2>2. Bytes(c)[1] = c[1] /\ Bytes(c)[2] = c[2] /\ Bytes(c)[3] = "zero"
    BY <2>1
  <2>3. c[3] = "has_data" \/ c[3] = "whole"
    BY <1>3 DEF Zero, Whole
  <2>4. PartRank[Bytes(c)[3]] = PartRank[c[3]]
    BY <2>2, <2>3, PartRanks
  <2>5. c[1] \in Fields /\ c[2] \in Nat
    BY <1>1 DEF Contents
  <2>6. Bytes(c) \in Contents
    BY <2>1, <2>5, PartRanks DEF Contents
  <2> QED BY <1>1, <2>2, <2>4, <2>6, ZenonT(60) DEF Ordered, Earlier
<1> QED BY <1>2, <1>3

\* d comes next after c: no content is between them.
Follows(c, d) == \A x : Due(x) => (Earlier(x, d) <=> Earlier(x, c) \/ x = c)

\* The sender writes a content, or goes on without.
LEMMA WriteStep ==
  ASSUME JailInv, SenderInv, from' = from, NEW d, out' = d, Follows(out, d), Place(d), d # Whole("filter"),
         \/ Due(out) /\ buf' = Append(buf, Bytes(out))
         \/ ~Due(out) /\ buf' = buf
  PROVE  SenderInv'
<1>1. /\ \A c : Due(c)' <=> Due(c)
      /\ \A c : Bytes(c)' = Bytes(c)
      /\ \A c : Place(c)' <=> Place(c)
  BY DEF Due, Bytes, Zero, Written, Has, Place
<1>b. /\ buf \in Seq(Contents)
      /\ \A i, j \in DOMAIN buf : i < j => Earlier(buf[i], buf[j])
      /\ \A i \in DOMAIN buf : \E c : Due(c) /\ Earlier(c, out) /\ buf[i] = Bytes(c)
      /\ \A c : Due(c) /\ Earlier(c, out) => \E i \in DOMAIN buf : buf[i] = Bytes(c)
  BY DEF SenderInv
<1>2. CASE ~Due(out) /\ buf' = buf
  <2>1. \A c : Due(c) => (Earlier(c, d) <=> Earlier(c, out))
    BY <1>2 DEF Follows
  <2>2. /\ \A i \in DOMAIN buf : \E c : Due(c) /\ Earlier(c, d) /\ buf[i] = Bytes(c)
        /\ \A c : Due(c) /\ Earlier(c, d) => \E i \in DOMAIN buf : buf[i] = Bytes(c)
    BY <1>b, <2>1
  <2> QED BY <1>1, <1>2, <1>b, <2>2, ZenonT(60) DEF SenderInv
<1>3. CASE Due(out) /\ buf' = Append(buf, Bytes(out))
  <2> DEFINE n == Len(buf)
  <2>1. /\ n \in Nat /\ DOMAIN buf = 1 .. n /\ DOMAIN buf' = 1 .. n + 1
        /\ \A i \in 1 .. n : buf'[i] = buf[i]
        /\ buf'[n + 1] = Bytes(out) /\ buf' \in Seq(Contents)
    BY <1>b, <1>3, BytesOrdered
  <2>2. \A c : Due(c) => (Earlier(c, d) <=> Earlier(c, out) \/ c = out)
    BY DEF Follows
  <2> HIDE DEF n
  <2>3. ASSUME NEW i \in DOMAIN buf', NEW j \in DOMAIN buf', i < j PROVE Earlier(buf'[i], buf'[j])
    <3>1. CASE j = n + 1
      <4>1. i \in 1 .. n /\ buf'[i] = buf[i] /\ buf'[j] = Bytes(out)
        BY <2>1, <2>3, <3>1
      <4>2. PICK c : Due(c) /\ Earlier(c, out) /\ buf[i] = Bytes(c)
        BY <1>b, <2>1, <4>1
      <4>3. Earlier(Bytes(c), Bytes(out))
        BY <1>3, <4>2, BytesOrdered, ZenonT(60)
      <4> QED BY <4>1, <4>2, <4>3
    <3>2. CASE j # n + 1
      <4>1. i \in 1 .. n /\ j \in 1 .. n
        BY <2>1, <2>3, <3>2
      <4> QED BY <1>b, <2>1, <2>3, <4>1
    <3> QED BY <3>1, <3>2
  <2>4. ASSUME NEW i \in DOMAIN buf' PROVE \E c : Due(c) /\ Earlier(c, d) /\ buf'[i] = Bytes(c)
    <3>1. CASE i = n + 1
      BY <1>3, <2>1, <2>2, <3>1
    <3>2. CASE i # n + 1
      <4>1. i \in DOMAIN buf /\ buf'[i] = buf[i]
        BY <2>1, <3>2
      <4>2. PICK c : Due(c) /\ Earlier(c, out) /\ buf[i] = Bytes(c)
        BY <1>b, <4>1
      <4> QED BY <2>2, <4>1, <4>2
    <3> QED BY <3>1, <3>2
  <2>5. ASSUME NEW c, Due(c), Earlier(c, d) PROVE \E i \in DOMAIN buf' : buf'[i] = Bytes(c)
    <3>1. CASE c = out
      <4>1. n + 1 \in DOMAIN buf'
        BY <2>1
      <4> QED BY <2>1, <3>1, <4>1
    <3>2. CASE c # out
      <4>1. PICK i \in DOMAIN buf : buf[i] = Bytes(c)
        BY <1>b, <2>2, <2>5, <3>2
      <4>2. i \in DOMAIN buf' /\ buf'[i] = buf[i]
        BY <2>1
      <4> QED BY <4>1, <4>2
    <3> QED BY <3>1, <3>2
  <2>6. Place(d)' /\ out' # Whole("filter")
    BY <1>1
  <2> QED BY <1>1, <2>1, <2>3, <2>4, <2>5, <2>6, ZenonT(60) DEF SenderInv
<1> QED BY <1>2, <1>3

\* What a content is: a field as a whole, or a part of an entry.
LEMMA DueCases ==
  ASSUME JailInv, NEW x, Due(x)
  PROVE  \/ \E h \in Fields \ (Lists \cup {"filter"}) :
               Written(h) /\ x = Whole(h) /\ x[1] = h /\ x[2] = 0 /\ x[3] = "whole"
         \/ \E l \in Lists : \E n \in 1 .. from.len[l] : \E p \in PartsOf(l) :
               x = <<l, n, p>> /\ x[1] = l /\ x[2] = n /\ x[3] = p /\ (p = "data" => n \in from.data)
BY DEF Due, Whole

\* From the end of a field to the start of another: none that has content is passed over.
LEMMA FieldFollows ==
  ASSUME JailInv, NEW f \in Fields, NEW g \in Fields \cup {"sent", "returned"}, NEW c,
         c = (IF f \in Lists THEN <<f, from.len[f] + 1, First(f)>> ELSE Whole(f)),
         Rank[f] < Rank[g],
         \A h \in Fields : Rank[f] < Rank[h] /\ Rank[h] < Rank[g] =>
                              h \notin Lists /\ (h = "filter" \/ ~Written(h))
  PROVE  Follows(c, Start(g))
<1> SUFFICES ASSUME NEW x, Due(x) PROVE Earlier(x, Start(g)) <=> Earlier(x, c) \/ x = c
  BY DEF Follows
<1> DEFINE d == Start(g)
<1>l. from.len \in [Lists -> Nat]
  BY DEF JailInv, JailOptions
<1>r. Rank[f] \in Nat /\ Rank[g] \in Nat
  BY RanksDiffer
<1>n. "sent" \notin Lists /\ "returned" \notin Lists /\ Lists \subseteq Fields
  BY DEF Lists, Fields
<1>d. /\ d[1] = g
      /\ g \in Lists => d[2] = 1 /\ PartRank[d[3]] = 1
      /\ g \notin Lists => d[2] = 0 /\ d[3] = "whole"
  BY PartRanks DEF Start, Whole, First
<1>c. /\ c[1] = f
      /\ f \in Lists => c[2] = from.len[f] + 1
      /\ f \notin Lists => c = Whole(f) /\ c[2] = 0 /\ c[3] = "whole"
  BY DEF Whole
<1> HIDE DEF d
<1>1. CASE \E h \in Fields \ (Lists \cup {"filter"}) :
             Written(h) /\ x = Whole(h) /\ x[1] = h /\ x[2] = 0 /\ x[3] = "whole"
  <2>1. PICK h \in Fields \ (Lists \cup {"filter"}) :
          Written(h) /\ x = Whole(h) /\ x[1] = h /\ x[2] = 0 /\ x[3] = "whole"
    BY <1>1
  <2>2. Rank[h] \in Nat /\ (Rank[h] < Rank[g] <=> Rank[h] <= Rank[f])
    BY <1>r, <2>1, RanksDiffer
  <2>3. Earlier(x, d) <=> Rank[h] < Rank[g]
    <3>1. Rank[h] = Rank[g] => h = g
      BY <2>1, RanksDiffer
    <3>2. Rank[h] = Rank[g] => d[2] = 0 /\ d[3] = "whole"
      BY <1>d, <2>1, <3>1
    <3> QED BY <1>d, <2>1, <3>2, PartRanks DEF Earlier
  <2>4. Earlier(x, c) \/ x = c <=> Rank[h] <= Rank[f]
    <3>1. Rank[h] = Rank[f] => h = f
      BY <2>1, RanksDiffer
    <3>2. Rank[h] = Rank[f] => x = c
      BY <1>c, <2>1, <3>1
    <3>3. x = c => h = f
      BY <1>c, <2>1
    <3>4. f \in Lists => Rank[h] # Rank[f]
      BY <2>1, <3>1
    <3>5. Earlier(x, c) => Rank[h] <= Rank[f]
      BY <1>c, <1>r, <2>1, <2>2 DEF Earlier
    <3>6. Rank[h] < Rank[f] => Earlier(x, c)
      BY <1>c, <2>1 DEF Earlier
    <3> QED BY <1>r, <2>2, <3>2, <3>3, <3>5, <3>6
  <2> QED BY <2>2, <2>3, <2>4 DEF d
<1>2. CASE \E l \in Lists : \E n \in 1 .. from.len[l] : \E p \in PartsOf(l) :
             x = <<l, n, p>> /\ x[1] = l /\ x[2] = n /\ x[3] = p /\ (p = "data" => n \in from.data)
  <2>1. PICK l \in Lists : \E n \in 1 .. from.len[l] : \E p \in PartsOf(l) :
             x = <<l, n, p>> /\ x[1] = l /\ x[2] = n /\ x[3] = p
    BY <1>2
  <2>2. PICK n \in 1 .. from.len[l] : \E p \in PartsOf(l) :
             x = <<l, n, p>> /\ x[1] = l /\ x[2] = n /\ x[3] = p
    BY <2>1
  <2>3. PICK p \in PartsOf(l) : x = <<l, n, p>> /\ x[1] = l /\ x[2] = n /\ x[3] = p
    BY <2>2
  <2>4. n \in Nat /\ n >= 1 /\ n < from.len[l] + 1 /\ from.len[l] \in Nat
    BY <1>l, <2>2
  <2>5. PartRank[p] \in Nat /\ PartRank[p] >= 1
    BY PartsAre, PartRanks DEF Lists
  <2>6. Rank[l] \in Nat /\ (Rank[l] < Rank[g] <=> Rank[l] <= Rank[f]) /\ l \in Fields
    BY <1>n, <1>r, RanksDiffer
  <2>7. Earlier(x, d) <=> Rank[l] < Rank[g]
    <3>1. Rank[l] = Rank[g] => l = g
      BY <2>6, RanksDiffer
    <3>2. Rank[l] = Rank[g] => d[2] = 1 /\ PartRank[d[3]] = 1
      BY <1>d, <3>1
    <3> QED BY <1>d, <2>3, <2>4, <2>5, <3>2 DEF Earlier
  <2>8. Earlier(x, c) \/ x = c <=> Rank[l] <= Rank[f]
    <3>1. Rank[l] = Rank[f] => l = f
      BY <2>6, RanksDiffer
    <3>2. Rank[l] = Rank[f] => Earlier(x, c)
      BY <1>c, <2>3, <2>4, <3>1 DEF Earlier
    <3>3. x = c => l = f
      BY <1>c, <2>3
    <3>5. Earlier(x, c) => Rank[l] <= Rank[f]
      BY <1>c, <1>r, <2>3, <2>6 DEF Earlier
    <3>6. Rank[l] < Rank[f] => Earlier(x, c)
      BY <1>c, <2>3, ZenonT(60) DEF Earlier
    <3> QED BY <1>r, <2>6, <3>2, <3>3, <3>5, <3>6
  <2> QED BY <2>6, <2>7, <2>8 DEF d
<1> QED BY <1>1, <1>2, DueCases

\* The part after a part: none that the entry has is passed over, and both functions
\* come to the same, although only the sender knows whether there are data.
LEMMA PartFollows ==
  ASSUME JailInv, NEW l \in Lists, NEW n \in Nat \ {0}, NEW p \in PartsOf(l), p = "data" => n \in from.data,
         NEW c, c = <<l, n, p>>, NEW q, q = PartAfter(c)
  PROVE  /\ q = ReadAfter(l, p, Bytes(c)[3])
         /\ q = "end" \/ (q \in PartsOf(l) /\ (q = "data" => n \in from.data))
         /\ \A r \in PartsOf(l) : (r = "data" => n \in from.data) =>
              /\ PartRank[r] = PartRank[p] => r = p
              /\ IF q = "end" THEN PartRank[r] <= PartRank[p]
                 ELSE PartRank[r] < PartRank[q] <=> PartRank[r] <= PartRank[p]
<1>c. c[1] = l /\ c[2] = n /\ c[3] = p /\ c # Whole("fs_rules_fd")
  BY DEF Whole
<1>1. CASE l = "cgroups"
  <2>1. p = "path" /\ PartsOf(l) = {"path"}
    BY <1>1, PartsAre
  <2>2. q = "end"
    BY <1>1, <1>c, <2>1 DEF PartAfter, marshal_cgroup
  <2>3. \A v : ReadAfter(l, p, v) = "end"
    BY <1>1, <2>1 DEF ReadAfter
  <2> QED BY <2>1, <2>2, <2>3, PartRanks
<1>2. CASE l = "fs_rules"
  <2>1. PartsOf(l) = {"path", "flags"}
    BY <1>2, PartsAre
  <2>2. CASE p = "path"
    <3>1. q = "flags"
      BY <1>2, <1>c, <2>2 DEF PartAfter, marshal_fs_rule
    <3>2. \A v : ReadAfter(l, p, v) = "flags"
      BY <1>2, <2>2 DEF ReadAfter
    <3> QED BY <2>1, <2>2, <3>1, <3>2, PartRanks
  <2>3. CASE p = "flags"
    <3>1. q = "end"
      BY <1>2, <1>c, <2>3 DEF PartAfter, marshal_fs_rule
    <3>2. \A v : ReadAfter(l, p, v) = "end"
      BY <1>2, <2>3 DEF ReadAfter
    <3> QED BY <2>1, <2>3, <3>1, <3>2, PartRanks
  <2> QED BY <2>1, <2>2, <2>3, ZenonT(60)
<1>3. CASE l = "mounts"
  <2>1. PartsOf(l) = {"src", "dest", "type", "has_data", "data", "flags"}
    BY <1>3, PartsAre
  <2>2. q = marshal_mount(n)[p]
    BY <1>3, <1>c DEF PartAfter
  <2>3. CASE p = "src"
    <3>1. q = "dest" /\ \A v : ReadAfter(l, p, v) = "dest"
      BY <1>3, <2>2, <2>3 DEF marshal_mount, ReadAfter
    <3> QED BY <2>1, <2>3, <3>1, PartRanks
  <2>4. CASE p = "dest"
    <3>1. q = "type" /\ \A v : ReadAfter(l, p, v) = "type"
      BY <1>3, <2>2, <2>4 DEF marshal_mount, ReadAfter
    <3> QED BY <2>1, <2>4, <3>1, PartRanks
  <2>5. CASE p = "type"
    <3>1. q = "has_data" /\ \A v : ReadAfter(l, p, v) = "has_data"
      BY <1>3, <2>2, <2>5 DEF marshal_mount, ReadAfter
    <3> QED BY <2>1, <2>5, <3>1, PartRanks
  <2>6. CASE p = "has_data"
    <3>1. q = IF n \in from.data THEN "data" ELSE "flags"
      BY <2>2, <2>6 DEF marshal_mount
    <3>2. \A v : ReadAfter(l, p, v) = IF v = "zero" THEN "flags" ELSE "data"
      BY <1>3, <2>6 DEF ReadAfter
    <3>3. Bytes(c)[3] = IF n \in from.data THEN "has_data" ELSE "zero"
      BY <1>c, <2>6 DEF Bytes, Zero
    <3> QED BY <2>1, <2>6, <3>1, <3>2, <3>3, PartRanks
  <2>7. CASE p = "data"
    <3>1. q = "flags" /\ \A v : ReadAfter(l, p, v) = "flags"
      BY <1>3, <2>2, <2>7 DEF marshal_mount, ReadAfter
    <3> QED BY <2>1, <2>7, <3>1, PartRanks
  <2>8. CASE p = "flags"
    <3>1. q = "end" /\ \A v : ReadAfter(l, p, v) = "end"
      BY <1>3, <2>2, <2>8 DEF marshal_mount, ReadAfter
    <3> QED BY <2>1, <2>8, <3>1, PartRanks
  <2> QED BY <2>1, <2>3, <2>4, <2>5, <2>6, <2>7, <2>8, ZenonT(60)
<1> QED BY <1>1, <1>2, <1>3, ZenonT(60) DEF Lists

\* The place after a part of an entry.
LEMMA EntryFollows ==
  ASSUME JailInv, NEW l \in Lists, NEW n \in Nat, NEW p, NEW c, c = <<l, n, p>>, Due(c),
         NEW q, q = PartAfter(c),
         NEW d, d = (IF q = "end" THEN <<l, n + 1, First(l)>> ELSE <<l, n, q>>)
  PROVE  Follows(c, d) /\ Place(d) /\ d # Whole("filter") /\ q = ReadAfter(l, p, Bytes(c)[3])
<1>l. from.len \in [Lists -> Nat] /\ Lists \subseteq Fields
  BY DEF JailInv, JailOptions, Fields
<1>c. c[1] = l /\ c[2] = n /\ c[3] = p
  OBVIOUS
<1>1. n \in 1 .. from.len[l] /\ p \in PartsOf(l) /\ (p = "data" => n \in from.data)
  <2>1. ASSUME NEW h \in Fields \ (Lists \cup {"filter"}), c[1] = h PROVE FALSE
    BY <1>c, <2>1
  <2> QED BY <1>c, <2>1, DueCases
<1>2. n # 0 /\ n \in Nat \ {0} /\ n <= from.len[l]
  BY <1>1, <1>l
<1>3. /\ q = ReadAfter(l, p, Bytes(c)[3])
      /\ q = "end" \/ (q \in PartsOf(l) /\ (q = "data" => n \in from.data))
      /\ \A r \in PartsOf(l) : (r = "data" => n \in from.data) =>
           /\ PartRank[r] = PartRank[p] => r = p
           /\ IF q = "end" THEN PartRank[r] <= PartRank[p]
              ELSE PartRank[r] < PartRank[q] <=> PartRank[r] <= PartRank[p]
  BY <1>1, <1>2, PartFollows
<1>4. Place(d)
  <2>1. CASE q = "end" /\ n = from.len[l]
    BY <2>1, ZenonT(60) DEF Place
  <2>2. CASE q = "end" /\ n # from.len[l]
    <3>1. n + 1 \in 1 .. from.len[l] /\ First(l) \in PartsOf(l) /\ First(l) # "data"
      BY <1>l, <1>2, <2>2, PartsAre DEF First, Lists
    <3> QED BY <2>2, <3>1, ZenonT(60) DEF Place, Due
  <2>3. CASE q # "end"
    BY <1>1, <1>3, <2>3, ZenonT(60) DEF Place, Due
  <2> QED BY <2>1, <2>2, <2>3
<1>5. d # Whole("filter")
  BY DEF Whole, Lists
<1>d. /\ d[1] = l
      /\ q = "end" => d[2] = n + 1 /\ PartRank[d[3]] = 1
      /\ q # "end" => d[2] = n /\ d[3] = q
  BY PartRanks, ZenonT(60) DEF First
<1>6. ASSUME NEW x, Due(x) PROVE Earlier(x, d) <=> Earlier(x, c) \/ x = c
  <2>1. CASE \E h \in Fields \ (Lists \cup {"filter"}) :
               Written(h) /\ x = Whole(h) /\ x[1] = h /\ x[2] = 0 /\ x[3] = "whole"
    <3>1. PICK h \in Fields \ (Lists \cup {"filter"}) : x[1] = h
      BY <2>1, ZenonT(60)
    <3>2. Rank[h] # Rank[l] /\ x # c
      BY <1>l, <1>c, <3>1, RanksDiffer, ZenonT(60)
    <3> QED BY <1>c, <1>d, <3>1, <3>2, ZenonT(60) DEF Earlier
  <2>2. CASE \E m \in Lists : \E k \in 1 .. from.len[m] : \E r \in PartsOf(m) :
               x = <<m, k, r>> /\ x[1] = m /\ x[2] = k /\ x[3] = r /\ (r = "data" => k \in from.data)
    <3>1. PICK m \in Lists : \E k \in 1 .. from.len[m] : \E r \in PartsOf(m) :
               x = <<m, k, r>> /\ x[1] = m /\ x[2] = k /\ x[3] = r /\ (r = "data" => k \in from.data)
      BY <2>2, ZenonT(60)
    <3>2. PICK k \in 1 .. from.len[m] : \E r \in PartsOf(m) :
               x = <<m, k, r>> /\ x[1] = m /\ x[2] = k /\ x[3] = r /\ (r = "data" => k \in from.data)
      BY <3>1
    <3>3. PICK r \in PartsOf(m) :
               x = <<m, k, r>> /\ x[1] = m /\ x[2] = k /\ x[3] = r /\ (r = "data" => k \in from.data)
      BY <3>2, ZenonT(60)
    <3>4. k \in Nat
      BY <1>l
    <3>5. CASE m # l
      <4>1. Rank[m] # Rank[l] /\ x # c
        BY <1>l, <1>c, <3>3, <3>5, RanksDiffer, ZenonT(60)
      <4> QED BY <1>c, <1>d, <3>3, <4>1, ZenonT(60) DEF Earlier
    <3>6. CASE m = l /\ k # n
      <4>1. PartRank[r] \in Nat /\ PartRank[r] >= 1
        BY PartsAre, PartRanks DEF Lists
      <4>2. x # c /\ (Earlier(x, c) <=> k < n)
        BY <1>c, <3>3, <3>6, RanksDiffer, <1>l DEF Earlier
      <4>3. Earlier(x, d) <=> k < n
        BY <1>d, <3>3, <3>4, <3>6, <4>1, RanksDiffer, <1>l DEF Earlier
      <4> QED BY <4>2, <4>3
    <3>7. CASE m = l /\ k = n
      <4>1. PartRank[r] \in Nat /\ PartRank[p] \in Nat
        BY <1>1, PartsAre, PartRanks DEF Lists
      <4>2. /\ PartRank[r] = PartRank[p] => r = p
            /\ IF q = "end" THEN PartRank[r] <= PartRank[p]
               ELSE PartRank[r] < PartRank[q] <=> PartRank[r] <= PartRank[p]
        BY <1>3, <3>3, <3>7, ZenonT(60)
      <4>3. Rank[l] \in Nat
        BY <1>l, RanksDiffer
      <4>4. Earlier(x, c) <=> PartRank[r] < PartRank[p]
        BY <1>c, <3>3, <3>4, <3>7, <4>3 DEF Earlier
      <4>5. x = c <=> r = p
        BY <1>c, <3>3, <3>7, ZenonT(60)
      <4>6. Earlier(x, d) <=> q = "end" \/ PartRank[r] < PartRank[q]
        BY <1>d, <3>3, <3>4, <3>7, <4>3 DEF Earlier
      <4> QED BY <4>1, <4>2, <4>4, <4>5, <4>6
    <3> QED BY <3>5, <3>6, <3>7
  <2> QED BY <1>6, <2>1, <2>2, DueCases
<1> QED BY <1>3, <1>4, <1>5, <1>6, ZenonT(60) DEF Follows

\* The buffer before `pos' is what comes before k.
At(k) == pos \in 1 .. Len(buf) + 1 /\ \A i \in DOMAIN buf : i < pos <=> Earlier(buf[i], k)

\* A content that is due is the next in the buffer.
LEMMA ReadStep ==
  ASSUME JailInv, SenderInv, out = Whole("sent"), NEW k, Due(k), At(k), NEW d, Follows(k, d)
  PROVE  /\ ~AtEnd /\ buf[pos] = Bytes(k)
         /\ pos + 1 \in 1 .. Len(buf) + 1
         /\ \A i \in DOMAIN buf : i < pos + 1 <=> Earlier(buf[i], d)
<1>b. /\ buf \in Seq(Contents)
      /\ \A i, j \in DOMAIN buf : i < j => Earlier(buf[i], buf[j])
      /\ \A i \in DOMAIN buf : \E c : Due(c) /\ Earlier(c, out) /\ buf[i] = Bytes(c)
      /\ \A c : Due(c) /\ Earlier(c, out) => \E i \in DOMAIN buf : buf[i] = Bytes(c)
  BY DEF SenderInv
<1>s. Len(buf) \in Nat /\ DOMAIN buf = 1 .. Len(buf)
  BY <1>b
<1>1. PICK i \in DOMAIN buf : buf[i] = Bytes(k)
  BY <1>b, DueOrdered, ZenonT(60)
<1>o. /\ \A e : (Earlier(Bytes(k), e) <=> Earlier(k, e)) /\ (Earlier(e, Bytes(k)) <=> Earlier(e, k))
      /\ ~Earlier(k, k) /\ Ordered(k)
  BY BytesOrdered, DueOrdered, EarlierFacts
<1>2. i >= pos
  <2>1. ~Earlier(buf[i], k)
    BY <1>1, <1>o
  <2> QED BY <1>s, <2>1 DEF At
<1>3. i = pos
  <2> SUFFICES ASSUME i # pos PROVE FALSE
    OBVIOUS
  <2>1. pos \in DOMAIN buf /\ pos < i
    BY <1>s, <1>2 DEF At
  <2>2. Earlier(buf[pos], buf[i])
    BY <1>b, <2>1
  <2>3. Earlier(buf[pos], k)
    BY <1>1, <1>o, <2>2
  <2>4. pos < pos
    BY <2>1, <2>3 DEF At
  <2> QED BY <1>s, <2>4 DEF At
<1>4. /\ ~AtEnd /\ buf[pos] = Bytes(k) /\ pos + 1 \in 1 .. Len(buf) + 1 /\ pos \in Nat
  BY <1>s, <1>1, <1>3 DEF AtEnd, At
<1>5. ASSUME NEW j \in DOMAIN buf PROVE j < pos + 1 <=> Earlier(buf[j], d)
  <2>1. PICK x : Due(x) /\ buf[j] = Bytes(x)
    BY <1>b
  <2>2. Earlier(buf[j], d) <=> Earlier(x, d)
    BY <2>1, BytesOrdered
  <2>3. Earlier(buf[j], k) <=> Earlier(x, k)
    BY <2>1, BytesOrdered
  <2>4. Earlier(x, d) <=> Earlier(x, k) \/ x = k
    BY <2>1 DEF Follows
  <2>5. Earlier(k, d)
    BY DEF Follows
  <2>6. j = pos => Earlier(buf[j], d)
    BY <1>4, <1>o, <2>5, ZenonT(60)
  <2>7. x = k => j = pos
    <3> SUFFICES ASSUME x = k, j # pos PROVE FALSE
      OBVIOUS
    <3>1. buf[j] = buf[pos] /\ pos \in DOMAIN buf
      BY <1>1, <1>3, <2>1
    <3>2. j < pos \/ pos < j
      BY <1>s, <1>4
    <3>3. Earlier(Bytes(k), Bytes(k))
      BY <1>b, <1>4, <3>1, <3>2, ZenonT(60)
    <3> QED BY <1>o, <3>3
  <2>8. j < pos <=> Earlier(buf[j], k)
    BY DEF At
  <2>9. j < pos + 1 <=> j < pos \/ j = pos
    BY <1>s, <1>4
  <2> QED BY <2>2, <2>3, <2>4, <2>6, <2>7, <2>8, <2>9, ZenonT(60)
<1> QED BY <1>4, <1>5

\* A field without content changes nothing.
LEMMA SkipStep ==
  ASSUME JailInv, SenderInv, NEW k, ~Due(k), At(k), NEW d, Follows(k, d)
  PROVE  At(d)
<1>1. ASSUME NEW i \in DOMAIN buf PROVE Earlier(buf[i], k) <=> Earlier(buf[i], d)
  <2>1. PICK x : Due(x) /\ buf[i] = Bytes(x)
    BY DEF SenderInv
  <2>2. Earlier(x, d) <=> Earlier(x, k)
    BY <2>1 DEF Follows
  <2> QED BY <2>1, <2>2, BytesOrdered
<1> QED BY <1>1 DEF At

\* Either function may stand at the start of a field.
LEMMA StartPlace ==
  ASSUME JailInv, NEW g \in (Fields \ {"filter"}) \cup {"sent"}
  PROVE  Place(Start(g)) /\ Start(g) # Whole("filter")
<1>l. from.len \in [Lists -> Nat]
  BY ZenonT(60) DEF JailInv, JailOptions
<1>1. CASE g \notin Lists
  BY <1>1, ZenonT(60) DEF Place, Start, Whole
<1>2. CASE g \in Lists
  <2>1. Start(g) = <<g, 1, First(g)>> /\ Start(g) # Whole("filter")
    BY <1>2 DEF Start, Whole, Lists
  <2>2. CASE from.len[g] = 0
    BY <1>2, <2>1, <2>2 DEF Place
  <2>3. CASE from.len[g] # 0
    <3>1. 1 \in 1 .. from.len[g] /\ First(g) \in PartsOf(g) /\ First(g) # "data"
      BY <1>l, <1>2, <2>3, PartsAre DEF First, Lists
    <3> QED BY <1>2, <2>1, <3>1, ZenonT(60) DEF Place, Due
  <2> QED BY <2>1, <2>2, <2>3, ZenonT(60)
<1> QED BY <1>1, <1>2

\* minijail_marshal_helper() passes over no field.
LEMMA HelperRank ==
  ASSUME NEW f \in Fields \ {"filter"}, NEW g, g = minijail_marshal_helper[f]
  PROVE  /\ g \in (Fields \ {"filter"}) \cup {"sent"} /\ Rank[f] < Rank[g]
         /\ \A h \in Fields : Rank[f] < Rank[h] /\ Rank[h] < Rank[g] => h = "filter"
<1>1. /\ f = "user" => g = "suppl_gid_list" /\ Rank[f] = 1 /\ Rank[g] = 2
      /\ f = "suppl_gid_list" => g = "chrootdir" /\ Rank[f] = 2 /\ Rank[g] = 3
      /\ f = "chrootdir" => g = "hostname" /\ Rank[f] = 3 /\ Rank[g] = 4
      /\ f = "hostname" => g = "alt_syscall_table" /\ Rank[f] = 4 /\ Rank[g] = 5
      /\ f = "alt_syscall_table" => g = "filter_prog" /\ Rank[f] = 5 /\ Rank[g] = 6
      /\ f = "filter_prog" => g = "mounts" /\ Rank[f] = 6 /\ Rank[g] = 8
  BY Ranks DEF minijail_marshal_helper
<1>2. /\ f = "mounts" => g = "cgroups" /\ Rank[f] = 8 /\ Rank[g] = 9
      /\ f = "cgroups" => g = "fs_rules" /\ Rank[f] = 9 /\ Rank[g] = 10
      /\ f = "fs_rules" => g = "fs_rules_fd" /\ Rank[f] = 10 /\ Rank[g] = 11
      /\ f = "fs_rules_fd" => g = "seccomp_policy_path" /\ Rank[f] = 11 /\ Rank[g] = 12
      /\ f = "seccomp_policy_path" => g = "sent" /\ Rank[f] = 12 /\ Rank[g] = 13
  BY Ranks, RanksDiffer DEF minijail_marshal_helper
<1>3. \A h \in Fields : Rank[h] \in Nat /\ (Rank[h] = 7 => h = "filter")
  BY NamesAre, Ranks
<1>4. f \in {"user", "suppl_gid_list", "chrootdir", "hostname", "alt_syscall_table", "filter_prog",
             "mounts", "cgroups", "fs_rules", "fs_rules_fd", "seccomp_policy_path"}
  BY NamesAre
<1>5. g \in (Fields \ {"filter"}) \cup {"sent"}
  BY <1>1, <1>2, <1>4, NamesAre, ZenonT(60)
<1>6. Rank[f] \in Nat /\ Rank[g] \in Nat /\ (Rank[g] = Rank[f] + 1 \/ (Rank[f] = 6 /\ Rank[g] = 8))
  BY <1>1, <1>2, <1>4
<1> QED BY <1>3, <1>5, <1>6

\* minijail_unmarshal() passes over no field that has content.
LEMMA AfterRank ==
  ASSUME JailInv, CountInv, NEW f \in Fields, NEW g, g = After(f)
  PROVE  /\ g \in Fields \cup {"returned"} /\ Rank[f] < Rank[g]
         /\ \A h \in Fields : Rank[f] < Rank[h] /\ Rank[h] < Rank[g] =>
                                h \notin Lists /\ (h = "filter" \/ ~Written(h))
<1>c. from.count["filter_prog"] > 0 <=> Has(from, "filter_prog")
  BY CountsAre, ZenonT(60)
<1>1. /\ f = "user" => g = "suppl_gid_list" /\ Rank[f] = 1 /\ Rank[g] = 2
      /\ f = "suppl_gid_list" => g = "chrootdir" /\ Rank[f] = 2 /\ Rank[g] = 3
      /\ f = "chrootdir" => g = "hostname" /\ Rank[f] = 3 /\ Rank[g] = 4
      /\ f = "hostname" => g = "alt_syscall_table" /\ Rank[f] = 4 /\ Rank[g] = 5
      /\ f = "filter_prog" => g = "filter" /\ Rank[f] = 6 /\ Rank[g] = 7
      /\ f = "filter" => g = "mounts" /\ Rank[f] = 7 /\ Rank[g] = 8
  BY Ranks, AfterSent, AfterOthers, ZenonT(60)
<1>2. /\ f = "mounts" => g = "cgroups" /\ Rank[f] = 8 /\ Rank[g] = 9
      /\ f = "cgroups" => g = "fs_rules" /\ Rank[f] = 9 /\ Rank[g] = 10
      /\ f = "fs_rules" => g = "fs_rules_fd" /\ Rank[f] = 10 /\ Rank[g] = 11
      /\ f = "fs_rules_fd" => g = "seccomp_policy_path" /\ Rank[f] = 11 /\ Rank[g] = 12
      /\ f = "seccomp_policy_path" => g = "returned" /\ Rank[f] = 12 /\ Rank[g] = 13
  BY Ranks, RanksDiffer, AfterOthers, ZenonT(60)
<1>3. f = "alt_syscall_table" =>
        /\ Rank[f] = 5
        /\ \/ g = "filter_prog" /\ Rank[g] = 6
           \/ g = "mounts" /\ Rank[g] = 8 /\ ~Written("filter_prog")
  BY <1>c, Ranks, AfterOthers DEF Written
<1>4. \A h \in Fields : Rank[h] \in Nat /\ (Rank[h] = 7 => h = "filter") /\ (Rank[h] = 6 => h = "filter_prog")
  BY NamesAre, Ranks
<1>5. g \in Fields \cup {"returned"}
  BY <1>1, <1>2, <1>3, NamesAre, ZenonT(60)
<1>6. CASE f # "alt_syscall_table"
  <2>1. Rank[f] \in Nat /\ Rank[g] \in Nat /\ Rank[g] = Rank[f] + 1
    BY <1>1, <1>2, <1>6, NamesAre
  <2> QED BY <1>4, <1>5, <2>1
<1>7. CASE f = "alt_syscall_table"
  <2>1. ASSUME NEW h \in Fields, Rank[f] < Rank[h], Rank[h] < Rank[g]
        PROVE  h \notin Lists /\ (h = "filter" \/ ~Written(h))
    <3>1. ~Written("filter_prog") /\ (Rank[h] = 6 \/ Rank[h] = 7)
      BY <1>3, <1>4, <1>7, <2>1
    <3> QED BY <1>4, <3>1 DEF Lists
  <2> QED BY <1>3, <1>5, <1>7, <2>1
<1> QED BY <1>6, <1>7, ZenonT(60)

\* What is due is a matter of the jail that is sent.
LEMMA StreamSame ==
  ASSUME from' = from
  PROVE  /\ \A c : Due(c)' <=> Due(c)
         /\ \A c : Bytes(c)' = Bytes(c)
         /\ \A c : Place(c)' <=> Place(c)
         /\ UNCHANGED sender => (SenderInv' <=> SenderInv)
BY DEF Due, Bytes, Zero, Written, Has, Place, SenderInv, sender

\* minijail_marshal() comes to the next field, or writes a part of an entry.
LEMMA SenderStep ==
  ASSUME JailInv, SenderInv, WriteField \/ WritePart
  PROVE  SenderInv'
<1>l. from.len \in [Lists -> Nat] /\ Lists \subseteq Fields /\ "filter" \notin Lists
  BY ZenonT(60) DEF JailInv, JailOptions, Fields, Lists
<1>p. Place(out) /\ out # Whole("filter")
  BY ZenonT(60) DEF SenderInv
<1>1. CASE WriteField
  <2>0. /\ from' = from /\ out[1] \notin Lists \cup {"sent"}
        /\ out' = Start(minijail_marshal_helper[out[1]])
        /\ IF Written(out[1]) THEN buf' = Append(buf, Bytes(out)) ELSE buf' = buf
    BY <1>1, ZenonT(60) DEF WriteField, caller, marshal_append
  <2>1. PICK f \in Fields \ Lists : out = Whole(f)
    <3>1. CASE Due(out)
      BY <2>0, <3>1, DueCases, ZenonT(60)
    <3>2. ASSUME NEW l \in Lists, out = <<l, from.len[l] + 1, First(l)>> PROVE FALSE
      BY <2>0, <3>2, ZenonT(60)
    <3>3. out # Whole("sent")
      BY <2>0 DEF Whole
    <3> QED BY <1>p, <3>1, <3>2, <3>3, ZenonT(60) DEF Place
  <2>2. out[1] = f /\ f # "filter"
    BY <1>p, <2>1 DEF Whole
  <2>3. Due(out) <=> Written(f)
    <3>1. Written(f) => Due(out)
      BY <2>1, <2>2 DEF Due
    <3>2. Due(out) => Written(f)
      BY <2>1, <2>2, DueCases, ZenonT(60)
    <3> QED BY <3>1, <3>2
  <2>4. PICK g : g = minijail_marshal_helper[f]
    OBVIOUS
  <2>5. /\ g \in (Fields \ {"filter"}) \cup {"sent"} /\ Rank[f] < Rank[g]
        /\ \A h \in Fields : Rank[f] < Rank[h] /\ Rank[h] < Rank[g] => h = "filter"
    BY <2>2, <2>4, HelperRank
  <2>6. Follows(out, Start(g))
    BY <1>l, <2>1, <2>5, FieldFollows
  <2>7. Place(Start(g)) /\ Start(g) # Whole("filter")
    BY <2>5, StartPlace
  <2> QED BY <2>0, <2>2, <2>3, <2>4, <2>6, <2>7, WriteStep, ZenonT(60)
<1>2. CASE WritePart
  <2>0. /\ from' = from /\ out[1] \in Lists
        /\ IF out[2] <= from.len[out[1]]
           THEN /\ buf' = Append(buf, Bytes(out))
                /\ out' = IF PartAfter(out) = "end" THEN <<out[1], out[2] + 1, First(out[1])>>
                          ELSE <<out[1], out[2], PartAfter(out)>>
           ELSE out' = Start(minijail_marshal_helper[out[1]]) /\ buf' = buf
    BY <1>2, ZenonT(60) DEF WritePart, caller, marshal_append
  <2>1. PICK l \in Lists : out[1] = l
    BY <2>0, ZenonT(60)
  <2>w. \A f : f \notin Lists => out # Whole(f)
    BY <2>1 DEF Whole
  <2>2. CASE Due(out)
    <3>1. PICK n \in 1 .. from.len[l] : \E p \in PartsOf(l) : out = <<l, n, p>>
      BY <2>1, <2>2, <2>w, DueCases
    <3>2. PICK p \in PartsOf(l) : out = <<l, n, p>>
      BY <3>1
    <3>3. n \in Nat /\ n <= from.len[l] /\ out[2] = n
      BY <1>l, <3>2
    <3>4. PICK q : q = PartAfter(out)
      OBVIOUS
    <3>5. PICK d : d = IF q = "end" THEN <<l, n + 1, First(l)>> ELSE <<l, n, q>>
      BY ZenonT(60)
    <3>6. Follows(out, d) /\ Place(d) /\ d # Whole("filter")
      BY <2>2, <3>2, <3>3, <3>4, <3>5, EntryFollows
    <3>7. buf' = Append(buf, Bytes(out)) /\ out' = d
      BY <2>0, <2>1, <3>3, <3>4, <3>5, ZenonT(60)
    <3> QED BY <2>0, <2>2, <3>6, <3>7, WriteStep, ZenonT(60)
  <2>3. CASE ~Due(out)
    <3>1. PICK m \in Lists : out = <<m, from.len[m] + 1, First(m)>>
      <4>1. \A f \in (Fields \ Lists) \cup {"sent"} : out # Whole(f)
        BY <2>w DEF Lists
      <4> QED BY <1>p, <2>3, <4>1, ZenonT(60) DEF Place
    <3>2. m = l /\ out[2] = from.len[l] + 1
      BY <2>1, <3>1, ZenonT(60)
    <3>3. ~(out[2] <= from.len[l])
      BY <1>l, <3>2
    <3>4. PICK g : g = minijail_marshal_helper[l]
      OBVIOUS
    <3>5. /\ g \in (Fields \ {"filter"}) \cup {"sent"} /\ Rank[l] < Rank[g]
          /\ \A h \in Fields : Rank[l] < Rank[h] /\ Rank[h] < Rank[g] => h = "filter"
      BY <1>l, <3>4, HelperRank, ZenonT(60)
    <3>6. Follows(out, Start(g))
      BY <1>l, <3>1, <3>2, <3>5, FieldFollows, ZenonT(60)
    <3>7. Place(Start(g)) /\ Start(g) # Whole("filter")
      BY <3>5, StartPlace
    <3>8. out' = Start(g) /\ buf' = buf
      BY <2>0, <2>1, <3>3, <3>4, ZenonT(60)
    <3> QED BY <2>0, <2>3, <3>6, <3>7, <3>8, WriteStep, ZenonT(60)
  <2> QED BY <2>2, <2>3
<1> QED BY <1>1, <1>2

\* minijail_unmarshal() goes on to the next field, past the content of this one if
\* there is any.
LEMMA ReaderNext ==
  ASSUME JailInv, CountInv, CopyInv, SenderInv, out = Whole("sent"), ReaderInv,
         NEW f \in Fields, pc = f, f \in Lists => len[f] = from.len[f],
         NEW g, g = After(f), pc' = g, from' = from, len' = len, UNCHANGED sender,
         g \in Lists => part' = First(g),
         \/ Due(Cursor) /\ pos' = pos + 1
         \/ ~Due(Cursor) /\ pos' = pos
  PROVE  ReaderInv' /\ (Due(Cursor) => buf[pos] = Bytes(Cursor) /\ ~AtEnd)
<1>l. from.len \in [Lists -> Nat] /\ "filter" \notin Lists /\ "returned" \notin Lists
  BY ZenonT(60) DEF JailInv, JailOptions, Lists
<1>1. At(Cursor)
  BY ZenonT(60) DEF ReaderInv, At
<1>2. /\ g \in Fields \cup {"returned"} /\ Rank[f] < Rank[g]
      /\ \A h \in Fields : Rank[f] < Rank[h] /\ Rank[h] < Rank[g] =>
                             h \notin Lists /\ (h = "filter" \/ ~Written(h))
  BY AfterRank, ZenonT(60)
<1>3. Cursor = IF f \in Lists THEN <<f, from.len[f] + 1, First(f)>> ELSE Whole(f)
  <2>1. CASE f \notin Lists
    BY <2>1, ZenonT(60) DEF Cursor
  <2>2. CASE f \in Lists
    <3>1. Cursor = <<f, from.len[f] + 1, part>> /\ Place(Cursor)
      BY <2>2, ZenonT(60) DEF Cursor, ReaderInv
    <3>2. ~Due(Cursor)
      <4> SUFFICES ASSUME Due(Cursor) PROVE FALSE
        BY ZenonT(60)
      <4>1. Cursor[1] = f /\ Cursor[2] = from.len[f] + 1
        BY <3>1, ZenonT(60)
      <4>2. from.len[f] + 1 \in 1 .. from.len[f]
        BY <2>2, <4>1, DueCases, ZenonT(60)
      <4> QED BY <1>l, <2>2, <4>2
    <3>3. \A h : h \notin Lists => Cursor # Whole(h)
      BY <2>2, <3>1, ZenonT(60) DEF Whole
    <3>4. PICK l \in Lists : Cursor = <<l, from.len[l] + 1, First(l)>>
      <4>1. \A h \in (Fields \ Lists) \cup {"sent"} : Cursor # Whole(h)
        BY <3>3, ZenonT(60) DEF Lists
      <4> QED BY <3>1, <3>2, <4>1, ZenonT(60) DEF Place
    <3> QED BY <2>2, <3>1, <3>4
  <2> QED BY <2>1, <2>2, ZenonT(60)
<1>4. Follows(Cursor, Start(g))
  BY <1>2, <1>3, FieldFollows, ZenonT(60)
<1>5. Cursor' = Start(g)
  <2>1. CASE g \notin Lists
    BY <2>1, ZenonT(60) DEF Cursor, Start
  <2>2. CASE g \in Lists
    <3>1. Rank[g] > Rank[f] /\ Arrived(Rank[f])
      BY <1>2, RanksDiffer, ZenonT(60) DEF CopyInv
    <3>2. len[g] = 0
      BY <2>2, <3>1, ZenonT(60) DEF Arrived
    <3> QED BY <2>2, <3>2 DEF Cursor, Start
  <2> QED BY <2>1, <2>2, ZenonT(60)
<1>6. g \in Lists => Place(Cursor)'
  <2> SUFFICES ASSUME g \in Lists PROVE Place(Cursor)'
    BY ZenonT(60)
  <2>1. Place(Start(g))
    BY <1>l, <1>2, StartPlace, ZenonT(60)
  <2>2. Place(Start(g))'
    BY <2>1, StreamSame, ZenonT(60)
  <2> QED BY <1>5, <2>2, ZenonT(60) DEF Place, Due
<1>7. CASE Due(Cursor) /\ pos' = pos + 1
  <2>1. /\ ~AtEnd /\ buf[pos] = Bytes(Cursor) /\ pos + 1 \in 1 .. Len(buf) + 1
        /\ \A i \in DOMAIN buf : i < pos + 1 <=> Earlier(buf[i], Start(g))
    BY <1>1, <1>4, <1>7, ReadStep, ZenonT(60)
  <2> QED BY <1>5, <1>6, <1>7, <2>1, ZenonT(60) DEF ReaderInv, sender
<1>8. CASE ~Due(Cursor) /\ pos' = pos
  <2>1. At(Start(g))
    BY <1>1, <1>4, <1>8, SkipStep, ZenonT(60)
  <2> QED BY <1>5, <1>6, <1>8, <2>1, ZenonT(60) DEF ReaderInv, At, sender
<1> QED BY <1>7, <1>8, ZenonT(60)

\* The copy takes a pointer of the sender as the sign of a content, and there is one.
LEMMA ConsumesDue ==
  ASSUME JailInv, CopyInv, NEW f \in Fields \cap Pointers, pc = f
  PROVE  Consumes(f) <=> Due(Whole(f))
<1>n. f \notin Lists /\ f # "fs_rules_fd" /\ f \notin Unsent
  BY NamesAre DEF Lists, Unsent
<1>1. Arrived(Rank[f]) /\ (f \in Program => Carried(f)) /\ Rank[f] \in Nat
  BY RanksDiffer DEF CopyInv
<1>2. CASE f = "filter"
  <2>1. ~Due(Whole(f))
    <3> SUFFICES ASSUME Due(Whole(f)) PROVE FALSE
      OBVIOUS
    <3>1. Whole(f)[1] = "filter"
      BY <1>2 DEF Whole
    <3> QED BY <3>1, DueCases, ZenonT(60) DEF Lists
  <2> QED BY <1>2, <2>1 DEF Consumes
<1>3. CASE f # "filter"
  <2>1. Due(Whole(f)) <=> Written(f)
    <3>1. Written(f) => Due(Whole(f))
      BY <1>n, <1>3 DEF Due
    <3>2. Whole(f)[1] = f
      BY DEF Whole
    <3>3. Due(Whole(f)) => Written(f)
      BY <1>n, <3>2, DueCases, ZenonT(60)
    <3> QED BY <3>1, <3>3
  <2>2. CASE f = "filter_prog"
    <3>1. Present(f) /\ Written(f)
      BY <1>1, <2>2 DEF Present, Program, Carried, Written
    <3> QED BY <1>3, <2>1, <3>1 DEF Consumes
  <2>3. CASE f # "filter_prog"
    <3>1. f \notin Program
      BY <1>3, <2>3 DEF Program
    <3>2. Carried(f) <=> Has(from, f)
      BY <1>n, <3>1 DEF Carried
    <3>3. ptr[f] = "from" <=> Carried(f)
      BY <1>1, <3>1 DEF Arrived
    <3>4. Written(f) <=> Has(from, f)
      BY <1>n, <2>3 DEF Written
    <3> QED BY <1>3, <2>1, <3>1, <3>2, <3>3, <3>4 DEF Consumes, Present
  <2> QED BY <2>2, <2>3
<1> QED BY <1>2, <1>3

\* A part of an entry is consumed.
LEMMA ReaderPart ==
  ASSUME JailInv, CountInv, CopyInv, SenderInv, out = Whole("sent"), ReaderInv,
         NEW l \in Fields, AddPart(l)
  PROVE  ReaderInv' /\ buf[pos] = Bytes(<<l, len[l] + 1, part>>)
<1>0. /\ pc = l /\ l \in Lists /\ len[l] < from.len[l] /\ from' = from /\ pc' = l /\ UNCHANGED sender
      /\ len \in [Lists -> Nat] /\ from.len \in [Lists -> Nat]
  BY CountsAre, ZenonT(60) DEF AddPart, Reading, caller, CopyInv, JailInv, JailOptions
<1>1. PICK n \in Nat : n = len[l] + 1
  BY <1>0
<1>2. PICK c : c = <<l, n, part>>
  BY ZenonT(60)
<1>3. Cursor = c /\ Place(c) /\ At(c)
  BY <1>0, <1>1, <1>2, ZenonT(60) DEF Cursor, ReaderInv, At
<1>4. Due(c)
  <2>1. c[1] = l /\ c[2] = n /\ n # from.len[l] + 1
    BY <1>0, <1>1, <1>2
  <2>2. ASSUME NEW f \in (Fields \ Lists) \cup {"sent"}, c = Whole(f) PROVE FALSE
    <3>1. c[1] = f
      BY <2>2 DEF Whole
    <3> QED BY <1>0, <2>1, <3>1 DEF Lists
  <2>3. ASSUME NEW m \in Lists, c = <<m, from.len[m] + 1, First(m)>> PROVE FALSE
    BY <2>1, <2>3
  <2> QED BY <1>3, <2>2, <2>3 DEF Place
<1>5. PICK q : q = PartAfter(c)
  OBVIOUS
<1>6. PICK d : d = IF q = "end" THEN <<l, n + 1, First(l)>> ELSE <<l, n, q>>
  BY ZenonT(60)
<1>7. Follows(c, d) /\ Place(d) /\ q = ReadAfter(l, part, Bytes(c)[3])
  BY <1>0, <1>2, <1>4, <1>5, <1>6, EntryFollows, ZenonT(60)
<1>8. /\ ~AtEnd /\ buf[pos] = Bytes(c) /\ pos + 1 \in 1 .. Len(buf) + 1
      /\ \A i \in DOMAIN buf : i < pos + 1 <=> Earlier(buf[i], d)
  BY <1>3, <1>4, <1>7, ReadStep, ZenonT(60)
<1>9. /\ pos' = pos + 1
      /\ part' = IF q = "end" THEN First(l) ELSE q
      /\ len'  = IF q = "end" THEN [len EXCEPT ![l] = @ + 1] ELSE len
  BY <1>7, <1>8 DEF AddPart, Consume
<1>10. Cursor' = d
  <2>1. len'[l] + 1 = IF q = "end" THEN n + 1 ELSE n
    BY <1>0, <1>1, <1>9
  <2> QED BY <1>0, <1>6, <1>9, <2>1 DEF Cursor
<1>11. Place(Cursor)'
  <2>1. Place(d)'
    BY <1>0, <1>7, StreamSame, ZenonT(60)
  <2> QED BY <1>10, <2>1, ZenonT(60) DEF Place, Due
<1>12. ReaderInv'
  BY <1>0, <1>8, <1>9, <1>10, <1>11, ZenonT(60) DEF ReaderInv, sender
<1> QED BY <1>1, <1>2, <1>8, <1>12

\* Nothing comes before the user.
LEMMA NoneBefore ==
  ASSUME JailInv, NEW c, Due(c)
  PROVE  ~Earlier(c, Whole("user"))
<1> DEFINE d == Whole("user")
<1>1. d[1] = "user" /\ d[2] = 0 /\ d[3] = "whole" /\ Rank["user"] = 1
  BY Ranks DEF Whole
<1> HIDE DEF d
<1>2. CASE \E h \in Fields \ (Lists \cup {"filter"}) :
             Written(h) /\ c = Whole(h) /\ c[1] = h /\ c[2] = 0 /\ c[3] = "whole"
  BY <1>1, <1>2, RanksDiffer, PartRanks DEF Earlier, d
<1>3. CASE \E l \in Lists : c[1] = l
  <2>1. PICK l \in Lists : c[1] = l
    BY <1>3
  <2>2. Rank[l] \in Nat /\ Rank[l] > 1
    BY Ranks DEF Lists
  <2>3. ~(Rank[l] < 1) /\ Rank[l] # 1
    BY <2>2
  <2> QED BY <1>1, <2>1, <2>3 DEF Earlier, d
<1> QED BY <1>2, <1>3, DueCases

\* The stream agrees with both functions after each step of either.
LEMMA StreamStep ==
  ASSUME JailInv, CountInv, CopyInv, StreamInv, [Next]_vars
  PROVE  StreamInv'
<1>n. /\ Fields \cap {"configure", "crashed", "marshal", "returned", "destroyed", "done"} = {}
      /\ Range(Sent) \cup Program \subseteq Fields \ Lists
      /\ Lists \subseteq Fields /\ Range(Sent) \subseteq Pointers
  BY NamesAre, SentAre DEF Lists, Program
<1>q. Range(Sent) \cup Program =
        {"user", "suppl_gid_list", "chrootdir", "hostname", "alt_syscall_table", "filter_prog", "filter"}
  BY SentAre DEF Program
<1>g. \A g \in got : g[2] = Bytes(g[1])
  BY DEF StreamInv
<1>f. ASSUME NEW f \in Fields, pc = f
      PROVE  SenderInv /\ out = Whole("sent") /\ ReaderInv
  BY <1>f DEF StreamInv
<1>1. CASE Configure
  <2>1. pc = "configure" /\ pc' = "configure" /\ UNCHANGED <<sender, input>>
    BY <1>1, ConfigureCopy DEF copy
  <2>2. /\ out = Whole("user") /\ buf = <<>> /\ pos = 1 /\ got = {} /\ part = "src"
        /\ UNCHANGED <<out, buf, pos, got, part>>
    BY <2>1 DEF StreamInv, sender, input
  <2> QED BY <1>n, <2>1, <2>2, ZenonT(60) DEF StreamInv
<1>2. CASE minijail_size
  <2>1. /\ pc = "configure" /\ pc' \in {"crashed", "marshal"} /\ from' = from
        /\ UNCHANGED <<out, buf, pos, got, part>>
    BY <1>2, ZenonT(60) DEF minijail_size, caller, copy, sender, input
  <2>2. /\ out = Whole("user") /\ buf = <<>> /\ pos = 1 /\ got = {} /\ part = "src"
    BY <2>1 DEF StreamInv
  <2>3. SenderInv
    <3>1. Place(out) /\ out # Whole("filter")
      BY <2>2, NamesAre DEF Place, Whole, Lists
    <3>2. buf \in Seq(Contents) /\ DOMAIN buf = {}
      BY <2>2
    <3>3. \A c : Due(c) => ~Earlier(c, out)
      BY <2>2, NoneBefore
    <3> QED BY <3>1, <3>2, <3>3 DEF SenderInv
  <2>4. SenderInv'
    BY <2>1, <2>3, StreamSame DEF sender
  <2> QED BY <1>n, <2>1, <2>2, <2>4, ZenonT(60) DEF StreamInv
<1>3. CASE WriteField \/ WritePart
  <2>1. pc = "marshal" /\ pc' = "marshal" /\ UNCHANGED <<pos, got, part>>
    BY <1>3, ZenonT(60) DEF WriteField, WritePart, input
  <2>2. SenderInv /\ pos = 1 /\ got = {} /\ part = "src"
    BY <2>1 DEF StreamInv
  <2>3. SenderInv'
    BY <1>3, <2>2, SenderStep
  <2> QED BY <1>n, <2>1, <2>2, <2>3, ZenonT(60) DEF StreamInv
<1>4. CASE CopyStruct
  <2>1. /\ pc = "marshal" /\ pc' = "user" /\ out[1] = "sent" /\ from' = from
        /\ UNCHANGED sender /\ UNCHANGED <<pos, got, part>>
    BY <1>4, SentAre DEF CopyStruct, caller, sender, input
  <2>2. SenderInv /\ pos = 1 /\ got = {} /\ part = "src" /\ "user" \in Fields \ Lists
    BY <2>1, NamesAre DEF StreamInv, Lists
  <2>3. out = Whole("sent")
    <3>1. ~Due(out)
      BY <2>1, DueCases, NamesAre DEF Lists
    <3>2. Place(out)
      BY <2>2 DEF SenderInv
    <3>3. \A l \in Lists : out # <<l, from.len[l] + 1, First(l)>>
      BY <2>1 DEF Lists
    <3> QED BY <2>1, <3>1, <3>2, <3>3, NamesAre DEF Place, Whole
  <2>4. SenderInv' /\ out' = Whole("sent")
    BY <2>1, <2>2, <2>3, StreamSame DEF sender
  <2>5. ReaderInv'
    <3>1. Cursor' = Whole("user") /\ pc' \notin Lists
      BY <2>1, <2>2 DEF Cursor
    <3>2. buf \in Seq(Contents) /\ Len(buf) \in Nat
      BY <2>2 DEF SenderInv
    <3>3. ASSUME NEW i \in DOMAIN buf PROVE i >= 1 /\ ~Earlier(buf[i], Whole("user"))
      <4>1. PICK c : Due(c) /\ buf[i] = Bytes(c)
        BY <2>2 DEF SenderInv
      <4>2. ~Earlier(c, Whole("user"))
        BY <4>1, NoneBefore
      <4> QED BY <3>2, <4>1, <4>2, BytesOrdered
    <3> QED BY <2>1, <2>2, <3>1, <3>2, <3>3 DEF ReaderInv, sender
  <2> QED BY <1>n, <2>1, <2>2, <2>4, <2>5, ZenonT(60) DEF StreamInv
\* A step of minijail_unmarshal(), with what it has to show.
<1>r. ASSUME NEW f \in Fields, pc = f, pc' \in Fields \cup {"returned"}, from' = from, UNCHANGED sender,
             ReaderInv',
             pc' \in Range(Sent) \cup Program => part' = "src",
             \A g \in got' : g \in got \/ g[2] = Bytes(g[1])
      PROVE  StreamInv'
  <2>1. SenderInv' /\ out' = Whole("sent")
    BY <1>f, <1>r, StreamSame DEF sender
  <2>2. \A g \in got' : g[2] = Bytes(g[1])'
    BY <1>g, <1>r, StreamSame
  <2>3. pc' \notin {"configure", "marshal"}
    BY <1>n, <1>r, ZenonT(60)
  <2> QED BY <1>r, <2>1, <2>2, <2>3, ZenonT(60) DEF StreamInv
<1>5. ASSUME NEW f \in Fields, Allocate(f) PROVE StreamInv'
  <2>0. /\ pc = f /\ f \in Pointers /\ pc' = After(f) /\ from' = from /\ len' = len /\ UNCHANGED sender
        /\ part' = part
        /\ IF Consumes(f) THEN Consume(Whole(f)) ELSE pos' = pos /\ got' = got
    BY <1>5 DEF Allocate, caller
  <2>1. f \notin Lists /\ Cursor = Whole(f)
    BY <2>0, NamesAre DEF Lists, Cursor
  <2>2. Consumes(f) <=> Due(Cursor)
    BY <2>0, <2>1, ConsumesDue
  <2>3. PICK g : g = After(f)
    OBVIOUS
  <2>4. /\ g \in Fields \cup {"returned"}
        /\ f = "seccomp_policy_path" \/ f \in Range(Sent) \cup Program
        /\ g \in Lists \cup Range(Sent) \cup Program => f \in Range(Sent) \cup Program
        /\ g \in Lists => g = "mounts"
    BY <1>q, <2>0, <2>3, NamesAre, AfterSent, AfterOthers, ZenonT(60) DEF Lists
  <2>5. f \in Range(Sent) \cup Program => part = "src"
    BY <2>0 DEF StreamInv
  <2>6. \/ Due(Cursor) /\ pos' = pos + 1
        \/ ~Due(Cursor) /\ pos' = pos
    BY <2>0, <2>2, ZenonT(60) DEF Consume
  <2>7. ReaderInv' /\ (Due(Cursor) => buf[pos] = Bytes(Cursor))
    <3>1. g \in Lists => part' = First(g)
      BY <2>0, <2>4, <2>5 DEF First
    <3> QED BY <1>f, <2>0, <2>1, <2>3, <2>6, <3>1, ReaderNext, ZenonT(60)
  <2>8. \A x \in got' : x \in got \/ x[2] = Bytes(x[1])
    <3>1. CASE Consumes(f)
      <4>1. got' = got \cup {<<Cursor, buf[pos]>>}
        BY <2>0, <2>1, <3>1 DEF Consume
      <4> QED BY <2>2, <2>7, <3>1, <4>1
    <3>2. CASE ~Consumes(f)
      BY <2>0, <3>2, ZenonT(60)
    <3> QED BY <3>1, <3>2
  <2> QED BY <1>r, <2>0, <2>3, <2>4, <2>5, <2>7, <2>8, ZenonT(60)
<1>6. ASSUME NEW f \in Fields, ListDone(f) PROVE StreamInv'
  <2>0. /\ pc = f /\ f \in Lists /\ len[f] = from.len[f] /\ pc' = After(f) /\ from' = from /\ len' = len
        /\ UNCHANGED sender /\ part' = First(After(f)) /\ pos' = pos /\ got' = got
    BY <1>6, CountsAre DEF ListDone, caller
  <2>1. ~Due(Cursor)
    <3> SUFFICES ASSUME Due(Cursor) PROVE FALSE
      BY ZenonT(60)
    <3>1. Cursor[1] = f /\ Cursor[2] = from.len[f] + 1 /\ from.len[f] \in Nat
      BY <2>0, ZenonT(60) DEF Cursor, JailInv, JailOptions
    <3>2. from.len[f] + 1 \in 1 .. from.len[f]
      BY <2>0, <3>1, DueCases, ZenonT(60)
    <3> QED BY <3>1, <3>2
  <2>2. ReaderInv'
    BY <1>f, <2>0, <2>1, ReaderNext, ZenonT(60)
  <2>3. After(f) \in Fields /\ After(f) \notin Range(Sent) \cup Program
    BY <1>q, <2>0, NamesAre, AfterOthers, ZenonT(60) DEF Lists
  <2> QED BY <1>r, <2>0, <2>2, <2>3, ZenonT(60)
<1>7. CASE RulesFd
  <2>0. /\ pc = "fs_rules_fd" /\ Consume(Whole("fs_rules_fd")) /\ pc' = "seccomp_policy_path"
        /\ from' = from /\ len' = len /\ UNCHANGED sender /\ part' = part
    BY <1>7, AfterOthers DEF RulesFd, caller
  <2>1. "fs_rules_fd" \in Fields /\ "seccomp_policy_path" \in Fields \ (Range(Sent) \cup Program)
        /\ "fs_rules_fd" \notin Lists /\ "seccomp_policy_path" \notin Lists
    BY <1>q, NamesAre DEF Lists
  <2>2. Cursor = Whole("fs_rules_fd") /\ Due(Cursor)
    BY <2>0, <2>1, ZenonT(60) DEF Cursor, Due, Written
  <2>3. ReaderInv' /\ buf[pos] = Bytes(Cursor)
    BY <1>f, <2>0, <2>1, <2>2, AfterOthers, ReaderNext, ZenonT(60) DEF Consume
  <2>4. \A x \in got' : x \in got \/ x[2] = Bytes(x[1])
    BY <2>0, <2>2, <2>3 DEF Consume
  <2> QED BY <1>r, <2>0, <2>1, <2>3, <2>4, ZenonT(60)
<1>8. ASSUME NEW f \in Fields, AddPart(f) PROVE StreamInv'
  <2>0. /\ pc = f /\ f \in Lists /\ pc' = f /\ from' = from /\ UNCHANGED sender
        /\ got' = got \cup {<<<<f, len[f] + 1, part>>, buf[pos]>>}
    BY <1>8, ZenonT(60) DEF AddPart, Reading, Consume, caller
  <2>1. ReaderInv' /\ buf[pos] = Bytes(<<f, len[f] + 1, part>>)
    BY <1>f, <1>8, <2>0, ReaderPart, ZenonT(60)
  <2>2. f \notin Range(Sent) \cup Program
    BY <1>n, <2>0
  <2>3. \A x \in got' : x \in got \/ x[2] = Bytes(x[1])
    BY <2>0, <2>1
  <2> QED BY <1>r, <2>0, <2>1, <2>2, <2>3
<1>9. ASSUME NEW f \in Fields, Fail(f) PROVE StreamInv'
  <2>1. /\ pc = f /\ pc' = "returned" /\ ret' = "error" /\ from' = from /\ UNCHANGED sender
        /\ UNCHANGED <<pos, got, part>>
    BY <1>9 DEF Fail, Return, caller, input
  <2>2. SenderInv' /\ out' = Whole("sent")
    BY <1>f, <2>1, StreamSame DEF sender
  <2>3. \A g \in got' : g[2] = Bytes(g[1])'
    BY <1>g, <2>1, StreamSame
  <2> QED BY <1>n, <2>1, <2>2, <2>3, ZenonT(60) DEF StreamInv
<1>10. CASE Destroy \/ DestroyFrom
  <2>1. pc' \in {"destroyed", "done"} /\ from' = from /\ got' = got
    BY <1>10, ZenonT(60) DEF Destroy, DestroyFrom, caller, copy, input
  <2>2. \A g \in got' : g[2] = Bytes(g[1])'
    BY <1>g, <2>1, StreamSame
  <2> QED BY <1>n, <2>1, <2>2, ZenonT(60) DEF StreamInv
<1>11. CASE UNCHANGED vars
  <2>1. /\ from' = from /\ UNCHANGED sender /\ UNCHANGED <<pc, len, ret, out, buf, pos, got, part>>
    BY <1>11 DEF vars, sender, input
  <2>2. Cursor' = Cursor
    BY <2>1 DEF Cursor
  <2>3. ReaderInv' <=> ReaderInv
    BY <2>1, <2>2 DEF ReaderInv, Place, Due, Written, Has
  <2>4. \A g \in got' : g[2] = Bytes(g[1])'
    BY <1>g, <2>1, StreamSame
  <2>5. SenderInv' <=> SenderInv
    BY <2>1, StreamSame
  <2> QED BY <2>1, <2>3, <2>4, <2>5, ZenonT(60) DEF StreamInv
<1> QED
  BY <1>1, <1>2, <1>3, <1>4, <1>5, <1>6, <1>7, <1>8, <1>9, <1>10, <1>11, ZenonT(60) DEF Next

-----------------------------------------------------------------------------
(* The theorems.                                                                *)

\* Nothing is written or consumed yet.
LEMMA StreamInit == ASSUME Init PROVE StreamInv
<1>1. pc = "configure" /\ ret = "none"
  BY DEF Init
<1>2. pc \notin Fields
  BY <1>1, NamesAre
<1>3. out = Whole("user") /\ buf = <<>> /\ pos = 1 /\ part = "src" /\ got = {}
  BY DEF Init
<1> QED BY <1>1, <1>2, <1>3, ZenonT(60) DEF StreamInv

\* What has been written is, in order, what minijail_marshal() has come past; the first
\* content that is not consumed is the one minijail_unmarshal() has come to.
THEOREM StreamInvariant == Spec => []StreamInv
<1>1. Init => StreamInv
  BY StreamInit
<1>2. JailInv /\ CountInv /\ CopyInv /\ StreamInv /\ [Next]_vars => StreamInv'
  BY StreamStep
<1> QED BY <1>1, <1>2, MarshalInvariant, PTL DEF Spec

\* A copy that succeeds has taken each content for what minijail_marshal() wrote it as,
\* has consumed them all, and has what the sender has of the fields that are sent.
THEOREM CarriesTheorem == Spec => []CarriesJail
<1>1. JailInv /\ CopyInv /\ StreamInv => CarriesJail
  <2> SUFFICES ASSUME JailInv, CopyInv, StreamInv, pc = "returned", ret = "ok" PROVE CarriesJail
    BY ZenonT(60) DEF CarriesJail
  <2> DEFINE carried == {p \in Pointers \ Unsent : Has(from, p) /\ (p \in Program => from.filtering)}
  <2>1. Arrived(13) /\ len \in [Lists -> Nat] /\ from.len \in [Lists -> Nat]
    BY DEF CopyInv, JailInv, JailOptions
  <2>2. \A p \in Pointers : p \in carried <=> Carried(p)
    BY DEF Carried
  <2>3. \A p \in Pointers : Carried(p) => Rank[p] < 13
    BY Ranks, NamesAre, SMTT(60) DEF Carried, Unsent
  <2>4. \A p \in Pointers : ptr[p] = "own" <=> p \in carried
    BY <2>1, <2>2, <2>3 DEF Arrived
  <2>5. len = from.len
    <3>1. \A l \in Lists : len[l] = from.len[l]
      BY <2>1, Ranks DEF Arrived, Lists
    <3> QED BY <2>1, <3>1
  <2>6. Releases(Pointers) = {Block(p) : p \in carried}
    BY <2>4 DEF Releases
  <2>7. ReleasesLists(Lists) = UNION {{Entry(l, n) : n \in 1 .. from.len[l]} : l \in Lists}
    BY <2>5 DEF ReleasesLists, EntriesOf
  <2>8. \A g \in got : g[2] = Bytes(g[1])
    BY DEF StreamInv
  <2>9. pos = Len(buf) + 1
    <3>1. SenderInv /\ ReaderInv /\ out = Whole("sent")
      BY DEF StreamInv
    <3>2. pos \in 1 .. Len(buf) + 1 /\ Len(buf) \in Nat /\ DOMAIN buf = 1 .. Len(buf)
      BY <3>1 DEF SenderInv, ReaderInv
    <3>3. Cursor = Whole("returned")
      BY DEF Cursor, Lists
    <3>4. ASSUME pos # Len(buf) + 1 PROVE FALSE
      <4>1. pos \in DOMAIN buf
        BY <3>2, <3>4
      <4>2. PICK c : Due(c) /\ buf[pos] = Bytes(c)
        BY <3>1, <4>1 DEF SenderInv
      <4>3. Earlier(c, Cursor)
        BY <3>3, <4>2, DueOrdered
      <4>4. Earlier(buf[pos], Cursor)
        BY <4>2, <4>3, BytesOrdered
      <4>5. pos < pos
        BY <3>1, <4>1, <4>4 DEF ReaderInv
      <4> QED BY <3>2, <4>5
    <3> QED BY <3>4
  <2> QED BY <2>1, <2>4, <2>5, <2>6, <2>7, <2>8, <2>9, ZenonT(60) DEF CarriesJail, Arrived
<1> QED BY <1>1, MarshalInvariant, StreamInvariant, PTL

=============================================================================
