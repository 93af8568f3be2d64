---------------------------- MODULE MarshalProofs ----------------------------
(* Theorems about Marshal: whatever is called and whatever allocation fails, a  *)
(* jail owns its blocks, and the labels of minijail_unmarshal() and             *)
(* minijail_destroy() free each block once.                                     *)
EXTENDS Marshal, WellFoundedInduction, TLAPS

-----------------------------------------------------------------------------
(* The fields and the labels of minijail_unmarshal().                           *)

\* The fields whose content follows the struct.
LEMMA SentAre ==
  /\ Len(Sent) = 5 /\ DOMAIN Sent = 1 .. 5
  /\ Sent[1] = "user" /\ Sent[2] = "suppl_gid_list" /\ Sent[3] = "chrootdir"
  /\ Sent[4] = "hostname" /\ Sent[5] = "alt_syscall_table"
  /\ Range(Sent) = {"user", "suppl_gid_list", "chrootdir", "hostname", "alt_syscall_table"}
<1>1. /\ Len(Sent) = 5 /\ DOMAIN Sent = 1 .. 5
      /\ Sent[1] = "user" /\ Sent[2] = "suppl_gid_list" /\ Sent[3] = "chrootdir"
      /\ Sent[4] = "hostname" /\ Sent[5] = "alt_syscall_table"
  BY DEF Sent
<1>2. DOMAIN Sent = {1, 2, 3, 4, 5}
  BY <1>1
<1>3. Range(Sent) = {Sent[1], Sent[2], Sent[3], Sent[4], Sent[5]}
  BY <1>2, ZenonT(60) DEF Range
<1> QED
  BY <1>1, <1>3

\* All the pointers, and all the fields, by name.
LEMMA NamesAre ==
  /\ Pointers = {"user", "suppl_gid_list", "chrootdir", "hostname", "alt_syscall_table",
                 "preload_path", "filename", "pid_file_path", "uidmap", "gidmap", "remounts", "hooks",
                 "filter_prog", "filter", "seccomp_policy_path"}
  /\ Fields = {"user", "suppl_gid_list", "chrootdir", "hostname", "alt_syscall_table", "filter_prog",
               "filter", "mounts", "cgroups", "fs_rules", "fs_rules_fd", "seccomp_policy_path"}
BY SentAre DEF Pointers, Fields, Unsent, Lists

\* The order of the fields is the one of the source.
LEMMA AfterSent ==
  /\ After("user") = "suppl_gid_list" /\ After("suppl_gid_list") = "chrootdir"
  /\ After("chrootdir") = "hostname" /\ After("hostname") = "alt_syscall_table"
<1>1. After("user") = "suppl_gid_list"
  <2>1. \A n \in DOMAIN Sent : (n > 1 /\ Sent[n - 1] = "user") <=> n = 2
    BY SentAre
  <2>2. (CHOOSE n \in DOMAIN Sent : n > 1 /\ Sent[n - 1] = "user") = 2
    BY <2>1, SentAre
  <2> QED BY <2>2, SentAre, ZenonT(60) DEF After
<1>2. After("suppl_gid_list") = "chrootdir"
  <2>1. \A n \in DOMAIN Sent : (n > 1 /\ Sent[n - 1] = "suppl_gid_list") <=> n = 3
    BY SentAre
  <2>2. (CHOOSE n \in DOMAIN Sent : n > 1 /\ Sent[n - 1] = "suppl_gid_list") = 3
    BY <2>1, SentAre
  <2> QED BY <2>2, SentAre DEF After
<1>3. After("chrootdir") = "hostname"
  <2>1. \A n \in DOMAIN Sent : (n > 1 /\ Sent[n - 1] = "chrootdir") <=> n = 4
    BY SentAre
  <2>2. (CHOOSE n \in DOMAIN Sent : n > 1 /\ Sent[n - 1] = "chrootdir") = 4
    BY <2>1, SentAre
  <2> QED BY <2>2, SentAre, ZenonT(60) DEF After
<1>4. After("hostname") = "alt_syscall_table"
  <2>1. \A n \in DOMAIN Sent : (n > 1 /\ Sent[n - 1] = "hostname") <=> n = 5
    BY SentAre
  <2>2. (CHOOSE n \in DOMAIN Sent : n > 1 /\ Sent[n - 1] = "hostname") = 5
    BY <2>1, SentAre
  <2> QED BY <2>2, SentAre DEF After
<1> QED
  BY <1>1, <1>2, <1>3, <1>4

\* The order of the rest: the program only if filters are to be used.
LEMMA AfterOthers ==
  /\ After("alt_syscall_table") =
       (IF from.filtering /\ from.count["filter_prog"] > 0 THEN "filter_prog" ELSE "mounts")
  /\ After("filter_prog") = "filter" /\ After("filter") = "mounts" /\ After("mounts") = "cgroups"
  /\ After("cgroups") = "fs_rules" /\ After("fs_rules") = "fs_rules_fd"
  /\ After("fs_rules_fd") = "seccomp_policy_path" /\ After("seccomp_policy_path") = "returned"
BY SentAre DEF After

\* The labels in the order they fall through.
LEMMA LabelsAre ==
  /\ DOMAIN Labels = 1 .. 10
  /\ Labels[1].label = "bad_cgroups" /\ Labels[1].frees = {"mounts", "remounts", "cgroups"}
  /\ Labels[2].label = "bad_fs_rules" /\ Labels[2].frees = {"fs_rules"}
  /\ Labels[3].label = "bad_mounts" /\ Labels[3].frees = {"filter"}
  /\ Labels[4].label = "bad_filter_prog_instrs" /\ Labels[4].frees = {"filter_prog"}
  /\ Labels[5].label = "bad_filters" /\ Labels[5].frees = {"alt_syscall_table"}
  /\ Labels[6].label = "bad_syscall_table" /\ Labels[6].frees = {"hostname"}
  /\ Labels[7].label = "bad_hostname" /\ Labels[7].frees = {"chrootdir"}
  /\ Labels[8].label = "bad_chrootdir" /\ Labels[8].frees = {"suppl_gid_list"}
  /\ Labels[9].label = "bad_gid_list" /\ Labels[9].frees = {"user"}
  /\ Labels[10].label = "clear_pointers" /\ Labels[10].frees = {}
BY DEF Labels

\* What is freed from the t-th label on.
LEMMA FreedFrom ==
  ASSUME NEW f, NEW t \in 1 .. 10, \A n \in 1 .. 10 : Labels[n].label = Label(f) <=> n = t
  PROVE  Freed(f) = UNION {Labels[n].frees : n \in t .. 10}
<1>1. {k \in DOMAIN Labels : \E n \in 1 .. k : Labels[n].label = Label(f)} = t .. 10
  BY LabelsAre
<1> QED
  BY <1>1 DEF Freed

\* The fall-through, unfolded: the t-th label frees its own fields and what the next
\* label frees.
LEMMA Falls ==
  /\ UNION {Labels[n].frees : n \in 10 .. 10} = {}
  /\ UNION {Labels[n].frees : n \in 9 .. 10} =
       {"user"}
  /\ UNION {Labels[n].frees : n \in 8 .. 10} =
       {"suppl_gid_list", "user"}
  /\ UNION {Labels[n].frees : n \in 7 .. 10} =
       {"chrootdir", "suppl_gid_list", "user"}
  /\ UNION {Labels[n].frees : n \in 6 .. 10} =
       {"hostname", "chrootdir", "suppl_gid_list", "user"}
  /\ UNION {Labels[n].frees : n \in 5 .. 10} =
       {"alt_syscall_table", "hostname", "chrootdir", "suppl_gid_list", "user"}
  /\ UNION {Labels[n].frees : n \in 4 .. 10} =
       {"filter_prog", "alt_syscall_table", "hostname", "chrootdir", "suppl_gid_list",
        "user"}
  /\ UNION {Labels[n].frees : n \in 3 .. 10} =
       {"filter", "filter_prog", "alt_syscall_table", "hostname", "chrootdir",
        "suppl_gid_list", "user"}
  /\ UNION {Labels[n].frees : n \in 2 .. 10} =
       {"fs_rules", "filter", "filter_prog", "alt_syscall_table", "hostname", "chrootdir",
        "suppl_gid_list", "user"}
  /\ UNION {Labels[n].frees : n \in 1 .. 10} =
       {"mounts", "remounts", "cgroups", "fs_rules", "filter", "filter_prog",
        "alt_syscall_table", "hostname", "chrootdir", "suppl_gid_list", "user"}
<1> DEFINE U(t) == UNION {Labels[n].frees : n \in t .. 10}
<1>1. ASSUME NEW t \in 1 .. 9 PROVE U(t) = Labels[t].frees \cup U(t + 1)
  <2>1. t .. 10 = {t} \cup ((t + 1) .. 10)
    OBVIOUS
  <2> QED BY <2>1, ZenonT(60)
<1>2. U(10) = {}
  <2>1. 10 .. 10 = {10}
    OBVIOUS
  <2> QED BY <2>1, LabelsAre
<1> HIDE DEF U
<1>3. U(9) =
             {"user"}
  <2>1. U(9) = Labels[9].frees \cup U(10)
    BY <1>1
  <2> QED BY <2>1, <1>2, LabelsAre
<1>4. U(8) =
             {"suppl_gid_list", "user"}
  <2>1. U(8) = Labels[8].frees \cup U(9)
    BY <1>1
  <2> QED BY <2>1, <1>3, LabelsAre
<1>5. U(7) =
             {"chrootdir", "suppl_gid_list", "user"}
  <2>1. U(7) = Labels[7].frees \cup U(8)
    BY <1>1
  <2> QED BY <2>1, <1>4, LabelsAre
<1>6. U(6) =
             {"hostname", "chrootdir", "suppl_gid_list", "user"}
  <2>1. U(6) = Labels[6].frees \cup U(7)
    BY <1>1
  <2> QED BY <2>1, <1>5, LabelsAre
<1>7. U(5) =
             {"alt_syscall_table", "hostname", "chrootdir", "suppl_gid_list", "user"}
  <2>1. U(5) = Labels[5].frees \cup U(6)
    BY <1>1
  <2> QED BY <2>1, <1>6, LabelsAre
<1>8. U(4) =
             {"filter_prog", "alt_syscall_table", "hostname", "chrootdir", "suppl_gid_list",
              "user"}
  <2>1. U(4) = Labels[4].frees \cup U(5)
    BY <1>1
  <2> QED BY <2>1, <1>7, LabelsAre
<1>9. U(3) =
             {"filter", "filter_prog", "alt_syscall_table", "hostname", "chrootdir",
              "suppl_gid_list", "user"}
  <2>1. U(3) = Labels[3].frees \cup U(4)
    BY <1>1
  <2> QED BY <2>1, <1>8, LabelsAre
<1>10. U(2) =
             {"fs_rules", "filter", "filter_prog", "alt_syscall_table", "hostname",
              "chrootdir", "suppl_gid_list", "user"}
  <2>1. U(2) = Labels[2].frees \cup U(3)
    BY <1>1
  <2> QED BY <2>1, <1>9, LabelsAre
<1>11. U(1) =
             {"mounts", "remounts", "cgroups", "fs_rules", "filter", "filter_prog",
              "alt_syscall_table", "hostname", "chrootdir", "suppl_gid_list", "user"}
  <2>1. U(1) = Labels[1].frees \cup U(2)
    BY <1>1
  <2> QED BY <2>1, <1>10, LabelsAre
<1> QED
  BY <1>2, <1>3, <1>4, <1>5, <1>6, <1>7, <1>8, <1>9, <1>10, <1>11 DEF U

\* What is freed when the copy of each field fails.
LEMMA FreedAre ==
  /\ Freed("user") = {}
  /\ Freed("suppl_gid_list") = {"user"}
  /\ Freed("chrootdir") = {"suppl_gid_list", "user"}
  /\ Freed("hostname") = {"chrootdir", "suppl_gid_list", "user"}
  /\ Freed("alt_syscall_table") = {"hostname", "chrootdir", "suppl_gid_list", "user"}
  /\ Freed("filter_prog") = {"alt_syscall_table", "hostname", "chrootdir", "suppl_gid_list",
         "user"}
  /\ Freed("filter") = {"filter_prog", "alt_syscall_table", "hostname", "chrootdir",
         "suppl_gid_list", "user"}
  /\ Freed("mounts") = {"filter", "filter_prog", "alt_syscall_table", "hostname",
         "chrootdir", "suppl_gid_list", "user"}
  /\ Freed("fs_rules") = {"fs_rules", "filter", "filter_prog", "alt_syscall_table",
         "hostname", "chrootdir", "suppl_gid_list", "user"}
  /\ \A f \in {"cgroups", "fs_rules_fd", "seccomp_policy_path"} : Freed(f) =
         {"mounts", "remounts", "cgroups", "fs_rules", "filter", "filter_prog",
          "alt_syscall_table", "hostname", "chrootdir", "suppl_gid_list", "user"}
<1>1. Freed("user") = UNION {Labels[n].frees : n \in 10 .. 10}
  <2>1. Label("user") = "clear_pointers"
    BY DEF Label
  <2> QED BY <2>1, LabelsAre, FreedFrom
<1>2. Freed("suppl_gid_list") = UNION {Labels[n].frees : n \in 9 .. 10}
  <2>1. Label("suppl_gid_list") = "bad_gid_list"
    BY DEF Label
  <2> QED BY <2>1, LabelsAre, FreedFrom
<1>3. Freed("chrootdir") = UNION {Labels[n].frees : n \in 8 .. 10}
  <2>1. Label("chrootdir") = "bad_chrootdir"
    BY DEF Label
  <2> QED BY <2>1, LabelsAre, FreedFrom
<1>4. Freed("hostname") = UNION {Labels[n].frees : n \in 7 .. 10}
  <2>1. Label("hostname") = "bad_hostname"
    BY DEF Label
  <2> QED BY <2>1, LabelsAre, FreedFrom
<1>5. Freed("alt_syscall_table") = UNION {Labels[n].frees : n \in 6 .. 10}
  <2>1. Label("alt_syscall_table") = "bad_syscall_table"
    BY DEF Label
  <2> QED BY <2>1, LabelsAre, FreedFrom
<1>6. Freed("filter_prog") = UNION {Labels[n].frees : n \in 5 .. 10}
  <2>1. Label("filter_prog") = "bad_filters"
    BY DEF Label
  <2> QED BY <2>1, LabelsAre, FreedFrom
<1>7. Freed("filter") = UNION {Labels[n].frees : n \in 4 .. 10}
  <2>1. Label("filter") = "bad_filter_prog_instrs"
    BY DEF Label
  <2> QED BY <2>1, LabelsAre, FreedFrom
<1>8. Freed("mounts") = UNION {Labels[n].frees : n \in 3 .. 10}
  <2>1. Label("mounts") = "bad_mounts"
    BY DEF Label
  <2> QED BY <2>1, LabelsAre, FreedFrom
<1>9. Freed("fs_rules") = UNION {Labels[n].frees : n \in 2 .. 10}
  <2>1. Label("fs_rules") = "bad_fs_rules"
    BY DEF Label
  <2> QED BY <2>1, LabelsAre, FreedFrom
<1>10. ASSUME NEW f \in {"cgroups", "fs_rules_fd", "seccomp_policy_path"}
       PROVE  Freed(f) = UNION {Labels[n].frees : n \in 1 .. 10}
  <2>1. Label(f) = "bad_cgroups"
    BY DEF Label
  <2> QED BY <2>1, LabelsAre, FreedFrom
<1> QED
  BY <1>1, <1>2, <1>3, <1>4, <1>5, <1>6, <1>7, <1>8, <1>9, <1>10, Falls

-----------------------------------------------------------------------------
(* The heap of the jail.                                                        *)

\* A set of numbers up to n that is not empty has a largest element.
LEMMA LargestOf ==
  ASSUME NEW n \in Nat, NEW S \in SUBSET (0 .. n), S # {}
  PROVE  Max(S) \in S /\ \A y \in S : Max(S) >= y
<1> DEFINE T == {n - x : x \in S}
           R == OpToRel(<, Nat)
<1>n. \A x \in S : x \in Nat /\ n - x \in Nat
  OBVIOUS
<1>1. T \subseteq Nat /\ T # {}
  BY <1>n, ZenonT(60)
<1>2. IsWellFoundedOn(R, Nat)
  BY NatLessThanWellFounded, ZenonT(60)
<1> HIDE DEF R
<1>3. PICK t \in T : \A y \in T : ~(<<y, t>> \in R)
  <2> HIDE DEF T
  <2> QED BY <1>1, <1>2, WFMin, ZenonT(60)
<1>4. PICK x \in S : t = n - x
  OBVIOUS
<1>5. ASSUME NEW y \in S PROVE x >= y
  <2>1. n - y \in Nat /\ n - x \in Nat /\ x \in Nat /\ y \in Nat
    BY <1>n
  <2>2. <<n - y, n - x>> \notin R
    BY <1>3, <1>4, ZenonT(60)
  <2>3. ~(n - y < n - x)
    BY <2>1, <2>2 DEF R, OpToRel
  <2> HIDE DEF T
  <2> QED BY <2>1, <2>3
<1>6. \E z \in S : \A y \in S : z >= y
  BY <1>5, ZenonT(60)
<1> HIDE DEF T
<1> QED
  BY <1>6, ZenonT(60) DEF Max

\* A new block has a number that is greater than those of the pointer's other blocks,
\* so it is none of them.
LEMMA NewBlockFacts ==
  ASSUME heap \subseteq Pointers \X (Nat \ {0}), NEW n \in Nat, \A b \in heap : b[2] <= n, NEW p
  PROVE  /\ NewBlock(p) \in 1 .. (n + 1)
         /\ \A m \in Numbers(p) : m < NewBlock(p)
<1> DEFINE S == {0} \cup Numbers(p)
<1>1. \A m \in Numbers(p) : m \in 0 .. n
  BY DEF Numbers
<1>2. S \in SUBSET (0 .. n) /\ S # {}
  BY <1>1
<1>3. Max(S) \in S /\ \A y \in S : Max(S) >= y
  BY <1>2, LargestOf, ZenonT(60)
<1>4. NewBlock(p) = 1 + Max(S)
  BY DEF NewBlock
<1>5. Max(S) \in 0 .. n
  BY <1>2, <1>3, ZenonT(60)
<1> HIDE DEF S
<1>6. \A m \in Numbers(p) : Max(S) >= m
  BY <1>3, ZenonT(60) DEF S
<1> QED
  BY <1>1, <1>4, <1>5, <1>6

\* The blocks of a pointer after the blocks of `old' are freed and `new' get new ones.
LEMMA NumbersChange ==
  ASSUME NEW old, NEW new, heap' = (heap \ BlocksOf(old)) \cup New(new),
         heap \subseteq Pointers \X (Nat \ {0}), NEW p
  PROVE  Numbers(p)' =
           (Numbers(p) \ (IF p \in old /\ Has(from, p) THEN {from.at[p]} ELSE {}))
             \cup (IF p \in new THEN {NewBlock(p)} ELSE {})
<1> DEFINE gone == IF p \in old /\ Has(from, p) THEN {from.at[p]} ELSE {}
           come == IF p \in new THEN {NewBlock(p)} ELSE {}
<1>1. \A m : m \in Numbers(p) <=> <<p, m>> \in heap
  <2>1. \A b \in heap : b = <<b[1], b[2]>>
    OBVIOUS
  <2> QED BY <2>1, ZenonT(60) DEF Numbers
<1>2. \A m : m \in Numbers(p)' => <<p, m>> \in heap'
  <2>1. \A b \in heap' : b = <<b[1], b[2]>>
    BY DEF New
  <2> QED BY <2>1, ZenonT(60) DEF Numbers
<1>3. \A m : <<p, m>> \in heap' => m \in Numbers(p)'
  BY DEF Numbers
<1>4. \A m : <<p, m>> \in BlocksOf(old) <=> m \in gone
  BY DEF BlocksOf
<1>5. \A m : <<p, m>> \in New(new) <=> m \in come
  BY DEF New
<1> HIDE DEF gone, come
<1>6. \A m : m \in Numbers(p)' <=> (m \in Numbers(p) /\ m \notin gone) \/ m \in come
  BY <1>1, <1>2, <1>3, <1>4, <1>5, ZenonT(60)
<1>7. Numbers(p)' = (Numbers(p) \ gone) \cup come
  BY <1>6, ZenonT(60)
<1> QED
  BY <1>7 DEF gone, come

\* Pointers after a call: `new' point to new blocks, `lost' to nothing.
Becomes(at, new, lost) ==
  \A p \in Pointers : at[p] = IF p \in new THEN NewBlock(p) ELSE IF p \in lost THEN 0 ELSE from.at[p]

\* Nothing that was freed is still pointed to, a program and its instructions are
\* treated alike, and only the leaky pointers lose sight of a block.
Orderly(old, new, lost) ==
  /\ old \subseteq new \cup lost
  /\ \A p \in (new \cup lost) \ Leaky : p \in old \/ ~Has(from, p)
  /\ "filter" \in old <=> "filter_prog" \in old
  /\ "filter" \in new <=> "filter_prog" \in new
  /\ "filter" \in lost <=> "filter_prog" \in lost

\* A call of the library that does this, and frees the blocks of `old', keeps the heap
\* in order.
LEMMA HeapChange ==
  ASSUME JailInv, pc # "done", pc' # "done", from' \in JailOptions,
         NEW old \in SUBSET Pointers, NEW new \in SUBSET Pointers, NEW lost \in SUBSET Pointers,
         heap' = (heap \ BlocksOf(old)) \cup New(new),
         Becomes(from'.at, new, lost), Orderly(old, new, lost)
  PROVE  JailInv'
<1> USE DEF Becomes, Orderly
<1>t. /\ heap \subseteq Pointers \X (Nat \ {0}) /\ from \in JailOptions
      /\ from.at["filter"] = from.at["filter_prog"]
      /\ Numbers("filter") = Numbers("filter_prog")
      /\ HeapOf(from) \subseteq heap
      /\ \A p \in Pointers \ Leaky : Numbers(p) \subseteq {from.at[p]}
  BY DEF JailInv
<1>p. "filter" \in Pointers /\ "filter_prog" \in Pointers
  BY NamesAre
<1>n. PICK n \in Nat : \A b \in heap : b[2] <= n
  BY DEF JailInv
<1>b. \A p \in Pointers : NewBlock(p) \in 1 .. (n + 1)
  BY <1>t, <1>n, NewBlockFacts
<1>e. NewBlock("filter") = NewBlock("filter_prog")
  BY <1>t, ZenonT(60) DEF NewBlock
<1>c. \A p : Numbers(p)' =
           (Numbers(p) \ (IF p \in old /\ Has(from, p) THEN {from.at[p]} ELSE {}))
             \cup (IF p \in new THEN {NewBlock(p)} ELSE {})
  BY <1>t, NumbersChange, ZenonT(60)
<1>1. from'.at["filter"] = from'.at["filter_prog"]
  BY <1>p, <1>e, <1>t
<1>2. heap' \subseteq Pointers \X (Nat \ {0})
  BY <1>t, <1>b DEF New
<1>3. \E m \in Nat : \A b \in heap' : b[2] <= m
  <2>1. \A b \in heap' : b[2] <= n + 1
    <3> TAKE b \in heap'
    <3>1. CASE b \in heap
      <4>1. b[2] <= n /\ b[2] \in Nat
        BY <3>1, <1>n, <1>t
      <4> QED BY <4>1
    <3>2. CASE b \in New(new)
      <4>1. b[2] \in 1 .. (n + 1)
        BY <3>2, <1>b DEF New
      <4> QED BY <4>1
    <3> QED BY <3>1, <3>2
  <2> QED BY <2>1
<1>4. Numbers("filter")' = Numbers("filter_prog")'
  BY <1>c, <1>e, <1>t, ZenonT(60) DEF Has
<1>5. HeapOf(from)' \subseteq heap'
  <2> SUFFICES ASSUME NEW p \in Pointers, from'.at[p] # 0
               PROVE  <<p, from'.at[p]>> \in heap'
    BY DEF HeapOf, Has
  <2>1. CASE p \in new
    BY <2>1 DEF New
  <2>2. CASE p \notin new
    <3>1. from'.at[p] = from.at[p] /\ p \notin old
      BY <2>2
    <3>2. <<p, from.at[p]>> \in heap
      BY <3>1, <1>t DEF HeapOf, Has
    <3>3. <<p, from.at[p]>> \notin BlocksOf(old)
      BY <3>1 DEF BlocksOf
    <3> QED BY <3>1, <3>2, <3>3
  <2> QED BY <2>1, <2>2
<1>6. ASSUME NEW p \in Pointers \ Leaky PROVE Numbers(p)' \subseteq {from'.at[p]}
  <2>1. Numbers(p) \subseteq {from.at[p]}
    BY <1>t
  <2>2. 0 \notin Numbers(p)
    BY <1>t DEF Numbers
  <2>3. CASE p \in new \cup lost
    <3>1. Numbers(p) \ (IF p \in old /\ Has(from, p) THEN {from.at[p]} ELSE {}) = {}
      BY <2>1, <2>2, <2>3 DEF Has
    <3>2. Numbers(p)' = IF p \in new THEN {NewBlock(p)} ELSE {}
      BY <1>c, <3>1
    <3> QED BY <3>2
  <2>4. CASE p \notin new \cup lost
    <3>1. from'.at[p] = from.at[p]
      BY <2>4
    <3> QED BY <2>1, <2>4, <3>1, <1>c
  <2> QED BY <2>3, <2>4
<1> QED
  BY <1>1, <1>2, <1>3, <1>4, <1>5, <1>6 DEF JailInv

\* A step that leaves the heap and the pointers of the jail alone.
LEMMA HeapSame ==
  ASSUME JailInv, pc # "done", pc' # "done", from' \in JailOptions, from'.at = from.at, heap' = heap
  PROVE  JailInv'
<1>1. \A p : Numbers(p)' = Numbers(p)
  BY DEF Numbers
<1>2. HeapOf(from)' = HeapOf(from)
  BY DEF HeapOf, Has
<1> QED
  BY <1>1, <1>2 DEF JailInv

\* What the pointers are after a call.
LEMMA PointsFacts ==
  ASSUME JailInv, NEW old \in SUBSET Pointers, NEW new \in SUBSET Pointers,
         NEW j, j = [from EXCEPT !.at = [p \in Pointers |-> IF p \in new THEN NewBlock(p)
                                                            ELSE IF p \in old THEN 0 ELSE @[p]]]
  PROVE  j \in JailOptions /\ Becomes(j.at, new, old)
<1>t. from \in JailOptions /\ heap \subseteq Pointers \X (Nat \ {0})
  BY DEF JailInv
<1>n. PICK n \in Nat : \A b \in heap : b[2] <= n
  BY DEF JailInv
<1>b. \A p \in Pointers : NewBlock(p) \in Nat
  <2> TAKE p \in Pointers
  <2>1. NewBlock(p) \in 1 .. (n + 1)
    BY <1>t, <1>n, NewBlockFacts
  <2> QED BY <2>1
<1> DEFINE a == [p \in Pointers |-> IF p \in new THEN NewBlock(p)
                                    ELSE IF p \in old THEN 0 ELSE from.at[p]]
<1>1. from.at \in [Pointers -> Nat]
  BY <1>t DEF JailOptions
<1>2. a \in [Pointers -> Nat]
  BY <1>b, <1>1
<1>3. j = [from EXCEPT !.at = a]
  OBVIOUS
<1> HIDE DEF a
<1>4. j \in JailOptions /\ j.at = a
  BY <1>t, <1>2, <1>3 DEF JailOptions
<1> QED
  BY <1>4 DEF a, Becomes

\* Points() and Empties() are of that form, with nothing in the other set.
LEMMA PointsEmpties ==
  ASSUME JailInv, NEW P \in SUBSET Pointers, NEW none, none = {}
  PROVE  /\ Points(P) \in JailOptions /\ Becomes(Points(P).at, P, none)
         /\ Empties(P) \in JailOptions /\ Becomes(Empties(P).at, none, P)
<1>1. [p \in Pointers |-> IF p \in P THEN NewBlock(p) ELSE from.at[p]] =
      [p \in Pointers |-> IF p \in P THEN NewBlock(p) ELSE IF p \in none THEN 0 ELSE from.at[p]]
  OBVIOUS
<1>2. [p \in Pointers |-> IF p \in P THEN 0 ELSE from.at[p]] =
      [p \in Pointers |-> IF p \in none THEN NewBlock(p) ELSE IF p \in P THEN 0 ELSE from.at[p]]
  OBVIOUS
<1>3. Points(P) = [from EXCEPT !.at = [p \in Pointers |-> IF p \in P THEN NewBlock(p)
                                                           ELSE IF p \in none THEN 0 ELSE @[p]]]
  BY <1>1, ZenonT(60) DEF Points
<1>4. Empties(P) = [from EXCEPT !.at = [p \in Pointers |-> IF p \in none THEN NewBlock(p)
                                                            ELSE IF p \in P THEN 0 ELSE @[p]]]
  BY <1>2, ZenonT(60) DEF Empties
<1>5. none \in SUBSET Pointers
  OBVIOUS
<1>6. Points(P) \in JailOptions /\ Becomes(Points(P).at, P, none)
  BY <1>3, <1>5, PointsFacts, ZenonT(60)
<1>7. Empties(P) \in JailOptions /\ Becomes(Empties(P).at, none, P)
  BY <1>4, <1>5, PointsFacts, ZenonT(60)
<1> QED
  BY <1>6, <1>7

\* free() of something the jail points to is never a second free.
LEMMA FreeIsSafe ==
  ASSUME JailInv, pc # "done", NEW P \in SUBSET Pointers, Free(P)
  PROVE  misused' = misused
<1>1. BlocksOf(P) \subseteq heap
  BY DEF JailInv, BlocksOf, HeapOf
<1> QED
  BY <1>1 DEF Free

\* The pointer p gets a new block, which only a leaky pointer may if it has one already.
LEMMA PointsStep ==
  ASSUME JailInv, pc # "done", pc' # "done", NEW p \in Pointers \ Program, p \in Leaky \/ ~Has(from, p),
         from' = Points({p}), heap' = heap \cup New({p})
  PROVE  JailInv'
<1> DEFINE none == {}
<1>1. none = {} /\ none \in SUBSET Pointers /\ {p} \in SUBSET Pointers
  OBVIOUS
<1>2. heap' = (heap \ BlocksOf(none)) \cup New({p})
  BY DEF BlocksOf
<1>3. Orderly(none, {p}, none)
  BY DEF Orderly, Program
<1> HIDE DEF none
<1>4. from' \in JailOptions /\ Becomes(from'.at, {p}, none)
  BY <1>1, PointsEmpties
<1> QED
  BY <1>1, <1>2, <1>3, <1>4, HeapChange, ZenonT(60)

\* The leaky pointer p loses sight of its block.
LEMMA EmptiesStep ==
  ASSUME JailInv, pc # "done", pc' # "done", NEW p \in Leaky \ Program, p \in Pointers,
         from' = Empties({p}), heap' = heap
  PROVE  JailInv'
<1> DEFINE none == {}
<1>1. none = {} /\ none \in SUBSET Pointers /\ {p} \in SUBSET Pointers
  OBVIOUS
<1>2. heap' = (heap \ BlocksOf(none)) \cup New(none)
  BY DEF BlocksOf, New
<1>3. Orderly(none, none, {p})
  BY DEF Orderly, Program
<1> HIDE DEF none
<1>4. from' \in JailOptions /\ Becomes(from'.at, none, {p})
  BY <1>1, PointsEmpties
<1> QED
  BY <1>1, <1>2, <1>3, <1>4, HeapChange, ZenonT(60)

\* strdup() over what was there: only leaky pointers are treated this way.
LEMMA OverwriteStep ==
  ASSUME JailInv, NEW p \in Leaky \ Program, p \in Pointers,
         Overwrite(p) \/ (p = "suppl_gid_list" /\ minijail_set_supplementary_gids)
  PROVE  JailInv' /\ misused' = misused
<1>1. /\ pc # "done" /\ pc' # "done" /\ misused' = misused
      /\ \/ from' = Points({p}) /\ heap' = heap \cup New({p})
         \/ from' = Empties({p}) /\ heap' = heap
  BY DEF Overwrite, minijail_set_supplementary_gids, Call
<1> QED
  BY <1>1, PointsStep, EmptiesStep

\* A pointer that is set only once, and a list whose first entry makes its block.
LEMMA SetOnceStep ==
  ASSUME JailInv, NEW p \in Pointers \ Program, SetOnce(p) \/ Extend(p)
  PROVE  JailInv' /\ misused' = misused
<1>1. pc # "done" /\ pc' # "done" /\ misused' = misused
  BY DEF SetOnce, Extend, Call
<1>2. CASE ~Has(from, p)
  <2>1. from' = Points({p}) /\ heap' = heap \cup New({p})
    BY <1>2 DEF SetOnce, Extend
  <2> QED BY <1>1, <1>2, <2>1, PointsStep
<1>3. CASE Has(from, p)
  <2>1. from' = from /\ heap' = heap
    BY <1>3 DEF SetOnce, Extend
  <2>2. from' \in JailOptions
    BY <2>1 DEF JailInv
  <2> QED BY <1>1, <2>1, <2>2, HeapSame
<1> QED
  BY <1>2, <1>3

\* set_seccomp_filters_internal() and what calls it: the old program and the old path
\* are freed, the new ones take their place.
LEMMA ReplaceStep ==
  ASSUME JailInv, NEW old \in SUBSET Pointers, NEW new \in SUBSET Pointers, Replace(old, new),
         Program \subseteq old, Program \subseteq new, new \subseteq old
  PROVE  JailInv' /\ misused' = misused
<1>1. /\ pc = "configure" /\ pc' = "configure" /\ Free(old)
      /\ heap' = (heap \ BlocksOf(old)) \cup New(new)
  BY DEF Replace, Call
<1>2. misused' = misused
  BY <1>1, FreeIsSafe
<1> DEFINE a == [p \in Pointers |-> IF p \in new THEN NewBlock(p)
                                    ELSE IF p \in old THEN 0 ELSE from.at[p]]
           c == [from.count EXCEPT !["filter_prog"] = 1]
           j == [from EXCEPT !.at = a]
<1>a. from' = [from EXCEPT !.count = c, !.at = a]
  BY ZenonT(60) DEF Replace
<1>b. j \in JailOptions /\ Becomes(j.at, new, old)
  <2>1. j = [from EXCEPT !.at = [p \in Pointers |-> IF p \in new THEN NewBlock(p)
                                                    ELSE IF p \in old THEN 0 ELSE @[p]]]
    OBVIOUS
  <2> HIDE DEF j
  <2> QED BY <2>1, PointsFacts, ZenonT(60)
<1>c. from \in JailOptions /\ c \in [Counted -> Nat]
  BY ZenonT(60) DEF JailInv, JailOptions
<1>3. from' \in JailOptions /\ Becomes(from'.at, new, old)
  <2>1. j.at = a /\ a \in [Pointers -> Nat]
    <3> HIDE DEF a
    <3> QED BY <1>b, <1>c DEF JailOptions
  <2> HIDE DEF a, c
  <2>2. from' \in JailOptions /\ from'.at = a
    BY <1>a, <1>c, <2>1, ZenonT(60) DEF JailOptions
  <2> QED BY <1>b, <2>1, <2>2
<1>4. Orderly(old, new, old)
  BY DEF Orderly, Program
<1> QED
  BY <1>1, <1>2, <1>3, <1>4, HeapChange

\* The program is forgotten, the path freed.
LEMMA ClearStep ==
  ASSUME JailInv, clear_seccomp_options
  PROVE  JailInv' /\ misused' = misused
<1> DEFINE path == {"seccomp_policy_path"}
           lost == Program \cup path
           none == {}
<1>1. /\ pc # "done" /\ pc' # "done" /\ Free(path)
      /\ from' = [Empties(lost) EXCEPT !.filtering = FALSE, !.count["filter_prog"] = 0]
      /\ heap' = (heap \ BlocksOf(path)) \cup New(none)
  BY DEF clear_seccomp_options, Call, New
<1>2. /\ none = {} /\ none \in SUBSET Pointers /\ path \in SUBSET Pointers /\ lost \in SUBSET Pointers
      /\ Orderly(path, none, lost)
  BY NamesAre DEF Orderly, Program, Leaky
<1> HIDE DEF path, lost, none
<1>3. misused' = misused
  BY <1>1, <1>2, FreeIsSafe
<1>4. Empties(lost) \in JailOptions /\ Becomes(Empties(lost).at, none, lost)
  BY <1>2, PointsEmpties
<1>5. from' \in JailOptions /\ from'.at = Empties(lost).at
  <2>1. [Empties(lost).count EXCEPT !["filter_prog"] = 0] \in [Counted -> Nat]
    BY <1>4, ZenonT(60) DEF JailOptions
  <2> QED BY <1>1, <1>4, <2>1, ZenonT(60) DEF JailOptions
<1>6. Becomes(from'.at, none, lost)
  BY <1>4, <1>5, ZenonT(60)
<1> QED
  BY <1>1, <1>2, <1>3, <1>5, <1>6, HeapChange, ZenonT(60)

\* What the jail is after a call that changes only its lists, its ruleset or its flags:
\* an entry that is added is counted.
LEMMA ListCallFacts ==
  ASSUME JailInv,
         \/ minijail_mount_with_data \/ minijail_add_to_cgroup \/ minijail_use_seccomp_filter
         \/ \E fd \in {-1, 0, 3} : add_fs_restriction_path(fd)
  PROVE  /\ from' \in JailOptions /\ from'.at = from.at
         /\ from.count = Counts(from) => from'.count = Counts(from')
<1>t. from \in JailOptions
  BY DEF JailInv
<1>l. /\ from.len \in [Lists -> Nat] /\ "mounts" \in Lists /\ "cgroups" \in Lists /\ "fs_rules" \in Lists
      /\ from.count \in [Counted -> Nat] /\ Lists \subseteq Counted /\ from.data \subseteq Nat
  BY <1>t DEF JailOptions, Lists, Counted
<1>0. ASSUME NEW l \in Lists
      PROVE  /\ [from.len EXCEPT ![l] = @ + 1] \in [Lists -> Nat]
             /\ [from.count EXCEPT ![l] = @ + 1] \in [Counted -> Nat]
  BY <1>l
<1>1. ASSUME NEW l \in Lists, from'.at = from.at, from'.len = [from.len EXCEPT ![l] = @ + 1],
             from'.count = [from.count EXCEPT ![l] = @ + 1], from.count = Counts(from)
      PROVE  from'.count = Counts(from')
  <2>1. \A c \in Counted : from'.count[c] = Counts(from')[c]
    <3> TAKE c \in Counted
    <3>1. from.count[c] = IF c \in Lists THEN from.len[c] ELSE IF Has(from, c) THEN 1 ELSE 0
      BY <1>1 DEF Counts
    <3>2. Counts(from')[c] = IF c \in Lists THEN from'.len[c] ELSE IF Has(from, c) THEN 1 ELSE 0
      BY <1>1 DEF Counts, Has
    <3>3. /\ from'.count[c] = IF c = l THEN from.count[c] + 1 ELSE from.count[c]
          /\ c \in Lists => from'.len[c] = IF c = l THEN from.len[c] + 1 ELSE from.len[c]
      BY <1>1, <1>l
    <3> QED BY <3>1, <3>2, <3>3
  <2>2. from'.count \in [Counted -> Nat]
    BY <1>0, <1>1
  <2>3. DOMAIN Counts(from') = Counted /\ Counts(from') = [c \in Counted |-> Counts(from')[c]]
    BY DEF Counts
  <2> QED BY <2>1, <2>2, <2>3
<1>2. CASE minijail_mount_with_data
  <2>1. PICK d \in SUBSET Nat :
          from' = [from EXCEPT !.len["mounts"] = @ + 1, !.count["mounts"] = @ + 1, !.data = d]
    <3>1. PICK has_data \in BOOLEAN :
            from' = [from EXCEPT !.len["mounts"] = @ + 1, !.count["mounts"] = @ + 1,
                                 !.data = IF has_data THEN @ \cup {from.len["mounts"] + 1} ELSE @]
      BY <1>2, ZenonT(60) DEF minijail_mount_with_data
    <3>2. (IF has_data THEN from.data \cup {from.len["mounts"] + 1} ELSE from.data) \in SUBSET Nat
      BY <1>l
    <3> QED BY <3>1, <3>2, ZenonT(60)
  <2>2. from' \in JailOptions /\ from'.at = from.at /\ from'.len = [from.len EXCEPT !["mounts"] = @ + 1]
        /\ from'.count = [from.count EXCEPT !["mounts"] = @ + 1]
    BY <1>t, <1>l, <1>0, <2>1, ZenonT(60) DEF JailOptions
  <2> QED BY <1>l, <1>1, <2>2, ZenonT(60)
<1>3. CASE minijail_add_to_cgroup
  <2>1. from' = [from EXCEPT !.len["cgroups"] = @ + 1, !.count["cgroups"] = @ + 1]
    BY <1>3 DEF minijail_add_to_cgroup
  <2>2. from' \in JailOptions /\ from'.at = from.at /\ from'.len = [from.len EXCEPT !["cgroups"] = @ + 1]
        /\ from'.count = [from.count EXCEPT !["cgroups"] = @ + 1]
    BY <1>t, <1>l, <1>0, <2>1, ZenonT(60) DEF JailOptions
  <2> QED BY <1>l, <1>1, <2>2, ZenonT(60)
<1>4. CASE minijail_use_seccomp_filter
  <2>1. from' = [from EXCEPT !.filtering = TRUE]
    BY <1>4 DEF minijail_use_seccomp_filter
  <2>2. from' \in JailOptions /\ from'.at = from.at /\ from'.len = from.len /\ from'.count = from.count
    BY <1>t, <2>1, ZenonT(60) DEF JailOptions
  <2> QED BY <2>2 DEF Counts, Has
<1>5. CASE \E fd \in {-1, 0, 3} : add_fs_restriction_path(fd)
  <2>1. PICK fd \in {-1, 0, 3} : add_fs_restriction_path(fd)
    BY <1>5
  <2>2. PICK nopath \in {FALSE, MayRunOut} :
          from' = [from EXCEPT !.len["fs_rules"] = @ + 1, !.count["fs_rules"] = @ + 1,
                               !.nopath = @ \/ nopath,
                               !.fs_rules_fd = IF from.count["fs_rules"] = 0 THEN fd ELSE @]
    BY <2>1, ZenonT(60) DEF add_fs_restriction_path
  <2>3. (from.nopath \/ nopath) \in BOOLEAN /\ fd \in Nat \cup {-1}
    BY <1>t, MarshalAssumption
  <2>4. from' \in JailOptions /\ from'.at = from.at /\ from'.len = [from.len EXCEPT !["fs_rules"] = @ + 1]
        /\ from'.count = [from.count EXCEPT !["fs_rules"] = @ + 1]
    BY <1>t, <1>l, <1>0, <2>2, <2>3, ZenonT(60) DEF JailOptions
  <2> QED BY <1>l, <1>1, <2>4, ZenonT(60)
<1> QED
  BY <1>2, <1>3, <1>4, <1>5

\* The calls that change only the lists, the ruleset or the flags.
LEMMA ListCallStep ==
  ASSUME JailInv,
         \/ minijail_mount_with_data \/ minijail_add_to_cgroup \/ minijail_use_seccomp_filter
         \/ \E fd \in {-1, 0, 3} : add_fs_restriction_path(fd)
  PROVE  JailInv' /\ misused' = misused
<1>t. from \in JailOptions
  BY DEF JailInv
<1>l. from.len \in [Lists -> Nat] /\ "mounts" \in Lists /\ "cgroups" \in Lists /\ "fs_rules" \in Lists
  BY <1>t DEF JailOptions, Lists
<1>1. pc # "done" /\ pc' # "done" /\ misused' = misused /\ heap' = heap
  BY ZenonT(60) DEF minijail_mount_with_data, minijail_add_to_cgroup, minijail_use_seccomp_filter, add_fs_restriction_path, Call
<1>2. CASE minijail_mount_with_data \/ minijail_add_to_cgroup
  <2>1. from' \in JailOptions /\ from'.at = from.at
    BY <1>2, ListCallFacts
  <2> QED BY <1>1, <2>1, HeapSame
<1>3. CASE minijail_use_seccomp_filter
  <2>1. from' \in JailOptions /\ from'.at = from.at
    BY <1>3, ListCallFacts
  <2> QED BY <1>1, <2>1, HeapSame
<1>4. CASE \E fd \in {-1, 0, 3} : add_fs_restriction_path(fd)
  <2>1. from' \in JailOptions /\ from'.at = from.at
    BY <1>4, ListCallFacts
  <2> QED BY <1>1, <2>1, HeapSame
<1> QED
  BY <1>2, <1>3, <1>4

\* Whatever is called, the jail owns its blocks afterwards and nothing is freed twice.
LEMMA ConfigureStep ==
  ASSUME JailInv, Configure
  PROVE  JailInv' /\ misused' = misused
<1>1. CASE \/ minijail_change_user \/ minijail_uidmap \/ minijail_gidmap \/ minijail_write_pid_file
           \/ minijail_use_alt_syscall \/ run_filename \/ minijail_set_supplementary_gids
  <2>1. PICK p \in {"user", "uidmap", "gidmap", "pid_file_path", "alt_syscall_table", "filename",
                    "suppl_gid_list"} :
          Overwrite(p) \/ (p = "suppl_gid_list" /\ minijail_set_supplementary_gids)
    BY <1>1 DEF minijail_change_user, minijail_uidmap, minijail_gidmap, minijail_write_pid_file,
                minijail_use_alt_syscall, run_filename
  <2>2. p \in Leaky \ Program /\ p \in Pointers
    BY NamesAre DEF Leaky, Program
  <2> QED BY <2>1, <2>2, OverwriteStep
<1>2. CASE \/ minijail_enter_chroot \/ minijail_enter_pivot_root \/ minijail_namespace_set_hostname
           \/ minijail_set_preload_path \/ minijail_add_remount \/ minijail_add_hook
  <2>1. PICK p \in {"chrootdir", "hostname", "preload_path", "remounts", "hooks"} : SetOnce(p) \/ Extend(p)
    BY <1>2 DEF minijail_enter_chroot, minijail_enter_pivot_root, minijail_namespace_set_hostname,
                minijail_set_preload_path, minijail_add_remount, minijail_add_hook
  <2>2. p \in Pointers \ Program
    BY NamesAre DEF Program
  <2> QED BY <2>1, <2>2, SetOnceStep
<1>3. CASE \/ minijail_mount_with_data \/ minijail_add_to_cgroup \/ minijail_use_seccomp_filter
           \/ \E fd \in {-1, 0, 3} : add_fs_restriction_path(fd)
  BY <1>3, ListCallStep
<1>4. CASE clear_seccomp_options
  BY <1>4, ClearStep
<1>5. CASE minijail_set_seccomp_filters \/ minijail_parse_seccomp_filters \/ minijail_parse_seccomp_filters_from_fd
  <2> DEFINE path == {"seccomp_policy_path"}
  <2>1. PICK old \in {Program, Program \cup path}, new \in {Program, Program \cup path} :
          Replace(old, new) /\ new \subseteq old
    BY <1>5 DEF minijail_set_seccomp_filters, minijail_parse_seccomp_filters, ParseFilters,
                minijail_parse_seccomp_filters_from_fd, set_seccomp_filters_internal
  <2>2. /\ old \in SUBSET Pointers /\ new \in SUBSET Pointers
        /\ Program \subseteq old /\ Program \subseteq new
    BY NamesAre DEF Program
  <2> QED BY <2>1, <2>2, ReplaceStep
<1> QED
  BY <1>1, <1>2, <1>3, <1>4, <1>5, ZenonT(60) DEF Configure

\* The counters stay right whatever is called.
LEMMA CountsFor ==
  ASSUME JailInv, CountInv, NEW n \in {0, 1}, from'.len = from.len,
         \/ n = 0 /\ from'.count = from.count /\ (Has(from', "filter_prog") <=> Has(from, "filter_prog"))
         \/ /\ from'.count = [from.count EXCEPT !["filter_prog"] = n]
            /\ Has(from', "filter_prog") <=> n = 1
  PROVE  CountInv'
<1>1. from.count \in [Counted -> Nat] /\ "filter_prog" \in Counted /\ "filter_prog" \notin Lists
      /\ Counted = Lists \cup {"filter_prog"}
  BY DEF JailInv, JailOptions, Counted, Lists
<1>2. \A c \in Counted : from.count[c] = IF c \in Lists THEN from.len[c] ELSE IF Has(from, c) THEN 1 ELSE 0
  BY DEF CountInv, Counts
<1>3. from'.count \in [Counted -> Nat]
  BY <1>1
<1>4. \A c \in Counted : from'.count[c] = IF c \in Lists THEN from'.len[c] ELSE IF Has(from', c) THEN 1 ELSE 0
  BY <1>1, <1>2
<1>5. from'.count = [c \in Counted |-> IF c \in Lists THEN from'.len[c] ELSE IF Has(from', c) THEN 1 ELSE 0]
  BY <1>3, <1>4
<1> QED BY <1>5 DEF CountInv, Counts

\* A step of minijail_unmarshal() and of the caller after it.
LEMMA JailStep ==
  ASSUME JailInv, [Next]_vars
  PROVE  JailInv'
<1>1. CASE Configure
  BY <1>1, ConfigureStep
<1>2. CASE UNCHANGED caller /\ pc # "done" /\ pc' # "done"
  <2>1. from' \in JailOptions /\ from'.at = from.at /\ heap' = heap
    BY <1>2 DEF caller, JailInv
  <2> QED BY <1>2, <2>1, HeapSame
<1>3. CASE DestroyFrom
  <2>1. pc' = "done" /\ from' = from /\ heap' = heap \ BlocksOf(Pointers)
    BY <1>3 DEF DestroyFrom
  <2>2. /\ heap \subseteq Pointers \X (Nat \ {0}) /\ from \in JailOptions
        /\ Numbers("filter") = Numbers("filter_prog") /\ from.at["filter"] = from.at["filter_prog"]
        /\ \A p \in Pointers \ Leaky : Numbers(p) \subseteq {from.at[p]}
    BY <1>3 DEF JailInv, DestroyFrom
  <2>3. \A p : Numbers(p)' = (Numbers(p) \ (IF p \in Pointers /\ Has(from, p) THEN {from.at[p]} ELSE {}))
    <3> DEFINE none == {}
    <3>1. heap' = (heap \ BlocksOf(Pointers)) \cup New(none)
      BY <2>1 DEF New
    <3>2. \A p : Numbers(p)' =
             (Numbers(p) \ (IF p \in Pointers /\ Has(from, p) THEN {from.at[p]} ELSE {}))
               \cup (IF p \in none THEN {NewBlock(p)} ELSE {})
      <4> HIDE DEF none
      <4> QED BY <3>1, <2>2, NumbersChange
    <3> QED BY <3>2
  <2>4. Numbers("filter")' = Numbers("filter_prog")'
    BY <2>2, <2>3, NamesAre DEF Has
  <2>5. ASSUME NEW p \in Pointers \ Leaky PROVE Numbers(p)' = {}
    <3>1. 0 \notin Numbers(p)
      BY <2>2 DEF Numbers
    <3> QED BY <2>2, <2>3, <3>1 DEF Has
  <2>6. heap' \subseteq Pointers \X (Nat \ {0}) /\ \E n \in Nat : \A b \in heap' : b[2] <= n
    BY <2>1, <2>2 DEF JailInv
  <2> QED BY <2>1, <2>2, <2>4, <2>5, <2>6 DEF JailInv
<1>4. CASE UNCHANGED vars
  <2>1. CASE pc = "done"
    <3>1. \A p : Numbers(p)' = Numbers(p)
      BY <1>4 DEF vars, Numbers
    <3> QED BY <1>4, <2>1, <3>1 DEF vars, JailInv
  <2>2. CASE pc # "done"
    BY <1>2, <1>4, <2>2 DEF vars, caller
  <2> QED BY <2>1, <2>2
<1>5. ASSUME minijail_size \/ WriteField \/ WritePart \/ CopyStruct \/ RulesFd \/ Destroy
      PROVE  UNCHANGED caller /\ pc # "done" /\ pc' # "done"
  BY <1>5, SentAre, AfterOthers, ZenonT(60)
     DEF minijail_size, WriteField, WritePart, CopyStruct, RulesFd, Destroy
<1>6. ASSUME NEW f \in Fields, Allocate(f) \/ AddPart(f) \/ ListDone(f) \/ Fail(f)
      PROVE  UNCHANGED caller /\ pc # "done" /\ pc' # "done"
  <2>1. f # "done" /\ After(f) # "done"
    BY NamesAre, AfterSent, AfterOthers
  <2> QED BY <1>6, <2>1 DEF Allocate, AddPart, Reading, ListDone, Fail, Return, caller
<1> QED
  BY <1>1, <1>2, <1>3, <1>4, <1>5, <1>6, ZenonT(60) DEF Next

\* The counters in the struct are right whatever is called.
LEMMA CountStep ==
  ASSUME JailInv, CountInv, [Next]_vars
  PROVE  CountInv'
<1>t. from \in JailOptions /\ from.at \in [Pointers -> Nat] /\ "filter_prog" \in Pointers
  BY NamesAre DEF JailInv, JailOptions
<1>0. ASSUME from' = from PROVE CountInv'
  BY <1>0 DEF CountInv, Counts, Has
<1>p. ASSUME NEW p \in Pointers \ Program, from' = Points({p}) \/ from' = Empties({p}) \/ from' = from
      PROVE  CountInv'
  <2>1. CASE from' = from
    BY <1>0, <2>1
  <2>2. CASE from' # from
    <3>1. from'.len = from.len /\ from'.count = from.count /\ from'.at["filter_prog"] = from.at["filter_prog"]
      BY <1>t, <1>p, <2>2 DEF Points, Empties, Program, JailOptions
    <3> QED BY <3>1, CountsFor DEF Has
  <2> QED BY <2>1, <2>2
<1>1. CASE \/ minijail_change_user \/ minijail_uidmap \/ minijail_gidmap \/ minijail_write_pid_file
           \/ minijail_use_alt_syscall \/ run_filename \/ minijail_set_supplementary_gids
           \/ minijail_enter_chroot \/ minijail_enter_pivot_root \/ minijail_namespace_set_hostname
           \/ minijail_set_preload_path \/ minijail_add_remount \/ minijail_add_hook
  <2>1. PICK p \in {"user", "uidmap", "gidmap", "pid_file_path", "alt_syscall_table", "filename",
                    "suppl_gid_list", "chrootdir", "hostname", "preload_path", "remounts", "hooks"} :
          Overwrite(p) \/ SetOnce(p) \/ Extend(p) \/ (p = "suppl_gid_list" /\ minijail_set_supplementary_gids)
    BY <1>1 DEF minijail_change_user, minijail_uidmap, minijail_gidmap, minijail_write_pid_file,
                minijail_use_alt_syscall, run_filename, minijail_enter_chroot, minijail_enter_pivot_root,
                minijail_namespace_set_hostname, minijail_set_preload_path, minijail_add_remount,
                minijail_add_hook
  <2>2. p \in Pointers \ Program
    BY NamesAre DEF Program
  <2>3. from' = Points({p}) \/ from' = Empties({p}) \/ from' = from
    BY <2>1, ZenonT(60) DEF Overwrite, SetOnce, Extend, minijail_set_supplementary_gids
  <2> QED BY <1>p, <2>2, <2>3
<1>2. CASE \/ minijail_mount_with_data \/ minijail_add_to_cgroup \/ minijail_use_seccomp_filter
           \/ \E fd \in {-1, 0, 3} : add_fs_restriction_path(fd)
  BY <1>2, ListCallFacts DEF CountInv
<1>3. CASE clear_seccomp_options
  <2>1. from' = [Empties(Program \cup {"seccomp_policy_path"}) EXCEPT !.filtering = FALSE,
                                                                     !.count["filter_prog"] = 0]
    BY <1>3 DEF clear_seccomp_options
  <2>2. /\ from'.len = from.len /\ from'.count = [from.count EXCEPT !["filter_prog"] = 0]
        /\ from'.at["filter_prog"] = 0
    BY <1>t, <2>1 DEF Empties, Program, JailOptions
  <2> QED BY <2>2, CountsFor DEF Has
<1>4. CASE minijail_set_seccomp_filters \/ minijail_parse_seccomp_filters \/ minijail_parse_seccomp_filters_from_fd
  <2> DEFINE path == {"seccomp_policy_path"}
  <2>1. PICK old \in {Program, Program \cup path}, new \in {Program, Program \cup path} : Replace(old, new)
    BY <1>4 DEF minijail_set_seccomp_filters, minijail_parse_seccomp_filters, ParseFilters,
                minijail_parse_seccomp_filters_from_fd, set_seccomp_filters_internal
  <2>2. from' = [from EXCEPT !.count["filter_prog"] = 1,
                             !.at = [p \in Pointers |-> IF p \in new THEN NewBlock(p)
                                                       ELSE IF p \in old THEN 0 ELSE @[p]]]
    BY <2>1 DEF Replace
  <2>3. "filter_prog" \in new
    BY DEF Program
  <2>4. /\ from'.len = from.len /\ from'.count = [from.count EXCEPT !["filter_prog"] = 1]
        /\ from'.at = [p \in Pointers |-> IF p \in new THEN NewBlock(p)
                                          ELSE IF p \in old THEN 0 ELSE from.at[p]]
    BY <1>t, <2>2 DEF JailOptions
  <2>5. NewBlock("filter_prog") # 0
    BY NewBlockFacts DEF JailInv
  <2>6. from'.at["filter_prog"] # 0
    BY <1>t, <2>3, <2>4, <2>5
  <2> QED BY <2>4, <2>6, CountsFor DEF Has
<1>5. CASE ~Configure
  <2>1. from' = from
    <3>1. ASSUME \/ minijail_size \/ WriteField \/ WritePart \/ CopyStruct \/ RulesFd \/ Destroy
                 \/ DestroyFrom \/ UNCHANGED vars
          PROVE  from' = from
      BY <3>1, ZenonT(60) DEF minijail_size, WriteField, WritePart, CopyStruct, RulesFd, Destroy, DestroyFrom,
                              vars, caller
    <3>2. ASSUME NEW f \in Fields, Allocate(f) \/ AddPart(f) \/ ListDone(f) \/ Fail(f) PROVE from' = from
      BY <3>2, ZenonT(60) DEF Allocate, AddPart, ListDone, Fail, caller
    <3> QED BY <1>5, <3>1, <3>2, ZenonT(60) DEF Next
  <2> QED BY <1>0, <2>1
<1> QED
  BY <1>1, <1>2, <1>3, <1>4, <1>5, ZenonT(60) DEF Configure


-----------------------------------------------------------------------------
(* The copy.                                                                    *)

\* When minijail_unmarshal() returns, it is past every field.
NextRank(g) == IF g = "returned" THEN 13 ELSE Rank[g]

\* The ranks by name.
LEMMA Ranks ==
  /\ Rank["user"] = 1
  /\ Rank["suppl_gid_list"] = 2
  /\ Rank["chrootdir"] = 3
  /\ Rank["hostname"] = 4
  /\ Rank["alt_syscall_table"] = 5
  /\ Rank["filter_prog"] = 6
  /\ Rank["filter"] = 7
  /\ Rank["mounts"] = 8
  /\ Rank["cgroups"] = 9
  /\ Rank["fs_rules"] = 10
  /\ Rank["fs_rules_fd"] = 11
  /\ Rank["seccomp_policy_path"] = 12
BY ZenonT(60) DEF Rank

\* What the counters count.
LEMMA CountsAre ==
  ASSUME CountInv
  PROVE  /\ \A l \in Lists : from.count[l] = from.len[l]
         /\ from.count["filter_prog"] > 0 <=> Has(from, "filter_prog")
<1>1. "filter_prog" \in Counted /\ "filter_prog" \notin Lists /\ Lists \subseteq Counted
  BY DEF Counted, Lists
<1> QED BY <1>1 DEF CountInv, Counts

\* Going on from a field passes that field and no other that is carried: the program is
\* skipped only when it is not.
LEMMA RankStep ==
  ASSUME JailInv, CountInv, NEW f \in Fields, f \in Program => Carried(f), NEW g, g = After(f)
  PROVE  /\ g \in Fields \cup {"returned"} /\ (g = "returned" <=> f = "seccomp_policy_path")
         /\ g \in Program => Carried(g)
         /\ \A p \in Pointers : Carried(p) =>
              (Rank[p] < NextRank(g) <=> (p = f \/ Rank[p] < Rank[f]))
         /\ \A l \in Lists : /\ Rank[l] < NextRank(g) <=> (l = f \/ Rank[l] < Rank[f])
                             /\ Rank[l] >= NextRank(g) => Rank[l] > Rank[f]
<1>f. from.at["filter"] = from.at["filter_prog"]
  BY DEF JailInv
<1>c. \A p \in Pointers : Carried(p) =>
        p \in {"user", "suppl_gid_list", "chrootdir", "hostname", "alt_syscall_table",
               "filter_prog", "filter", "seccomp_policy_path"}
  BY NamesAre DEF Carried, Unsent
<1>p. /\ Carried("filter_prog") <=> from.filtering /\ Has(from, "filter_prog")
      /\ Carried("filter") <=> from.filtering /\ Has(from, "filter_prog")
  BY <1>f DEF Carried, Program, Has, Unsent
<1>l. Lists = {"mounts", "cgroups", "fs_rules"} /\ Program = {"filter_prog", "filter"}
  BY DEF Lists, Program
<1>n. from.count["filter_prog"] > 0 <=> Has(from, "filter_prog")
  BY CountsAre
<1>1. CASE f = "user"
  BY <1>1, <1>c, <1>p, <1>l, AfterSent, Ranks, NamesAre DEF NextRank
<1>2. CASE f = "suppl_gid_list"
  BY <1>2, <1>c, <1>p, <1>l, AfterSent, Ranks, NamesAre DEF NextRank
<1>3. CASE f = "chrootdir"
  BY <1>3, <1>c, <1>p, <1>l, AfterSent, Ranks, NamesAre DEF NextRank
<1>4. CASE f = "hostname"
  BY <1>4, <1>c, <1>p, <1>l, AfterSent, Ranks, NamesAre DEF NextRank
<1>5. CASE f = "alt_syscall_table"
  <2>1. CASE from.filtering /\ Has(from, "filter_prog")
    <3>1. g = "filter_prog" /\ Carried("filter_prog")
      BY <1>5, <2>1, <1>p, <1>n, AfterOthers
    <3> QED BY <1>5, <3>1, <1>c, <1>l, Ranks, NamesAre DEF NextRank
  <2>2. CASE ~(from.filtering /\ Has(from, "filter_prog"))
    <3>1. g = "mounts" /\ ~Carried("filter_prog") /\ ~Carried("filter")
      BY <1>5, <2>2, <1>p, <1>n, AfterOthers
    <3> QED BY <1>5, <3>1, <1>c, <1>l, Ranks, NamesAre DEF NextRank
  <2> QED BY <2>1, <2>2
<1>6. CASE f = "filter_prog"
  BY <1>6, <1>c, <1>p, <1>l, AfterOthers, Ranks, NamesAre DEF NextRank
<1>7. CASE f = "filter"
  BY <1>7, <1>c, <1>p, <1>l, AfterOthers, Ranks, NamesAre DEF NextRank
<1>8. CASE f = "mounts"
  BY <1>8, <1>c, <1>p, <1>l, AfterOthers, Ranks, NamesAre DEF NextRank
<1>9. CASE f = "cgroups"
  BY <1>9, <1>c, <1>p, <1>l, AfterOthers, Ranks, NamesAre DEF NextRank
<1>10. CASE f = "fs_rules"
  BY <1>10, <1>c, <1>p, <1>l, AfterOthers, Ranks, NamesAre DEF NextRank
<1>11. CASE f = "fs_rules_fd"
  BY <1>11, <1>c, <1>p, <1>l, AfterOthers, Ranks, NamesAre DEF NextRank
<1>12. CASE f = "seccomp_policy_path"
  BY <1>12, <1>c, <1>p, <1>l, AfterOthers, Ranks, NamesAre DEF NextRank
<1> QED
  BY <1>1, <1>2, <1>3, <1>4, <1>5, <1>6, <1>7, <1>8, <1>9, <1>10, <1>11, <1>12, NamesAre, ZenonT(60)

\* Nothing of Arrived() depends on more than the copy and the jail it is made from.
LEMMA CarriedSame ==
  ASSUME from' = from
  PROVE  /\ \A p : Carried(p)' <=> Carried(p)
         /\ CgroupPaths' = CgroupPaths
BY DEF Carried, Has, CgroupPaths

\* What has arrived, and what a failed copy leaves, stay when nothing changes.
LEMMA ArrivedSame ==
  ASSUME UNCHANGED vars
  PROVE  (\A r : Arrived(r)' <=> Arrived(r)) /\ (CleanedUp' <=> CleanedUp)
<1>1. \A r : Arrived(r)' <=> Arrived(r)
  BY DEF vars, Arrived, Carried, Has, Releases, ReleasesLists, EntriesOf
<1>2. CleanedUp' <=> CleanedUp
  BY DEF vars, CleanedUp, CgroupPaths, ReleasesLists, EntriesOf
<1> QED BY <1>1, <1>2

\* The copy has passed its field f, whose content it has if there is any.
LEMMA AllocateArrives ==
  ASSUME JailInv, CountInv, CopyInv, NEW f \in Fields, Allocate(f), NEW g, g = After(f)
  PROVE  Arrived(NextRank(g))'
<1>1. /\ pc = f /\ f \in Pointers /\ from' = from /\ len' = len
      /\ ptr'  = IF Present(f) THEN [ptr EXCEPT ![f] = "own"] ELSE ptr
      /\ live' = IF Present(f) THEN live \cup {Block(f)} ELSE live
  BY DEF Allocate, caller
<1>2. /\ Arrived(Rank[f]) /\ (f \in Program => Carried(f)) /\ len \in [Lists -> Nat]
      /\ ptr \in [Pointers -> {"null", "from", "own", "freed"}] /\ from.len \in [Lists -> Nat]
  BY <1>1 DEF CopyInv, JailInv, JailOptions
<1>3. /\ \A p \in Pointers : Carried(p) => (Rank[p] < NextRank(g) <=> (p = f \/ Rank[p] < Rank[f]))
      /\ \A l \in Lists : /\ Rank[l] < NextRank(g) <=> (l = f \/ Rank[l] < Rank[f])
                          /\ Rank[l] >= NextRank(g) => Rank[l] > Rank[f]
  BY <1>2, RankStep
<1>r. Rank[f] \in Nat /\ NextRank(g) \in Nat /\ (\A l \in Lists : Rank[l] \in Nat) /\ f \notin Lists
  <2>1. g \in Fields \cup {"returned"}
    BY <1>2, RankStep
  <2> QED BY <1>1, <2>1, Ranks, NamesAre DEF NextRank, Lists
<1>4. Present(f) <=> Carried(f)
  <2>1. ~(Rank[f] < Rank[f])
    BY <1>r
  <2>2. f \notin Program => (ptr[f] = "from" <=> Carried(f))
    BY <1>1, <1>2, <2>1, ZenonT(60) DEF Arrived
  <2> QED BY <1>2, <2>2 DEF Present
<1>5. ASSUME NEW p \in Pointers
      PROVE  ptr'[p] = IF ~Carried(p) THEN "null"
                       ELSE IF Rank[p] < NextRank(g) THEN "own"
                       ELSE IF p \in Program THEN "null" ELSE "from"
  <2>1. ptr[p] = IF ~Carried(p) THEN "null" ELSE IF Rank[p] < Rank[f] THEN "own"
                 ELSE IF p \in Program THEN "null" ELSE "from"
    BY <1>2 DEF Arrived
  <2>2. CASE p = f
    <3>1. ptr'[p] = IF Carried(f) THEN "own" ELSE ptr[p]
      BY <1>1, <1>2, <1>4, <2>2
    <3> QED BY <1>3, <2>1, <2>2, <3>1, ZenonT(60)
  <2>3. CASE p # f
    <3>1. ptr'[p] = ptr[p]
      BY <1>1, <1>2, <2>3, ZenonT(60)
    <3> QED BY <1>3, <2>1, <2>3, <3>1
  <2> QED BY <2>2, <2>3
<1>6. ASSUME NEW l \in Lists
      PROVE  /\ Rank[l] < NextRank(g) => len'[l] = from'.len[l]
             /\ Rank[l] = NextRank(g) => len'[l] <= from'.len[l]
             /\ Rank[l] > NextRank(g) => len'[l] = 0
  <2>1. /\ Rank[l] < Rank[f] => len[l] = from.len[l]
        /\ Rank[l] > Rank[f] => len[l] = 0
    BY <1>2 DEF Arrived
  <2>2. l # f /\ Rank[l] \in Nat /\ NextRank(g) \in Nat /\ len[l] \in Nat /\ from.len[l] \in Nat
    BY <1>r, <1>2
  <2> QED BY <1>1, <1>3, <2>1, <2>2
<1>7. live' = (Releases(Pointers) \cup ReleasesLists(Lists))'
  <2>1. ReleasesLists(Lists)' = ReleasesLists(Lists)
    BY <1>1 DEF ReleasesLists, EntriesOf
  <2>2. live = Releases(Pointers) \cup ReleasesLists(Lists)
    BY <1>2 DEF Arrived
  <2>3. Releases(Pointers)' = IF Present(f) THEN Releases(Pointers) \cup {Block(f)} ELSE Releases(Pointers)
    <3>1. CASE Present(f)
      <4>1. \A q \in Pointers : ptr'[q] = "own" <=> (ptr[q] = "own" \/ q = f)
        BY <1>1, <1>2, <3>1
      <4> QED BY <1>1, <3>1, <4>1 DEF Releases
    <3>2. CASE ~Present(f)
      BY <1>1, <3>2 DEF Releases
    <3> QED BY <3>1, <3>2
  <2> QED BY <1>1, <2>1, <2>2, <2>3
<1>8. \A p : Carried(p)' <=> Carried(p)
  BY <1>1, CarriedSame
<1> QED
  BY <1>5, <1>6, <1>7, <1>8, ZenonT(60) DEF Arrived

\* A list that is complete, or the ruleset's descriptor, is passed.
LEMMA PassArrives ==
  ASSUME JailInv, CountInv, CopyInv, NEW f \in Fields \ Pointers, pc = f, f \in Lists => len[f] = from.len[f],
         UNCHANGED <<from, ptr, len, live>>, NEW g, g = After(f)
  PROVE  Arrived(NextRank(g))'
<1>1. /\ Arrived(Rank[f]) /\ (f \in Program => Carried(f)) /\ len \in [Lists -> Nat]
      /\ from.len \in [Lists -> Nat]
  BY DEF CopyInv, JailInv, JailOptions
<1>2. /\ g \in Fields \cup {"returned"}
      /\ \A p \in Pointers : Carried(p) => (Rank[p] < NextRank(g) <=> (p = f \/ Rank[p] < Rank[f]))
      /\ \A l \in Lists : /\ Rank[l] < NextRank(g) <=> (l = f \/ Rank[l] < Rank[f])
                          /\ Rank[l] >= NextRank(g) => Rank[l] > Rank[f]
  BY <1>1, RankStep
<1>r. NextRank(g) \in Nat /\ \A l \in Lists : Rank[l] \in Nat
  BY <1>2, Ranks, NamesAre DEF NextRank, Lists
<1>3. \A p \in Pointers :
        ptr'[p] = IF ~Carried(p) THEN "null"
                  ELSE IF Rank[p] < NextRank(g) THEN "own"
                  ELSE IF p \in Program THEN "null" ELSE "from"
  BY <1>1, <1>2, ZenonT(60) DEF Arrived
<1>4. ASSUME NEW l \in Lists
      PROVE  /\ Rank[l] < NextRank(g) => len'[l] = from'.len[l]
             /\ Rank[l] = NextRank(g) => len'[l] <= from'.len[l]
             /\ Rank[l] > NextRank(g) => len'[l] = 0
  <2>1. /\ Rank[l] < Rank[f] => len[l] = from.len[l]
        /\ Rank[l] > Rank[f] => len[l] = 0
    BY <1>1 DEF Arrived
  <2>2. Rank[l] \in Nat /\ NextRank(g) \in Nat /\ len[l] \in Nat /\ from.len[l] \in Nat
    BY <1>r, <1>1, ZenonT(60)
  <2> QED BY <1>2, <2>1, <2>2
<1>5. live' = (Releases(Pointers) \cup ReleasesLists(Lists))'
  BY <1>1 DEF Arrived, Releases, ReleasesLists, EntriesOf
<1>6. \A p : Carried(p)' <=> Carried(p)
  BY CarriedSame
<1> QED
  BY <1>3, <1>4, <1>5, <1>6, ZenonT(60) DEF Arrived

\* A part of an entry of the list minijail_unmarshal() is at, and one more entry if it
\* was the last.
LEMMA AddPartArrives ==
  ASSUME JailInv, CountInv, CopyInv, NEW l \in Fields, AddPart(l)
  PROVE  Arrived(Rank[l])'
<1> DEFINE end == ReadAfter(l, part, buf[pos][3]) = "end"
<1>0. /\ pc = l /\ l \in Lists /\ len[l] < from.len[l] /\ from' = from /\ ptr' = ptr
      /\ len'  = IF end THEN [len EXCEPT ![l] = @ + 1] ELSE len
      /\ live' = IF end THEN live \cup {Entry(l, len[l] + 1)} ELSE live
  BY CountsAre, ZenonT(60) DEF AddPart, Reading, caller
<1> HIDE DEF end
<1>2. /\ Arrived(Rank[l]) /\ len \in [Lists -> Nat] /\ from.len \in [Lists -> Nat]
  BY <1>0 DEF CopyInv, JailInv, JailOptions
<1>c. CASE ~end
  <2>1. \A p : Carried(p)' <=> Carried(p)
    BY <1>0, CarriedSame
  <2>2. from' = from /\ ptr' = ptr /\ len' = len /\ live' = live
    BY <1>0, <1>c
  <2>3. (Releases(Pointers) \cup ReleasesLists(Lists))' = Releases(Pointers) \cup ReleasesLists(Lists)
    BY <2>2 DEF Releases, ReleasesLists, EntriesOf
  <2> QED BY <1>2, <2>1, <2>2, <2>3, ZenonT(60) DEF Arrived
<1> SUFFICES ASSUME end PROVE Arrived(Rank[l])'
  BY <1>c
<1>1. /\ pc = l /\ l \in Lists /\ len[l] < from.len[l] /\ from' = from /\ ptr' = ptr
      /\ len' = [len EXCEPT ![l] = @ + 1] /\ live' = live \cup {Entry(l, len[l] + 1)}
  BY <1>0
<1>r. \A k \in Lists : Rank[k] \in Nat /\ (Rank[k] = Rank[l] <=> k = l)
  BY <1>1, Ranks DEF Lists
<1>3. \A p \in Pointers :
        ptr'[p] = IF ~Carried(p) THEN "null"
                  ELSE IF Rank[p] < Rank[l] THEN "own"
                  ELSE IF p \in Program THEN "null" ELSE "from"
  BY <1>1, <1>2 DEF Arrived
<1>4. ASSUME NEW k \in Lists
      PROVE  /\ Rank[k] < Rank[l] => len'[k] = from'.len[k]
             /\ Rank[k] = Rank[l] => len'[k] <= from'.len[k]
             /\ Rank[k] > Rank[l] => len'[k] = 0
  <2>1. /\ Rank[k] < Rank[l] => len[k] = from.len[k]
        /\ Rank[k] > Rank[l] => len[k] = 0
    BY <1>2, ZenonT(60) DEF Arrived
  <2>2. CASE k = l
    BY <1>1, <1>2, <1>r, <2>2
  <2>3. CASE k # l
    BY <1>1, <1>2, <1>r, <2>1, <2>3, ZenonT(60)
  <2> QED BY <2>2, <2>3, ZenonT(60)
<1>5. live' = (Releases(Pointers) \cup ReleasesLists(Lists))'
  <2>1. Releases(Pointers)' = Releases(Pointers)
    BY <1>1 DEF Releases
  <2>2. \A k \in Lists : EntriesOf(k)' = IF k = l THEN EntriesOf(l) \cup {Entry(l, len[l] + 1)} ELSE EntriesOf(k)
    <3> TAKE k \in Lists
    <3>1. CASE k = l
      <4>1. len'[l] = len[l] + 1 /\ len[l] \in Nat
        BY <1>1, <1>2
      <4>2. 1 .. (len[l] + 1) = (1 .. len[l]) \cup {len[l] + 1}
        BY <4>1
      <4> QED BY <3>1, <4>1, <4>2 DEF EntriesOf
    <3>2. CASE k # l
      <4>1. len'[k] = len[k]
        BY <1>1, <1>2, <3>2
      <4> QED BY <3>2, <4>1 DEF EntriesOf
    <3> QED BY <3>1, <3>2
  <2>3. ReleasesLists(Lists)' = ReleasesLists(Lists) \cup {Entry(l, len[l] + 1)}
    BY <1>1, <2>2, ZenonT(60) DEF ReleasesLists
  <2>4. live = Releases(Pointers) \cup ReleasesLists(Lists)
    BY <1>2 DEF Arrived
  <2> QED BY <1>1, <2>1, <2>3, <2>4
<1>6. \A p : Carried(p)' <=> Carried(p)
  BY <1>1, CarriedSame
<1> QED
  BY <1>3, <1>4, <1>5, <1>6, ZenonT(60) DEF Arrived

\* The struct has been copied: each pointer that is no signal is reset.
LEMMA CopyStructArrives ==
  ASSUME JailInv, CopyInv, CopyStruct
  PROVE  pc' = "user" /\ Arrived(1)'
<1>1. /\ pc = "marshal" /\ pc' = "user" /\ from' = from /\ len' = len /\ live' = live
      /\ ptr' = [p \in Pointers |-> IF Has(from, p) /\ ~Reset(p) THEN "from" ELSE "null"]
  BY SentAre DEF CopyStruct, caller
<1>2. live = {} /\ \A l \in Lists : len[l] = 0
  BY <1>1 DEF CopyInv
<1>3. \A p \in Pointers :
        ptr'[p] = IF ~Carried(p) THEN "null"
                  ELSE IF Rank[p] < 1 THEN "own"
                  ELSE IF p \in Program THEN "null" ELSE "from"
  <2> TAKE p \in Pointers
  <2>1. Carried(p) => ~(Rank[p] < 1)
    BY NamesAre, Ranks DEF Carried, Unsent
  <2> QED BY <1>1, <2>1 DEF Carried, Reset
<1>4. \A l \in Lists : Rank[l] > 1 /\ len'[l] = 0
  BY <1>1, <1>2, Ranks DEF Lists
<1>5. live' = (Releases(Pointers) \cup ReleasesLists(Lists))'
  <2>1. \A p \in Pointers : ptr'[p] # "own"
    BY <1>1
  <2>2. Releases(Pointers)' = {}
    BY <2>1 DEF Releases
  <2>3. ReleasesLists(Lists)' = {}
    BY <1>4 DEF ReleasesLists, EntriesOf
  <2> QED BY <1>1, <1>2, <2>2, <2>3
<1>6. \A p : Carried(p)' <=> Carried(p)
  BY <1>1, CarriedSame
<1>7. \A l \in Lists : /\ Rank[l] < 1 => len'[l] = from'.len[l]
                       /\ Rank[l] = 1 => len'[l] <= from'.len[l]
                       /\ Rank[l] > 1 => len'[l] = 0
  BY <1>4, Ranks DEF Lists
<1> QED
  BY <1>1, <1>3, <1>5, <1>6, <1>7, ZenonT(60) DEF Arrived

\* What the labels of field f free is what was allocated before it.
LEMMA FreedByRank ==
  ASSUME NEW f \in Fields
  PROVE  /\ \A p \in Range(Sent) \cup Program : Rank[p] < Rank[f] => p \in Freed(f)
         /\ \A p \in (Freed(f) \cap Pointers) \ {f} : p \in Unsent \/ Rank[p] < Rank[f]
         /\ f = "fs_rules" => "cgroups" \notin Freed(f)
         /\ "fs_rules" \notin Freed(f) => Rank[f] < Rank["cgroups"]
         /\ "cgroups" \notin Freed(f) => f = "fs_rules" \/ Rank[f] < Rank["cgroups"]
         /\ Rank[f] \in Nat
<1>1. \/ f = "user" \/ f = "suppl_gid_list" \/ f = "chrootdir" \/ f = "hostname"
      \/ f = "alt_syscall_table" \/ f = "filter_prog" \/ f = "filter" \/ f = "mounts"
      \/ f = "fs_rules" \/ f \in {"cgroups", "fs_rules_fd", "seccomp_policy_path"}
  BY NamesAre
<1>2. CASE f \in {"user", "suppl_gid_list", "chrootdir", "hostname", "alt_syscall_table"}
  BY <1>2, FreedAre, Ranks, SentAre, NamesAre DEF Program
<1>3. CASE f \in {"filter_prog", "filter", "mounts"}
  BY <1>3, FreedAre, Ranks, SentAre, NamesAre DEF Program
<1>4. CASE f \in {"fs_rules", "cgroups", "fs_rules_fd", "seccomp_policy_path"}
  BY <1>4, FreedAre, Ranks, SentAre, NamesAre DEF Program, Unsent
<1> QED BY <1>1, <1>2, <1>3, <1>4

\* An allocation fails: the labels free what is there and nothing else.
LEMMA FailCleans ==
  ASSUME JailInv, CopyInv, NEW f \in Fields, Fail(f)
  PROVE  CleanedUp' /\ misused' = misused /\ pc' = "returned" /\ ret' = "error"
<1> DEFINE freed == Freed(f) \ {f}
<1>1. /\ pc = f /\ pc' = "returned" /\ ret' = "error" /\ from' = from
      /\ live' = live \ (Releases(freed) \cup ReleasesLists(Freed(f)))
      /\ misused' = misused \cup Misuses(freed)
      /\ ptr' = [p \in Pointers |->
                   IF p = f \/ p \in Cleared THEN "null"
                   ELSE IF p \in freed /\ ptr[p] # "null" THEN "freed" ELSE ptr[p]]
      /\ len' = [l \in Lists |-> IF l \in Freed(f) \cup {"cgroups", "fs_rules"} THEN 0 ELSE len[l]]
  BY DEF Fail, Return, caller
<1>2. /\ Arrived(Rank[f]) /\ len \in [Lists -> Nat]
  BY <1>1 DEF CopyInv
<1>3. \A p \in Pointers : Carried(p) => p \in Range(Sent) \cup Program \cup {"seccomp_policy_path"}
  BY ZenonT(60) DEF Carried, Pointers, Program
<1>4. \A p \in Pointers : p \in Unsent => ptr[p] = "null"
  BY <1>2 DEF Arrived, Carried
<1>5. ASSUME NEW p \in freed \cap Pointers PROVE ptr[p] \in {"null", "own"}
  <2>1. p \in Unsent \/ Rank[p] < Rank[f]
    BY FreedByRank, ZenonT(60)
  <2> QED BY <1>2, <1>4, <2>1 DEF Arrived
<1>6. Misuses(freed) = {}
  BY <1>5 DEF Misuses
<1>7. ASSUME NEW p \in Pointers PROVE ptr'[p] = "null" \/ (p \in Program /\ ptr'[p] = "freed")
  <2>1. CASE p = f \/ p \in Cleared
    BY <1>1, <2>1
  <2>2. CASE p # f /\ p \in Unsent
    BY <1>1, <1>4, <2>2, ZenonT(60)
  <2>3. CASE p # f /\ p \in Program /\ p \in freed
    <3>1. ptr'[p] = IF p \in Cleared THEN "null" ELSE IF ptr[p] # "null" THEN "freed" ELSE ptr[p]
      BY <1>1, <2>3, ZenonT(60)
    <3> QED BY <2>3, <3>1
  <2>4. CASE p # f /\ p \in Program /\ p \notin freed
    <3>1. ~(Rank[p] < Rank[f])
      BY <2>4, FreedByRank, ZenonT(60)
    <3>2. ptr[p] = "null"
      BY <1>2, <2>4, <3>1 DEF Arrived
    <3>3. ptr'[p] = IF p \in Cleared THEN "null" ELSE ptr[p]
      BY <1>1, <2>4, ZenonT(60)
    <3> QED BY <3>2, <3>3
  <2> QED BY <2>1, <2>2, <2>3, <2>4 DEF Pointers, Cleared, Program
<1>8. ASSUME NEW x \in Releases(Pointers) PROVE x \in Releases(freed)
  <2>1. PICK p \in Pointers : ptr[p] = "own" /\ x = Block(p)
    BY DEF Releases
  <2>2. Carried(p) /\ Rank[p] < Rank[f]
    BY <1>2, <2>1 DEF Arrived
  <2>3. p # "seccomp_policy_path"
    BY <2>2, Ranks, NamesAre
  <2>4. p \in Freed(f) /\ p # f
    <3>1. p \in Range(Sent) \cup Program
      BY <1>3, <2>2, <2>3
    <3>2. p \in Freed(f)
      BY <2>2, <3>1, FreedByRank, ZenonT(60)
    <3>3. Rank[f] \in Nat
      BY FreedByRank
    <3> QED BY <2>2, <3>2, <3>3
  <2> QED BY <2>1, <2>4 DEF Releases
<1>9. ASSUME NEW x \in ReleasesLists(Lists), x \notin ReleasesLists(Freed(f))
      PROVE  x \in ReleasesLists(Lists)' \cup CgroupPaths
  <2>1. PICK l \in Lists : x \in EntriesOf(l)
    BY DEF ReleasesLists
  <2>2. l \notin Freed(f)
    BY <1>9, <2>1 DEF ReleasesLists
  <2>3. PICK n \in 1 .. len[l] : x = Entry(l, n)
    BY <2>1 DEF EntriesOf
  <2>4. len[l] # 0 /\ len[l] \in Nat
    BY <1>2, <2>3
  <2>5. ~(Rank[l] > Rank[f])
    BY <1>2, <2>4 DEF Arrived
  <2>6. CASE l = "mounts"
    <3>1. len'[l] = len[l]
      BY <1>1, <2>2, <2>6
    <3> QED BY <2>1, <3>1 DEF ReleasesLists, EntriesOf
  <2>7. CASE l = "fs_rules"
    <3>1. Rank[f] < Rank["cgroups"] /\ Rank[f] \in Nat
      BY <2>2, <2>7, FreedByRank
    <3> QED BY <2>5, <2>7, <3>1, Ranks
  <2>8. CASE l = "cgroups"
    <3>1. f = "fs_rules" \/ Rank[f] < Rank["cgroups"]
      BY <2>2, <2>8, FreedByRank
    <3>2. f = "fs_rules"
      BY <2>5, <2>8, <3>1, Ranks, FreedByRank, ZenonT(60)
    <3>3. len[l] = from.len[l]
      BY <1>2, <2>8, <3>2, Ranks, SMTT(60) DEF Arrived
    <3> QED BY <2>3, <2>8, <3>3 DEF CgroupPaths
  <2> QED BY <2>6, <2>7, <2>8 DEF Lists
<1>10. live' \subseteq ReleasesLists(Lists)' \cup CgroupPaths
  BY <1>1, <1>2, <1>8, <1>9, ZenonT(60) DEF Arrived
<1>11. CgroupPaths' = CgroupPaths
  BY <1>1, CarriedSame
<1> QED
  BY <1>1, <1>6, <1>7, <1>10, <1>11, ZenonT(60) DEF CleanedUp

\* minijail_destroy() of the copy finds nothing that was freed but the program, and
\* leaves nothing but cgroup paths.
LEMMA DestroyFrees ==
  ASSUME CopyInv, Destroy
  PROVE  /\ \A p \in Pointers : ptr'[p] # "from"
         /\ live' = {} \/ (ret' = "error" /\ live' \subseteq CgroupPaths')
         /\ misused' \subseteq {Block(p) : p \in Program}
<1>1. /\ pc = "returned" /\ ptr' = ptr /\ ret' = ret /\ from' = from
      /\ live' = live \ (Releases(Pointers) \cup ReleasesLists(Lists))
      /\ misused' = misused \cup Misuses(Pointers)
  BY DEF Destroy, caller
<1>2. misused = {} /\ ret \in {"ok", "error"} /\ (IF ret = "ok" THEN Arrived(13) ELSE CleanedUp)
  BY <1>1 DEF CopyInv
<1>3. CgroupPaths' = CgroupPaths
  BY <1>1, CarriedSame
<1>4. CASE ret = "ok"
  <2>1. \A p \in Pointers : ptr[p] \in {"null", "own"}
    <3> TAKE p \in Pointers
    <3>1. CASE Carried(p)
      <4>1. Rank[p] < 13
        BY <3>1, Ranks, NamesAre DEF Carried, Unsent
      <4> QED BY <1>2, <1>4, <4>1 DEF Arrived
    <3>2. CASE ~Carried(p)
      BY <1>2, <1>4, <3>2 DEF Arrived
    <3> QED BY <3>1, <3>2
  <2>2. Misuses(Pointers) = {}
    BY <2>1 DEF Misuses
  <2>3. live' = {}
    BY <1>1, <1>2, <1>4 DEF Arrived
  <2> QED BY <1>1, <1>2, <2>1, <2>2, <2>3
<1>5. CASE ret = "error"
  <2>1. /\ \A p \in Pointers : ptr[p] = "null" \/ (p \in Program /\ ptr[p] = "freed")
        /\ live \subseteq ReleasesLists(Lists) \cup CgroupPaths
    BY <1>2, <1>5 DEF CleanedUp
  <2>2. Misuses(Pointers) \subseteq {Block(p) : p \in Program}
    BY <2>1 DEF Misuses
  <2> QED BY <1>1, <1>2, <1>3, <1>5, <2>1, <2>2
<1> QED BY <1>2, <1>4, <1>5

\* A call of a configuration function is none of the copy's business.
LEMMA ConfigureCopy ==
  ASSUME Configure
  PROVE  pc = "configure" /\ pc' = "configure" /\ UNCHANGED copy
BY ZenonT(60) DEF Configure, Call, minijail_change_user, minijail_uidmap, minijail_gidmap,
       minijail_write_pid_file, minijail_use_alt_syscall, run_filename, Overwrite,
       minijail_set_supplementary_gids, minijail_enter_chroot, minijail_enter_pivot_root,
       minijail_namespace_set_hostname, minijail_set_preload_path, SetOnce,
       minijail_add_remount, minijail_add_hook, Extend, minijail_mount_with_data,
       minijail_add_to_cgroup, add_fs_restriction_path, minijail_use_seccomp_filter,
       clear_seccomp_options, minijail_set_seccomp_filters, minijail_parse_seccomp_filters,
       minijail_parse_seccomp_filters_from_fd, ParseFilters, Replace

\* The values the copy's variables may take.
LEMMA CopyType ==
  ASSUME CopyInv, [Next]_vars
  PROVE  ptr' \in [Pointers -> {"null", "from", "own", "freed"}] /\ len' \in [Lists -> Nat]
<1>1. ptr \in [Pointers -> {"null", "from", "own", "freed"}] /\ len \in [Lists -> Nat]
  BY DEF CopyInv
<1>2. ASSUME UNCHANGED <<ptr, len>>
      PROVE  ptr' \in [Pointers -> {"null", "from", "own", "freed"}] /\ len' \in [Lists -> Nat]
  BY <1>1, <1>2
<1>3. CASE Configure
  <2>1. UNCHANGED copy
    BY <1>3, ConfigureCopy
  <2> QED BY <1>2, <2>1 DEF copy
<1>4. CASE CopyStruct
  BY <1>1, <1>4 DEF CopyStruct
<1>5. CASE RulesFd \/ Destroy \/ DestroyFrom \/ UNCHANGED vars
  BY <1>2, <1>5 DEF RulesFd, Destroy, DestroyFrom, vars, copy
<1>10. CASE minijail_size \/ WriteField \/ WritePart
  BY <1>2, <1>10, ZenonT(60) DEF minijail_size, WriteField, WritePart, copy
<1>6. ASSUME NEW f \in Fields, Allocate(f)
      PROVE  ptr' \in [Pointers -> {"null", "from", "own", "freed"}] /\ len' \in [Lists -> Nat]
  BY <1>1, <1>6 DEF Allocate
<1>7. ASSUME NEW f \in Fields, AddPart(f)
      PROVE  ptr' \in [Pointers -> {"null", "from", "own", "freed"}] /\ len' \in [Lists -> Nat]
  <2>1. ptr' = ptr /\ (len' = len \/ len' = [len EXCEPT ![f] = @ + 1])
    BY <1>7, ZenonT(60) DEF AddPart
  <2> QED BY <1>1, <2>1
<1>8. ASSUME NEW f \in Fields, ListDone(f)
      PROVE  ptr' \in [Pointers -> {"null", "from", "own", "freed"}] /\ len' \in [Lists -> Nat]
  BY <1>2, <1>8, ZenonT(60) DEF ListDone
<1>9. ASSUME NEW f \in Fields, Fail(f)
      PROVE  ptr' \in [Pointers -> {"null", "from", "own", "freed"}] /\ len' \in [Lists -> Nat]
  BY <1>1, <1>9 DEF Fail
<1> QED
  BY <1>3, <1>4, <1>5, <1>6, <1>7, <1>8, <1>9, <1>10, ZenonT(60) DEF Next

\* The copy has come to the field g, or is complete.
LEMMA AtField ==
  ASSUME CopyInv, pc \in Fields \cup {"marshal"}, NEW g \in Fields \cup {"returned"}, pc' = g,
         ret' = (IF g = "returned" THEN "ok" ELSE "none"), Arrived(NextRank(g))',
         g \in Program => Carried(g)', misused' = misused,
         ptr' \in [Pointers -> {"null", "from", "own", "freed"}] /\ len' \in [Lists -> Nat]
  PROVE  CopyInv'
<1>1. /\ pc \notin {"destroyed", "done"} /\ g \notin {"configure", "crashed", "marshal", "destroyed", "done"}
      /\ "returned" \notin Fields
  BY NamesAre
<1>2. misused = {}
  BY <1>1 DEF CopyInv
<1>3. CASE g = "returned"
  BY <1>1, <1>2, <1>3, ZenonT(60) DEF CopyInv, NextRank
<1>4. CASE g # "returned"
  BY <1>1, <1>2, <1>4, ZenonT(60) DEF CopyInv, NextRank
<1> QED BY <1>3, <1>4

\* Each step of minijail_unmarshal() and of its caller keeps the invariant.
LEMMA CopyStep ==
  ASSUME JailInv, CountInv, CopyInv, [Next]_vars
  PROVE  CopyInv'
<1> DEFINE Type == ptr' \in [Pointers -> {"null", "from", "own", "freed"}] /\ len' \in [Lists -> Nat]
<1>t. Type
  BY CopyType
<1>1. CASE Configure
  <2>1. pc = "configure" /\ pc' = pc /\ UNCHANGED <<ptr, len, live, ret>> /\ misused' = misused
    BY <1>1, ConfigureCopy, ConfigureStep DEF copy
  <2>2. pc \notin Fields
    BY <2>1, NamesAre
  <2> QED BY <1>t, <2>1, <2>2 DEF CopyInv
<1>s. CASE minijail_size \/ WriteField \/ WritePart
  <2>1. /\ pc \in {"configure", "marshal"} /\ pc' \in {"crashed", "marshal"}
        /\ UNCHANGED <<ptr, len, live, ret>> /\ misused' = misused
    BY <1>s, ZenonT(60) DEF minijail_size, WriteField, WritePart, copy
  <2>2. pc \notin Fields /\ pc' \notin Fields
    BY <2>1, NamesAre
  <2> QED BY <1>t, <2>1, <2>2 DEF CopyInv
<1>2. CASE CopyStruct
  <2>1. pc = "marshal" /\ ret' = ret /\ misused' = misused
    BY <1>2 DEF CopyStruct
  <2>2. ret = "none"
    BY <2>1, NamesAre DEF CopyInv
  <2>3. pc' = "user" /\ Arrived(1)'
    BY <1>2, CopyStructArrives
  <2>4. "user" \in Fields /\ "user" \notin Program /\ NextRank("user") = 1
    BY NamesAre, Ranks DEF Program, NextRank
  <2>5. Arrived(NextRank("user"))'
    BY <2>3, <2>4
  <2>6. ret' = IF "user" = "returned" THEN "ok" ELSE "none"
    BY <2>1, <2>2
  <2> QED BY <1>t, <2>1, <2>3, <2>4, <2>5, <2>6, AtField, ZenonT(60)
<1>3. ASSUME NEW f \in Fields, pc = f, pc' = After(f), from' = from, misused' = misused,
             ret' = (IF After(f) = "returned" THEN "ok" ELSE ret),
             \A g : g = After(f) => Arrived(NextRank(g))'
      PROVE  CopyInv'
  <2>1. ret = "none" /\ (f \in Program => Carried(f))
    BY <1>3, NamesAre DEF CopyInv
  <2>2. PICK h : h = After(f)
    OBVIOUS
  <2>3. h \in Fields \cup {"returned"} /\ (h \in Program => Carried(h))
    BY <2>1, <2>2, RankStep
  <2>4. h \in Program => Carried(h)'
    BY <1>3, <2>3, CarriedSame
  <2>5. Arrived(NextRank(h))' /\ pc' = h /\ ret' = IF h = "returned" THEN "ok" ELSE "none"
    BY <1>3, <2>1, <2>2
  <2>6. pc \in Fields \cup {"marshal"}
    BY <1>3
  <2> QED BY <1>t, <1>3, <2>3, <2>4, <2>5, <2>6, AtField, ZenonT(60)
<1>4. ASSUME NEW f \in Fields, Allocate(f) PROVE CopyInv'
  <2>1. /\ pc = f /\ pc' = After(f) /\ from' = from /\ misused' = misused
        /\ ret' = IF After(f) = "returned" THEN "ok" ELSE ret
    BY <1>4 DEF Allocate, caller
  <2>2. \A g : g = After(f) => Arrived(NextRank(g))'
    BY <1>4, AllocateArrives
  <2> QED BY <1>3, <2>1, <2>2, ZenonT(60)
<1>5. ASSUME NEW f \in Fields, ListDone(f) PROVE CopyInv'
  <2>1. /\ pc = f /\ f \in Lists /\ len[f] = from.len[f] /\ pc' = After(f) /\ misused' = misused
        /\ UNCHANGED <<from, ptr, len, live>> /\ ret' = ret
    BY <1>5, CountsAre DEF ListDone, caller
  <2>2. f \notin Pointers /\ After(f) # "returned"
    BY <2>1, NamesAre, AfterOthers DEF Lists
  <2>3. \A g : g = After(f) => Arrived(NextRank(g))'
    BY <2>1, <2>2, PassArrives
  <2> QED BY <1>3, <2>1, <2>2, <2>3, ZenonT(60)
<1>6. CASE RulesFd
  <2>1. /\ pc = "fs_rules_fd" /\ pc' = After("fs_rules_fd") /\ misused' = misused
        /\ UNCHANGED <<from, ptr, len, live>> /\ ret' = ret
    BY <1>6 DEF RulesFd, caller
  <2>2. /\ "fs_rules_fd" \in Fields \ Pointers /\ "fs_rules_fd" \notin Lists
        /\ After("fs_rules_fd") # "returned"
    BY NamesAre, AfterOthers DEF Lists
  <2>3. \A g : g = After("fs_rules_fd") => Arrived(NextRank(g))'
    BY <2>1, <2>2, PassArrives
  <2> QED BY <1>3, <2>1, <2>2, <2>3
<1>7. ASSUME NEW f \in Fields, AddPart(f) PROVE CopyInv'
  <2>1. pc = f /\ pc' = f /\ f \in Lists /\ misused' = misused /\ ret' = ret
    BY <1>7 DEF AddPart, Reading
  <2>2. Arrived(Rank[f])'
    BY <1>7, AddPartArrives
  <2>3. f \notin Program /\ f # "returned" /\ ret = "none"
    BY <2>1, NamesAre DEF Lists, Program, CopyInv
  <2>4. Arrived(NextRank(f))'
    BY <2>2, <2>3 DEF NextRank
  <2>5. ret' = IF f = "returned" THEN "ok" ELSE "none"
    BY <2>1, <2>3
  <2> QED BY <1>t, <2>1, <2>3, <2>4, <2>5, AtField, ZenonT(60)
<1>8. ASSUME NEW f \in Fields, Fail(f) PROVE CopyInv'
  <2>1. CleanedUp' /\ misused' = misused /\ pc' = "returned" /\ ret' = "error"
    BY <1>8, FailCleans
  <2>2. misused = {} /\ "returned" \notin Fields
    BY <1>8, NamesAre DEF Fail, CopyInv
  <2> QED BY <1>t, <2>1, <2>2 DEF CopyInv
<1>9. CASE Destroy
  <2>1. pc = "returned" /\ pc' = "destroyed" /\ ret' = ret
    BY <1>9 DEF Destroy
  <2>2. ret \in {"ok", "error"} /\ "destroyed" \notin Fields
    BY <2>1, NamesAre DEF CopyInv
  <2>3. /\ \A p \in Pointers : ptr'[p] # "from"
        /\ live' = {} \/ (ret' = "error" /\ live' \subseteq CgroupPaths')
        /\ misused' \subseteq {Block(p) : p \in Program}
    BY <1>9, DestroyFrees
  <2> QED BY <1>t, <2>1, <2>2, <2>3 DEF CopyInv
<1>10. CASE DestroyFrom
  <2>1. /\ pc = "destroyed" /\ pc' = "done" /\ from' = from /\ UNCHANGED <<ptr, len, live, ret>>
        /\ Free(Pointers)
    BY <1>10 DEF DestroyFrom, copy
  <2>2. misused' = misused
    BY <2>1, FreeIsSafe
  <2>3. CgroupPaths' = CgroupPaths
    BY <2>1, CarriedSame
  <2>4. "done" \notin Fields
    BY NamesAre
  <2> QED BY <1>t, <2>1, <2>2, <2>3, <2>4 DEF CopyInv
<1>11. CASE UNCHANGED vars
  <2>1. \A p : Carried(p)' <=> Carried(p)
    BY <1>11, CarriedSame, ZenonT(60) DEF vars
  <2>2. (\A r : Arrived(r)' <=> Arrived(r)) /\ (CleanedUp' <=> CleanedUp)
    BY <1>11, ArrivedSame, ZenonT(60)
  <2>3. CgroupPaths' = CgroupPaths
    BY <1>11, CarriedSame, ZenonT(60) DEF vars
  <2> QED BY <1>11, <2>1, <2>2, <2>3 DEF vars, CopyInv
<1> QED
  BY <1>1, <1>s, <1>2, <1>4, <1>5, <1>6, <1>7, <1>8, <1>9, <1>10, <1>11, ZenonT(60) DEF Next

-----------------------------------------------------------------------------
(* The theorems.                                                                *)

\* A few numbers have a bound, here the numbers of a jail's first blocks.
LEMMA FiveBounded ==
  ASSUME NEW a \in Nat, NEW b \in Nat, NEW c \in Nat, NEW d \in Nat, NEW e \in Nat
  PROVE  \E n \in Nat : a <= n /\ b <= n /\ c <= n /\ d <= n /\ e <= n
<1> DEFINE n == a + b + c + d + e
<1>1. n \in Nat /\ a <= n /\ b <= n /\ c <= n /\ d <= n /\ e <= n
  OBVIOUS
<1> QED BY <1>1

\* A jail that earlier calls have made has its blocks, and nothing is copied yet.
LEMMA MarshalInit ==
  ASSUME Init
  PROVE  JailInv /\ CountInv /\ CopyInv
<1>1. /\ from \in JailOptions /\ from.at["filter_prog"] = from.at["filter"] /\ heap = HeapOf(from)
      /\ pc = "configure" /\ ptr = [p \in Pointers |-> "null"] /\ len = [l \in Lists |-> 0]
      /\ live = {} /\ misused = {} /\ ret = "none"
  BY MarshalAssumption DEF Init
<1>2. from.at \in [Pointers -> Nat]
  BY <1>1 DEF JailOptions
<1>3. \A b \in heap : \E p \in Pointers : b = <<p, from.at[p]>> /\ from.at[p] \in Nat \ {0}
  BY <1>1, <1>2 DEF HeapOf, Has
<1>4. \A p : Numbers(p) = IF p \in Pointers /\ from.at[p] # 0 THEN {from.at[p]} ELSE {}
  <2>1. \A p, m : m \in Numbers(p) <=> <<p, m>> \in heap
    <3> SUFFICES ASSUME NEW p, NEW m PROVE m \in Numbers(p) <=> <<p, m>> \in heap
      BY ZenonT(60)
    <3>1. ASSUME m \in Numbers(p) PROVE <<p, m>> \in heap
      BY <1>3, <3>1 DEF Numbers
    <3>2. ASSUME <<p, m>> \in heap PROVE m \in Numbers(p)
      BY <3>2 DEF Numbers
    <3> QED BY <3>1, <3>2
  <2>2. \A p, m : <<p, m>> \in heap <=> (p \in Pointers /\ from.at[p] # 0 /\ m = from.at[p])
    BY <1>1 DEF HeapOf, Has
  <2> QED BY <2>1, <2>2, ZenonT(60)
<1>5. \E n \in Nat : \A p \in Pointers : from.at[p] <= n
  <2> DEFINE at == from.at
  <2>1. \A p \in Pointers : at[p] \in Nat
    BY <1>2
  <2>2. PICK n1 \in Nat : /\ at["user"] <= n1 /\ at["suppl_gid_list"] <= n1 /\ at["chrootdir"] <= n1
                        /\ at["hostname"] <= n1 /\ at["alt_syscall_table"] <= n1
    BY <2>1, NamesAre, FiveBounded
  <2>3. PICK n2 \in Nat : /\ at["preload_path"] <= n2 /\ at["filename"] <= n2 /\ at["pid_file_path"] <= n2
                        /\ at["uidmap"] <= n2 /\ at["gidmap"] <= n2
    BY <2>1, NamesAre, FiveBounded
  <2>4. PICK n3 \in Nat : /\ at["remounts"] <= n3 /\ at["hooks"] <= n3 /\ at["filter_prog"] <= n3
                        /\ at["filter"] <= n3 /\ at["seccomp_policy_path"] <= n3
    BY <2>1, NamesAre, FiveBounded
  <2>5. PICK n \in Nat : n1 <= n /\ n2 <= n /\ n3 <= n
    BY FiveBounded
  <2>6. \A p \in Pointers : at[p] <= n
    BY <2>1, <2>2, <2>3, <2>4, <2>5, NamesAre
  <2> QED BY <2>6
<1>6. JailInv
  <2>1. heap \subseteq Pointers \X (Nat \ {0}) /\ \E n \in Nat : \A b \in heap : b[2] <= n
    BY <1>3, <1>5
  <2>2. Numbers("filter") = Numbers("filter_prog")
    BY <1>1, <1>4, NamesAre, ZenonT(60)
  <2>3. \A p \in Pointers \ Leaky : Numbers(p) \subseteq {from.at[p]}
    BY <1>4
  <2> QED BY <1>1, <2>1, <2>2, <2>3 DEF JailInv
<1>7. CopyInv
  <2>1. pc \notin Fields
    BY <1>1, NamesAre
  <2> QED BY <1>1, <2>1 DEF CopyInv
<1>8. CountInv
  BY MarshalAssumption DEF Init, CountInv
<1> QED BY <1>6, <1>7, <1>8

\* The inductive invariant: who owns which block, of the jail that is configured and
\* of the copy, at each field of minijail_unmarshal() and at each of its labels.
THEOREM MarshalInvariant == Spec => [](JailInv /\ CountInv /\ CopyInv)
<1>1. Init => JailInv /\ CountInv /\ CopyInv
  BY MarshalInit
<1>2. JailInv /\ CountInv /\ CopyInv /\ [Next]_vars => (JailInv /\ CountInv /\ CopyInv)'
  BY JailStep, CountStep, CopyStep
<1> QED BY <1>1, <1>2, PTL DEF Spec

\* Each pointer of the jail owns its block whatever is called in whatever order, and
\* what minijail_destroy() leaves behind is of the few kinds the code forgets.
THEOREM JailOwnsTheorem == Spec => []JailOwnsBlocks
<1>1. JailInv => JailOwnsBlocks
  <2> SUFFICES ASSUME JailInv PROVE JailOwnsBlocks
    OBVIOUS
  <2>1. ASSUME pc = "done", NEW p \in Pointers, Numbers(p) # {} PROVE p \in Leaky
    BY <2>1 DEF JailInv
  <2> QED BY <2>1 DEF JailInv, JailOwnsBlocks, Leaky
<1> QED BY <1>1, MarshalInvariant, PTL

\* Whatever allocation fails, the labels of minijail_unmarshal() and minijail_destroy()
\* free each block of the copy once and nothing of the sender's, the filter program
\* and the cgroup paths apart.
THEOREM FreedOnceTheorem == Spec => []FreedExactlyOnce
<1>1. JailInv /\ CopyInv => FreedExactlyOnce
  <2> SUFFICES ASSUME JailInv, CopyInv PROVE FreedExactlyOnce
    OBVIOUS
  <2>1. ASSUME ret # "none", NEW p \in Pointers PROVE ptr[p] # "from"
    <3>1. pc \in {"returned", "destroyed", "done"}
      BY <2>1 DEF CopyInv
    <3>2. CASE pc = "returned" /\ ret = "ok"
      <4>1. Arrived(13)
        BY <3>2 DEF CopyInv
      <4>2. Carried(p) => Rank[p] < 13
        BY Ranks, NamesAre DEF Carried, Unsent
      <4> QED BY <4>1, <4>2 DEF Arrived
    <3>3. CASE pc = "returned" /\ ret # "ok"
      BY <3>3 DEF CopyInv, CleanedUp
    <3>4. CASE pc \in {"destroyed", "done"}
      BY <3>4 DEF CopyInv
    <3> QED BY <3>1, <3>2, <3>3, <3>4
  <2>2. misused \subseteq {Block("filter_prog"), Block("filter")}
    BY DEF CopyInv, Program
  <2>3. pc \in {"destroyed", "done"} => live = {} \/ (ret = "error" /\ live \subseteq CgroupPaths)
    BY ZenonT(60) DEF CopyInv
  <2> QED BY <2>1, <2>2, <2>3 DEF FreedExactlyOnce, CgroupPaths
<1> QED BY <1>1, MarshalInvariant, PTL

=============================================================================
