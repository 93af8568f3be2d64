------------------------------ MODULE Marshal ------------------------------
(* Who owns which block of the heap: while a caller configures a jail with the *)
(* functions of the library, and when minijail_marshal(), minijail_unmarshal() *)
(* and minijail_copy_jail() turn it into bytes and memory again.  The bytes of *)
(* the struct itself are copied as they are, so the receiver starts with the   *)
(* sender's pointers, takes some of them as a sign that the field's content    *)
(* follows, and must get rid of all of them.  What follows the struct has no    *)
(* names or types: the receiver finds each content only because it reads in the *)
(* order in which the sender wrote.                                            *)
EXTENDS Sequences, FiniteSetsExt, Functions, Integers

CONSTANTS
  Jails,         \* the jails that earlier calls have made
  MaxCalls,      \* how many more calls there are for each
  MaxCgroups,    \* MAX_CGROUPS
  MayRunOut      \* TRUE: an allocation may fail

\* The fields with a pointer.  The first come in this order in minijail_unmarshal();
\* the second are reset; then there are three lists.
Sent   == <<"user", "suppl_gid_list", "chrootdir", "hostname", "alt_syscall_table">>
Unsent == {"preload_path", "filename", "pid_file_path", "uidmap", "gidmap", "remounts", "hooks"}
Lists  == {"mounts", "cgroups", "fs_rules"}
Pointers == Range(Sent) \cup Unsent \cup {"filter_prog", "filter", "seccomp_policy_path"}
Program == {"filter_prog", "filter"}

\* A jail: which block each of its pointers points to, the first, the second or a
\* later one that was allocated for it, or none (0); the lengths of its lists; the
\* counters in the struct, mounts_count, cgroup_count, fs_rules_count and filter_len
\* (a program is one block of instructions); which mounts have data; a rule without
\* a path; the descriptor of its Landlock ruleset; and flags.seccomp_filter.
Counted == Lists \cup {"filter_prog"}
JailOptions ==
  [at : [Pointers -> Nat], len : [Lists -> Nat], count : [Counted -> Nat], data : SUBSET Nat,
   nopath : BOOLEAN, fs_rules_fd : Nat \cup {-1}, filtering : BOOLEAN]
Has(j, p) == j.at[p] # 0
Counts(j) ==
  [c \in Counted |-> IF c \in Lists THEN j.len[c] ELSE IF Has(j, c) THEN 1 ELSE 0]

\* A filter program and its instructions are always allocated together, and the
\* counters are right.
ASSUME MarshalAssumption ==
  /\ Jails \subseteq {j \in JailOptions : j.at["filter_prog"] = j.at["filter"] /\ j.count = Counts(j)}
  /\ MaxCalls \in [Jails -> Nat] /\ MaxCgroups \in Nat
  /\ MayRunOut \in BOOLEAN

VARIABLES
  from,     \* the jail that is configured, and copied
  heap,     \* its blocks that are allocated, each a pointer and a number
  calls,    \* how many calls are left
  pc,       \* the field minijail_unmarshal() is at, or what its caller does
  ptr,      \* where each pointer of the copy points: nowhere, into the memory
            \* of `from', to a block of its own or to a block already freed
  len,      \* the entries that can be reached through each list of the copy
  live,     \* the blocks the copy allocated and has not freed
  misused,  \* blocks freed again, and blocks of `from' freed through the copy
  ret,      \* what minijail_unmarshal() returned
  out,      \* what minijail_marshal() comes to next
  buf,      \* the contents it has written after the struct
  pos,      \* the first of them minijail_unmarshal() has not consumed
  part,     \* the part of a list entry it comes to next
  got       \* what it took each content for

caller == <<from, heap, calls>>
sender == <<out, buf>>
input  == <<pos, part, got>>
copy == <<ptr, len, live, ret, sender, input>>
vars == <<from, heap, calls, pc, ptr, len, live, misused, ret, sender, input>>

Fields == Range(Sent) \cup {"filter_prog", "filter", "fs_rules_fd", "seccomp_policy_path"} \cup Lists

\* A content: the field, the number of the entry in a list, and the part of it.
Whole(f) == <<f, 0, "whole">>
First(l) == IF l = "mounts" THEN "src" ELSE "path"
Start(f) == IF f \in Lists THEN <<f, 1, First(f)>> ELSE Whole(f)

Block(f) == <<f, 0>>
Entry(l, n) == <<l, n>>
EntriesOf(l) == {Entry(l, n) : n \in 1 .. len[l]}

HeapOf(j) == {<<p, j.at[p]>> : p \in {q \in Pointers : Has(j, q)}}

Init ==
  /\ from \in Jails
  /\ heap = HeapOf(from)
  /\ calls = MaxCalls[from]
  /\ pc = "configure"
  /\ ptr = [p \in Pointers |-> "null"]
  /\ len = [l \in Lists |-> 0]
  /\ live = {} /\ misused = {}
  /\ ret = "none"
  /\ out = Whole("user") /\ buf = <<>>
  /\ pos = 1 /\ part = "src" /\ got = {}

-----------------------------------------------------------------------------
(* Configuring the jail. *)

Call == pc = "configure" /\ calls > 0 /\ calls' = calls - 1 /\ UNCHANGED <<pc, copy>>

\* The pointers P, which now point to new blocks, or to nothing if there is no memory.
Numbers(p) == {b[2] : b \in {c \in heap : c[1] = p}}
NewBlock(p) == 1 + Max({0} \cup Numbers(p))
Points(P) == [from EXCEPT !.at = [p \in Pointers |-> IF p \in P THEN NewBlock(p) ELSE @[p]]]
Empties(P) == [from EXCEPT !.at = [p \in Pointers |-> IF p \in P THEN 0 ELSE @[p]]]
BlocksOf(P) == {<<p, from.at[p]>> : p \in {q \in P : Has(from, q)}}
New(P) == {<<p, NewBlock(p)>> : p \in P}

\* free() of what the pointers P point to.
Free(P) == misused' = misused \cup (BlocksOf(P) \ heap)

\* strdup(), whatever was there before.
Overwrite(p) ==
  /\ Call
  /\ \/ from' = Points({p}) /\ heap' = heap \cup New({p})
     \/ MayRunOut /\ from' = Empties({p}) /\ UNCHANGED heap
  /\ UNCHANGED misused

minijail_change_user     == Overwrite("user")
minijail_uidmap          == Overwrite("uidmap")
minijail_gidmap          == Overwrite("gidmap")
minijail_write_pid_file  == Overwrite("pid_file_path")
minijail_use_alt_syscall == Overwrite("alt_syscall_table")
run_filename             == Overwrite("filename")

\* No groups are no list.  Without memory the caller dies.
minijail_set_supplementary_gids ==
  /\ Call
  /\ \/ from' = Points({"suppl_gid_list"}) /\ heap' = heap \cup New({"suppl_gid_list"})
     \/ from' = Empties({"suppl_gid_list"}) /\ UNCHANGED heap
  /\ UNCHANGED misused

\* An error if there is one already.
SetOnce(p) ==
  /\ Call
  /\ ~Has(from, p)
  /\ from' = Points({p}) /\ heap' = heap \cup New({p})
  /\ UNCHANGED misused

minijail_enter_chroot     == SetOnce("chrootdir")
minijail_enter_pivot_root == SetOnce("chrootdir")
minijail_namespace_set_hostname == SetOnce("hostname")
minijail_set_preload_path == SetOnce("preload_path")

\* The block of a list that is not sent stands for all of its entries.
Extend(p) ==
  /\ Call
  /\ from' = IF Has(from, p) THEN from ELSE Points({p})
  /\ heap' = IF Has(from, p) THEN heap ELSE heap \cup New({p})
  /\ UNCHANGED misused

minijail_add_remount == Extend("remounts")
minijail_add_hook    == Extend("hooks")

minijail_mount_with_data ==
  /\ Call
  /\ \E has_data \in BOOLEAN :
       from' = [from EXCEPT !.len["mounts"] = @ + 1, !.count["mounts"] = @ + 1,
                            !.data = IF has_data THEN @ \cup {from.len["mounts"] + 1} ELSE @]
  /\ UNCHANGED <<heap, misused>>

minijail_add_to_cgroup ==
  /\ Call
  /\ from.len["cgroups"] < MaxCgroups
  /\ from' = [from EXCEPT !.len["cgroups"] = @ + 1, !.count["cgroups"] = @ + 1]
  /\ UNCHANGED <<heap, misused>>

\* The copy of the path is not looked at.  The first rule makes the ruleset, whose
\* descriptor is 0 if the caller has closed its standard input.
add_fs_restriction_path(fd) ==
  /\ Call
  /\ \E nopath \in {FALSE, MayRunOut} :
       from' = [from EXCEPT !.len["fs_rules"] = @ + 1, !.count["fs_rules"] = @ + 1,
                            !.nopath = @ \/ nopath,
                            !.fs_rules_fd = IF from.count["fs_rules"] = 0 THEN fd ELSE @]
  /\ UNCHANGED <<heap, misused>>

minijail_use_seccomp_filter ==
  /\ Call
  /\ from' = [from EXCEPT !.filtering = TRUE]
  /\ UNCHANGED <<heap, misused>>

\* Mutant: the instructions of the program that is replaced are forgotten.
FreesStruct == {"filter_prog"}

\* What is freed when set_seccomp_filters_internal() replaces a program.
set_seccomp_filters_internal == Program

\* The pointers `old' are freed, and `new' get new blocks.
Replace(old, new) ==
  /\ Call
  /\ from' = [from EXCEPT !.count["filter_prog"] = 1,
                          !.at = [p \in Pointers |-> IF p \in new THEN NewBlock(p)
                                                    ELSE IF p \in old THEN 0 ELSE @[p]]]
  /\ heap' = (heap \ BlocksOf(old)) \cup New(new)
  /\ Free(old)

minijail_set_seccomp_filters == Replace(set_seccomp_filters_internal, Program)

\* With the path of the policy, or without: strdup() is not looked at, and a
\* descriptor may have no path.
ParseFilters(nopath) ==
  Replace(set_seccomp_filters_internal \cup {"seccomp_policy_path"},
          IF nopath THEN Program ELSE Program \cup {"seccomp_policy_path"})

minijail_parse_seccomp_filters == \E nopath \in {FALSE, MayRunOut} : ParseFilters(nopath)
minijail_parse_seccomp_filters_from_fd == \E nopath \in BOOLEAN : ParseFilters(nopath)

\* What those three do if the kernel cannot filter: the path is freed, the program
\* is only forgotten.
clear_seccomp_options ==
  /\ Call
  /\ from' = [Empties(Program \cup {"seccomp_policy_path"}) EXCEPT !.filtering = FALSE,
                                                                     !.count["filter_prog"] = 0]
  /\ heap' = heap \ BlocksOf({"seccomp_policy_path"})
  /\ Free({"seccomp_policy_path"})

Configure ==
  \/ minijail_change_user \/ minijail_uidmap \/ minijail_gidmap \/ minijail_write_pid_file
  \/ minijail_use_alt_syscall \/ run_filename \/ minijail_set_supplementary_gids
  \/ minijail_enter_chroot \/ minijail_enter_pivot_root \/ minijail_namespace_set_hostname
  \/ minijail_set_preload_path \/ minijail_add_remount \/ minijail_add_hook
  \/ minijail_mount_with_data \/ minijail_add_to_cgroup
  \/ \E fd \in {-1, 0, 3} : add_fs_restriction_path(fd)
  \/ minijail_use_seccomp_filter \/ clear_seccomp_options \/ minijail_set_seccomp_filters
  \/ minijail_parse_seccomp_filters \/ minijail_parse_seccomp_filters_from_fd

-----------------------------------------------------------------------------
(* minijail_marshal(). *)

\* minijail_size() goes over the jail first; a rule without a path ends it.
minijail_size ==
  /\ pc = "configure"
  /\ pc' = IF from.nopath THEN "crashed" ELSE "marshal"
  /\ UNCHANGED <<caller, misused, copy>>

\* Mutant: the cgroups are written before the mounts.
SwappedOrder ==
  [user |-> "suppl_gid_list", suppl_gid_list |-> "chrootdir", chrootdir |-> "hostname",
   hostname |-> "alt_syscall_table", alt_syscall_table |-> "filter_prog",
   filter_prog |-> "cgroups", cgroups |-> "mounts", mounts |-> "fs_rules",
   fs_rules |-> "fs_rules_fd", fs_rules_fd |-> "seccomp_policy_path",
   seccomp_policy_path |-> "sent"]

\* What is written after each field.
minijail_marshal_helper ==
  [user |-> "suppl_gid_list", suppl_gid_list |-> "chrootdir", chrootdir |-> "hostname",
   hostname |-> "alt_syscall_table", alt_syscall_table |-> "filter_prog",
   filter_prog |-> "mounts", mounts |-> "cgroups", cgroups |-> "fs_rules",
   fs_rules |-> "fs_rules_fd", fs_rules_fd |-> "seccomp_policy_path",
   seccomp_policy_path |-> "sent"]

\* Whether a field that is no list has content to write.
Written(f) ==
  CASE f = "filter_prog" -> from.filtering /\ Has(from, "filter_prog")
    [] f = "fs_rules_fd" -> TRUE
    [] OTHER             -> Has(from, f)

\* The parts of an entry, each with the one after it.
marshal_mount(n) ==
  [src |-> "dest", dest |-> "type", type |-> "has_data",
   has_data |-> IF n \in from.data THEN "data" ELSE "flags", data |-> "flags", flags |-> "end"]
marshal_fs_rule == [path |-> "flags", flags |-> "end"]
marshal_cgroup  == [path |-> "end"]
PartAfter(c) ==
  CASE c[1] = "mounts"   -> marshal_mount(c[2])[c[3]]
    [] c[1] = "cgroups"  -> marshal_cgroup[c[3]]
    [] c[1] = "fs_rules" -> marshal_fs_rule[c[3]]

\* The bytes of a content are its own, except that a number may be 0.
Zero(c) ==
  \/ c[3] = "has_data" /\ c[2] \notin from.data
  \/ c = Whole("fs_rules_fd") /\ from.fs_rules_fd = 0
Bytes(c) == IF Zero(c) THEN <<c[1], c[2], "zero">> ELSE c
marshal_append(c) == buf' = Append(buf, Bytes(c))

WriteField ==
  /\ pc = "marshal"
  /\ out[1] \notin Lists \cup {"sent"}
  /\ IF Written(out[1]) THEN marshal_append(out) ELSE UNCHANGED buf
  /\ out' = Start(minijail_marshal_helper[out[1]])
  /\ UNCHANGED <<caller, pc, ptr, len, live, misused, ret, input>>

WritePart ==
  /\ pc = "marshal"
  /\ out[1] \in Lists
  /\ IF out[2] <= from.len[out[1]]
     THEN /\ marshal_append(out)
          /\ out' = IF PartAfter(out) = "end" THEN <<out[1], out[2] + 1, First(out[1])>>
                    ELSE <<out[1], out[2], PartAfter(out)>>
     ELSE out' = Start(minijail_marshal_helper[out[1]]) /\ UNCHANGED buf
  /\ UNCHANGED <<caller, pc, ptr, len, live, misused, ret, input>>

-----------------------------------------------------------------------------
(* minijail_unmarshal(). *)

\* The field after f: the strings and the group list, the program, the lists.
After(f) ==
  CASE f \in Range(Sent) /\ f # Sent[Len(Sent)] -> Sent[CHOOSE n \in DOMAIN Sent : n > 1 /\ Sent[n - 1] = f]
    [] f = Sent[Len(Sent)] -> IF from.filtering /\ from.count["filter_prog"] > 0 THEN "filter_prog"
                              ELSE "mounts"
    [] f = "filter_prog" -> "filter"
    [] f = "filter"      -> "mounts"
    [] f = "mounts"      -> "cgroups"
    [] f = "cgroups"     -> "fs_rules"
    [] f = "fs_rules"    -> "fs_rules_fd"
    [] f = "fs_rules_fd" -> "seccomp_policy_path"
    [] OTHER             -> "returned"

Return(r) == pc' = "returned" /\ ret' = r

\* memcpy() of the struct, then the pointers that are no signals.
Reset(p) == p \in Unsent \cup Program

CopyStruct ==
  /\ pc = "marshal" /\ out[1] = "sent"
  /\ ptr' = [p \in Pointers |-> IF Has(from, p) /\ ~Reset(p) THEN "from" ELSE "null"]
  /\ pc' = Sent[1]
  /\ UNCHANGED <<caller, len, live, misused, ret, sender, input>>

\* consumestr() and consumebytes(): the next content, whatever it is, is taken for c.
AtEnd == pos > Len(buf)
Consume(c) == ~AtEnd /\ pos' = pos + 1 /\ got' = got \cup {<<c, buf[pos]>>}

\* A field whose pointer says that its content follows gets a copy of it.
Present(f) == ptr[f] = "from" \/ f \in Program

\* The instructions are consumed before the program is allocated.
Consumes(f) == Present(f) /\ f # "filter"

Allocate(f) ==
  /\ pc = f
  /\ f \in Pointers
  /\ IF Consumes(f) THEN Consume(Whole(f)) ELSE UNCHANGED <<pos, got>>
  /\ pc' = After(f)
  /\ ret' = IF After(f) = "returned" THEN "ok" ELSE ret
  /\ ptr'  = IF Present(f) THEN [ptr EXCEPT ![f] = "own"] ELSE ptr
  /\ live' = IF Present(f) THEN live \cup {Block(f)} ELSE live
  /\ UNCHANGED <<caller, len, misused, sender, part>>

\* The part that is consumed after part p, when p turned out to be v.
ReadAfter(l, p, v) ==
  CASE l = "mounts" /\ p = "src"      -> "dest"
    [] l = "mounts" /\ p = "dest"     -> "type"
    [] l = "mounts" /\ p = "type"     -> "has_data"
    [] l = "mounts" /\ p = "has_data" -> IF v = "zero" THEN "flags" ELSE "data"
    [] l = "mounts" /\ p = "data"     -> "flags"
    [] l = "fs_rules" /\ p = "path"   -> "flags"
    [] OTHER                          -> "end"

\* With its last part an entry is complete: minijail_mount_with_data(), strdup() of
\* a cgroup path, add_fs_restriction_path().
Reading(l) == pc = l /\ l \in Lists /\ len[l] < from.count[l]
AddPart(l) ==
  LET next == ReadAfter(l, part, buf[pos][3]) IN
  /\ Reading(l)
  /\ Consume(<<l, len[l] + 1, part>>)
  /\ part' = IF next = "end" THEN First(l) ELSE next
  /\ len'  = IF next = "end" THEN [len EXCEPT ![l] = @ + 1] ELSE len
  /\ live' = IF next = "end" THEN live \cup {Entry(l, len[l] + 1)} ELSE live
  /\ UNCHANGED <<caller, pc, ptr, misused, ret, sender>>

ListDone(l) ==
  /\ pc = l
  /\ l \in Lists
  /\ len[l] = from.count[l]
  /\ pc' = After(l)
  /\ part' = First(After(l))
  /\ UNCHANGED <<caller, ptr, len, live, misused, ret, sender, pos, got>>

RulesFd ==
  /\ pc = "fs_rules_fd"
  /\ Consume(Whole("fs_rules_fd"))
  /\ buf[pos][3] # "zero"
  /\ pc' = After(pc)
  /\ UNCHANGED <<caller, ptr, len, live, misused, ret, sender, part>>

\* Mutant: the label that frees the table is forgotten.
LabelsShort ==
  <<[label |-> "bad_cgroups",            frees |-> {"mounts", "remounts", "cgroups"}],
    [label |-> "bad_fs_rules",           frees |-> {"fs_rules"}],
    [label |-> "bad_mounts",             frees |-> {"filter"}],
    [label |-> "bad_filter_prog_instrs", frees |-> {"filter_prog"}],
    [label |-> "bad_filters",            frees |-> {}],
    [label |-> "bad_syscall_table",      frees |-> {"hostname"}],
    [label |-> "bad_hostname",           frees |-> {"chrootdir"}],
    [label |-> "bad_chrootdir",          frees |-> {"suppl_gid_list"}],
    [label |-> "bad_gid_list",           frees |-> {"user"}],
    [label |-> "clear_pointers",         frees |-> {}]>>

\* The labels at its end, in the order they fall through, with what each frees.
Labels ==
  <<[label |-> "bad_cgroups",            frees |-> {"mounts", "remounts", "cgroups"}],
    [label |-> "bad_fs_rules",           frees |-> {"fs_rules"}],
    [label |-> "bad_mounts",             frees |-> {"filter"}],
    [label |-> "bad_filter_prog_instrs", frees |-> {"filter_prog"}],
    [label |-> "bad_filters",            frees |-> {"alt_syscall_table"}],
    [label |-> "bad_syscall_table",      frees |-> {"hostname"}],
    [label |-> "bad_hostname",           frees |-> {"chrootdir"}],
    [label |-> "bad_chrootdir",          frees |-> {"suppl_gid_list"}],
    [label |-> "bad_gid_list",           frees |-> {"user"}],
    [label |-> "clear_pointers",         frees |-> {}]>>

\* The label each field goes to when it fails.
Label(f) ==
  CASE f = "user" -> "clear_pointers"
    [] f = "suppl_gid_list" -> "bad_gid_list"
    [] f = "chrootdir" -> "bad_chrootdir"
    [] f = "hostname" -> "bad_hostname"
    [] f = "alt_syscall_table" -> "bad_syscall_table"
    [] f = "filter_prog" -> "bad_filters"
    [] f = "filter" -> "bad_filter_prog_instrs"
    [] f = "mounts" -> "bad_mounts"
    [] f = "fs_rules" -> "bad_fs_rules"
    [] f \in {"cgroups", "fs_rules_fd", "seccomp_policy_path"} -> "bad_cgroups"

Freed(f) ==
  UNION {Labels[n].frees : n \in {k \in DOMAIN Labels :
           \E s \in 1 .. k : Labels[s].label = Label(f)}}

\* The lists are emptied as they are freed, cgroup_count and fs_rules_count are
\* set to 0 in any case; filter_prog is not among the pointers that are cleared.
Cleared == Range(Sent) \cup {"seccomp_policy_path"}

\* free() of what pointer p points to.
Releases(P) == {Block(p) : p \in {q \in P \cap Pointers : ptr[q] = "own"}}
Misuses(P)  == {Block(p) : p \in {q \in P \cap Pointers : ptr[q] \in {"from", "freed"}}}
ReleasesLists(L) == UNION {EntriesOf(l) : l \in L \cap Lists}

\* Nothing is left to consume, there is no memory for the copy of f, or the
\* ruleset's descriptor is 0, which the code takes for a field that is missing.
\* That the flags of a rule or the descriptor are there is not looked at.
Refused(f) ==
  \/ f = "fs_rules_fd" /\ ~AtEnd /\ buf[pos][3] = "zero"
  \/ f \in Pointers /\ Consumes(f) /\ AtEnd
  \/ f \in Lists /\ Reading(f) /\ AtEnd /\ ~(f = "fs_rules" /\ part = "flags")
  \/ MayRunOut /\ f \in Pointers /\ Present(f)
  \/ MayRunOut /\ f \in Lists /\ Reading(f) /\ ReadAfter(f, part, "bytes") = "end"

Fail(f) ==
  LET freed == Freed(f) \ {f} IN
  /\ pc = f
  /\ Refused(f)
  /\ live' = live \ (Releases(freed) \cup ReleasesLists(Freed(f)))
  /\ misused' = misused \cup Misuses(freed)
  /\ ptr' = [p \in Pointers |->
               IF p = f \/ p \in Cleared THEN "null"
               ELSE IF p \in freed /\ ptr[p] # "null" THEN "freed" ELSE ptr[p]]
  /\ len' = [l \in Lists |-> IF l \in Freed(f) \cup {"cgroups", "fs_rules"} THEN 0 ELSE len[l]]
  /\ Return("error")
  /\ UNCHANGED <<caller, sender, input>>

\* minijail_destroy() of the copy.
Destroy ==
  /\ pc = "returned"
  /\ pc' = "destroyed"
  /\ live' = live \ (Releases(Pointers) \cup ReleasesLists(Lists))
  /\ misused' = misused \cup Misuses(Pointers)
  /\ UNCHANGED <<caller, ptr, len, ret, sender, input>>

\* minijail_destroy() of the jail that was configured.
DestroyFrom ==
  /\ pc = "destroyed"
  /\ pc' = "done"
  /\ heap' = heap \ BlocksOf(Pointers)
  /\ Free(Pointers)
  /\ UNCHANGED <<from, calls, copy>>

Next ==
  \/ Configure \/ minijail_size \/ WriteField \/ WritePart
  \/ CopyStruct \/ RulesFd \/ Destroy \/ DestroyFrom
  \/ \E f \in Fields : Allocate(f) \/ AddPart(f) \/ ListDone(f) \/ Fail(f)

Spec == Init /\ [][Next]_vars

-----------------------------------------------------------------------------
(* Properties. *)

\* What minijail_unmarshal() returns, on success or not, holds no address of the
\* sender, which may live in another address space or be destroyed first.
\* Whatever allocation fails, its labels and then
\* minijail_destroy() free nothing of the sender's and nothing twice, apart from
\* the filter program, whose pointer is not cleared after bad_filter_prog_instrs;
\* and in the end every block of the copy has been given back, except for the
\* cgroup paths when a later Landlock rule could not be added: bad_fs_rules skips
\* them and cgroup_count is 0 from then on.
FreedExactlyOnce ==
  /\ ret # "none" => \A p \in Pointers : ptr[p] # "from"
  /\ misused \subseteq {Block("filter_prog"), Block("filter")}
  /\ pc \in {"destroyed", "done"} =>
       \/ live = {}
       \/ ret = "error" /\ live \subseteq {Entry("cgroups", n) : n \in 1 .. from.len["cgroups"]}

\* Whatever is called, in whatever order, each pointer of the jail points to a
\* block that is still allocated.  When the jail has been destroyed, all that is left
\* are strings that were set twice, group lists, and programs, each with its
\* instructions, that were dropped because the kernel turned out not to filter.
JailOwnsBlocks ==
  /\ pc # "done" => HeapOf(from) \subseteq heap
  /\ Numbers("filter") = Numbers("filter_prog")
  /\ pc = "done" =>
       \A p \in Pointers : Numbers(p) # {} =>
          p \in {"user", "uidmap", "gidmap", "pid_file_path", "alt_syscall_table",
                 "filename", "suppl_gid_list"} \cup Program

\* A copy that succeeds has taken each content for what the sender wrote it as,
\* although the two functions keep their orders, conditions and counters apart: the
\* list the sender walks and the counter the receiver goes by, filter_prog and
\* filter_len.  Nothing is left over, and the copy has each field that is sent and its
\* lists entry by entry; a program only if filters are to be used.  It is not one of
\* the "two identical jails" of libminijail.h:666: the fields of `Unsent' are gone.
CarriesJail ==
  pc = "returned" /\ ret = "ok" =>
    LET carried == {p \in Pointers \ Unsent : Has(from, p) /\ (p \in Program => from.filtering)} IN
    /\ \A g \in got : g[2] = Bytes(g[1])
    /\ pos = Len(buf) + 1
    /\ \A p \in Pointers : ptr[p] = "own" <=> p \in carried
    /\ len = from.len
    /\ live = {Block(p) : p \in carried} \cup UNION {{Entry(l, n) : n \in 1 .. from.len[l]} : l \in Lists}

-----------------------------------------------------------------------------
(* The inductive invariants behind them. *)

Leaky == {"user", "uidmap", "gidmap", "pid_file_path", "alt_syscall_table", "filename",
          "suppl_gid_list"} \cup Program

\* The heap has the block of each pointer, and for the pointers that are freed when
\* they change nothing else; block numbers are bounded, so that a new one exists.
JailInv ==
  /\ from \in JailOptions /\ from.at["filter"] = from.at["filter_prog"]
  /\ heap \subseteq Pointers \X (Nat \ {0})
  /\ \E n \in Nat : \A b \in heap : b[2] <= n
  /\ Numbers("filter") = Numbers("filter_prog")
  /\ pc # "done" => HeapOf(from) \subseteq heap
  /\ \A p \in Pointers \ Leaky : Numbers(p) \subseteq IF pc = "done" THEN {} ELSE {from.at[p]}

\* The counters of the struct are right.
CountInv == from.count = Counts(from)

\* The order in which minijail_unmarshal() comes to the fields.
Rank ==
  [user |-> 1, suppl_gid_list |-> 2, chrootdir |-> 3, hostname |-> 4, alt_syscall_table |-> 5,
   filter_prog |-> 6, filter |-> 7, mounts |-> 8, cgroups |-> 9, fs_rules |-> 10,
   fs_rules_fd |-> 11, seccomp_policy_path |-> 12, sent |-> 13, returned |-> 13]

Carried(p) == p \notin Unsent /\ Has(from, p) /\ (p \in Program => from.filtering)

\* The copy when the fields before the r-th have been dealt with.
Arrived(r) ==
  /\ \A p \in Pointers :
       ptr[p] = IF ~Carried(p) THEN "null"
                ELSE IF Rank[p] < r THEN "own"
                ELSE IF p \in Program THEN "null" ELSE "from"
  /\ \A l \in Lists :
       /\ Rank[l] < r => len[l] = from.len[l]
       /\ Rank[l] = r => len[l] <= from.len[l]
       /\ Rank[l] > r => len[l] = 0
  /\ live = Releases(Pointers) \cup ReleasesLists(Lists)

\* The copy after an error: what is left can be reached, or is a cgroup path.
CgroupPaths == {Entry("cgroups", n) : n \in 1 .. from.len["cgroups"]}
CleanedUp ==
  /\ \A p \in Pointers : ptr[p] = "null" \/ (p \in Program /\ ptr[p] = "freed")
  /\ live \subseteq ReleasesLists(Lists) \cup CgroupPaths

CopyInv ==
  /\ ptr \in [Pointers -> {"null", "from", "own", "freed"}] /\ len \in [Lists -> Nat]
  /\ pc \in Fields \cup {"configure", "crashed", "marshal", "returned", "destroyed", "done"}
  /\ ret \in (IF pc \in {"returned", "destroyed", "done"} THEN {"ok", "error"} ELSE {"none"})
  /\ pc \in {"configure", "crashed", "marshal"} =>
       live = {} /\ (\A p \in Pointers : ptr[p] = "null") /\ (\A l \in Lists : len[l] = 0)
  /\ pc \in Fields => Arrived(Rank[pc]) /\ (pc \in Program => Carried(pc))
  /\ pc = "returned" => IF ret = "ok" THEN Arrived(13) ELSE CleanedUp
  /\ pc \in {"destroyed", "done"} => \A p \in Pointers : ptr[p] # "from"
  /\ pc \in {"destroyed", "done"} => live = {} \/ (ret = "error" /\ live \subseteq CgroupPaths)
  /\ misused \subseteq (IF pc \in {"destroyed", "done"} THEN {Block(p) : p \in Program} ELSE {})

\* The contents that are sent, and their order.
PartsOf(l) ==
  CASE l = "mounts"   -> {"src", "dest", "type", "has_data", "data", "flags"}
    [] l = "cgroups"  -> {"path"}
    [] l = "fs_rules" -> {"path", "flags"}
Due(c) ==
  \/ \E f \in Fields \ (Lists \cup {"filter"}) : c = Whole(f) /\ Written(f)
  \/ \E l \in Lists : \E n \in 1 .. from.len[l] : \E p \in PartsOf(l) :
       c = <<l, n, p>> /\ (p = "data" => n \in from.data)

PartRank ==
  [src |-> 1, path |-> 1, dest |-> 2, type |-> 3, has_data |-> 4, zero |-> 4, whole |-> 4,
   data |-> 5, flags |-> 6]
Earlier(c, d) ==
  \/ Rank[c[1]] < Rank[d[1]]
  \/ Rank[c[1]] = Rank[d[1]] /\ c[2] < d[2]
  \/ Rank[c[1]] = Rank[d[1]] /\ c[2] = d[2] /\ PartRank[c[3]] < PartRank[d[3]]

\* Where either function may stand: at a content, at a field without, after a list.
Place(c) ==
  \/ Due(c)
  \/ \E f \in (Fields \ Lists) \cup {"sent"} : c = Whole(f)
  \/ \E l \in Lists : c = <<l, from.len[l] + 1, First(l)>>

Contents == Fields \X Nat \X DOMAIN PartRank

\* The buffer holds what comes before `out', in order.
SenderInv ==
  /\ Place(out) /\ out # Whole("filter") /\ buf \in Seq(Contents)
  /\ \A i, j \in DOMAIN buf : i < j => Earlier(buf[i], buf[j])
  /\ \A i \in DOMAIN buf : \E c : Due(c) /\ Earlier(c, out) /\ buf[i] = Bytes(c)
  /\ \A c : Due(c) /\ Earlier(c, out) => \E i \in DOMAIN buf : buf[i] = Bytes(c)

\* What minijail_unmarshal() comes to next is where it stands in the buffer.
Cursor == IF pc \in Lists THEN <<pc, len[pc] + 1, part>> ELSE Whole(pc)
ReaderInv ==
  /\ pos \in 1 .. Len(buf) + 1
  /\ pc \in Lists => Place(Cursor)
  /\ \A i \in DOMAIN buf : i < pos <=> Earlier(buf[i], Cursor)

StreamInv ==
  /\ pc = "configure" => out = Whole("user") /\ buf = <<>>
  /\ pc = "marshal" => SenderInv
  /\ pc \in {"configure", "marshal"} => pos = 1 /\ got = {}
  /\ pc \in {"configure", "marshal"} \cup Range(Sent) \cup Program => part = "src"
  /\ pc \in Fields \cup {"returned"} => SenderInv /\ out = Whole("sent")
  /\ pc \in Fields \/ (pc = "returned" /\ ret = "ok") => ReaderInv
  /\ \A g \in got : g[2] = Bytes(g[1])
=============================================================================
