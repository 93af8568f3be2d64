-------------------------- MODULE OptionArguments --------------------------
(* How minijail0 reads the arguments of its options, and finds out about the   *)
(* users and the program they name.  An argument that tokenize() splits at     *)
(* commas is a record of its fields, with "" or <<>> for a field that is empty *)
(* or missing and `more' when there are too many.  A result is a set: {} is an *)
(* error, that ends minijail0, and {x} the value x.                            *)
EXTENDS Integers, SequencesExt

\* A path is the sequence of its slashes and names, or pieces of names: "/usr/lib64"
\* is <<"/", "usr", "/", "lib", "64">>, of which "/usr/lib" is a prefix.
IsAbsolute(path) == path # <<>> /\ Head(path) = "/"
path_join(external, internal) == external \o <<"/">> \o internal

path_is_parent(parent, child) ==
  /\ IsStrictPrefix(parent, child)
  /\ Last(parent) = "/" \/ child[Len(parent) + 1] = "/"

-----------------------------------------------------------------------------
(* Mounts and limits. *)

add_binding(b) ==
  IF b.src = <<>> \/ b.more \/ b.flags \notin {"", "0", "1"} THEN {}
  ELSE {[src |-> b.src, dest |-> IF b.dest = <<>> THEN b.src ELSE b.dest, writeable |-> b.flags = "1"]}

\* What parse_constant() makes of the flags that occur, by their names.
MountFlags == [f \in {"", "0", "ro", "bind", "slave"} |-> IF f \in {"", "0"} THEN {} ELSE {f}]

\* Everything after the flags is data, commas included.
add_mount(m) ==
  IF m.src = <<>> \/ m.dest = <<>> \/ m.type = "" \/ m.flags \notin DOMAIN MountFlags THEN {}
  ELSE {[src |-> m.src, dest |-> m.dest, type |-> m.type, flags |-> MountFlags[m.flags], data |-> m.data]}

\* parse_single_constant() and strtoul() on the words that occur.
Resources == {"NOFILE", "CORE", "CPU"}
Amounts   == {"0", "1024", "unlimited"}
add_rlimit(l) ==
  IF l.type \notin Resources \/ {l.cur, l.max} \ Amounts # {} \/ l.more THEN {}
  ELSE {[type |-> l.type, cur |-> l.cur, max |-> l.max]}

-----------------------------------------------------------------------------
(* Numbers. *)

\* A mask in base 16 with nothing after it; the empty mask is 0.
skip_securebits(mask) == IF mask.rest THEN {} ELSE {mask.bits}

\* The capabilities the kernel knows, which is not a matter of how we were compiled.
\* Without the file in /proc minijail0 dies; on Android the kernel is asked.
get_last_valid_cap(sys) == IF sys.android \/ sys.cap_file THEN {sys.cap_last} ELSE {}

\* A text that libcap understands, of which the capabilities that libcap and the
\* kernel know count, or else a mask in base 16.
use_caps(c, sys) ==
  IF c.text THEN {{i \in c.bits : i <= last /\ i <= sys.libcap_last} : last \in get_last_valid_cap(sys)}
  ELSE skip_securebits(c)

\* size_t in 8 bits, with a unit of 2^1 where the code has 64 and 2^10.  The last
\* of the six units is 2^6 of 8, in the code 2^60 of 64.
Unit    == 2
SizeMax == 255

\* A sign, digits, one of the suffixes "KMGTPE" and whatever else there is.  The
\* digits may be missing before a suffix.  A number that does not fit is ULLONG_MAX,
\* which is an error if errno is set: by strtoull(3), or, for ULLONG_MAX itself, by
\* anything before.  Otherwise parse_size() returns 0 and leaves the result alone.
parse_size(result, s, errno) ==
  LET multiplier == Unit ^ s.suffix
      size  == IF s.n > SizeMax THEN SizeMax ELSE s.n
      nsize == (size * multiplier) % (SizeMax + 1)
  IN CASE s.minus \/ ~(s.digits \/ s.suffix > 0 \/ s.rest) -> {}
       [] size = SizeMax /\ (s.n > SizeMax \/ errno) -> {}
       [] size = SizeMax /\ ~(s.n > SizeMax \/ errno) -> {result}
       [] OTHER -> IF s.rest \/ nsize \div multiplier # size THEN {} ELSE {nsize}

-----------------------------------------------------------------------------
(* Users and groups. *)

\* unsigned long in 5 bits and uid_t and gid_t in 3, where the code has 64 and 32.
LongWidth == 5
IdWidth   == 3

\* A number past the largest is the largest, and a minus sign counts from the other end.
strtoul(t) ==
  LET top == 2 ^ LongWidth
  IN IF t.n >= top THEN top - 1 ELSE (IF t.minus THEN top - t.n ELSE t.n) % top

\* The result is assigned to a uid_t or a gid_t.
ToId(t) == strtoul(t) % 2 ^ IdWidth

\* The map of one id to that of minijail0, where "%d" prints a large id as negative.
build_idmap(id, lowerid) == <<IF id < 2 ^ (IdWidth - 1) THEN id ELSE id - 2 ^ IdWidth, lowerid>>

\* 65536 and MAX_PWENT_SZ, in units of 2^14.
DefaultEntry == 4
MaxEntry     == 64

\* getpwnam_r(3) and getgrnam_r(3) are called with twice the space until the entry
\* fits, and the space is past the limit.
Tries(db) ==
  LET first == IF db.sysconf = -1 THEN DefaultEntry ELSE db.sysconf
  IN {first * 2 ^ k : k \in {n \in 0..6 : n = 0 \/ first * 2 ^ n <= MaxEntry}}

lookup_user(db)  == IF db.error \/ ~db.exists \/ \A sz \in Tries(db) : sz < db.size THEN {}
                    ELSE {[uid |-> db.uid, gid |-> db.gid]}
lookup_group(db) == IF db.error \/ ~db.exists \/ \A sz \in Tries(db) : sz < db.size THEN {}
                    ELSE {db.gid}

-----------------------------------------------------------------------------
(* Files. *)

\* unsigned short, the type of the length of a filter, in 2 bits.
LenWidth == 2

\* The instructions of a filter, as the number that is read of those in the file.
read_seccomp_filter(f) ==
  IF ~f.opens \/ f.odd THEN {} ELSE {f.instructions % 2 ^ LenWidth}

\* The machine minijail0 runs on has the least significant byte first.
HostData == "lsb"

is_elf_magic(f) == f.magic

\* The program headers are read up to PT_INTERP, which is looked for in the byte
\* order of the host, or to the end of the file, where the read is "short".
parseElf(f) ==
  CASE ~f.entsize \/ ~f.seeks -> "error"
    [] f.entsize /\ f.seeks /\ f.data = HostData /\ "interp" \in ToSet(f.headers) -> "dynamic"
    [] OTHER -> IF "short" \in ToSet(f.headers) THEN "error" ELSE "static"

\* What is not an ELF file is taken for a script.
get_elf_linkage(f) ==
  CASE ~f.opens -> "error"
    [] f.opens /\ ~(f.long /\ is_elf_magic(f)) -> "dynamic"
    [] OTHER -> IF f.data \in {"lsb", "msb"} /\ f.class \in {"32", "64"} THEN parseElf(f) ELSE "error"
=============================================================================
