--------------------------- MODULE MCMinijail0Cli ---------------------------
(* Systems, arguments and configuration files for TLC. *)
EXTENDS Minijail0Cli

ElfFile ==
  [opens |-> TRUE, long |-> TRUE, magic |-> TRUE, data |-> "lsb", class |-> "64", entsize |-> TRUE,
   seeks |-> TRUE, headers |-> <<"load", "interp", "load">>, linked |-> "dynamic"]
Static == [ElfFile EXCEPT !.headers = <<"load">>, !.linked = "static"]

Mnt  == <<"/", "mnt">>
Bin  == <<"/", "bin">>
Jail == <<"/", "jail">>

\* The program is wherever it is looked for.
Anywhere(file) ==
  [p \in {Bin, Jail \o Bin, <<"/", "var", "/", "empty">> \o Bin} |-> file]

Filter == [opens |-> TRUE, odd |-> FALSE, instructions |-> 2]
Entry  == [sysconf |-> 1, size |-> 2, exists |-> TRUE, error |-> FALSE, uid |-> 1, gid |-> 2]

Good ==
  [kernel |-> {"filters", "tsync", "spec"}, actions |-> {"log", "kill_process"}, android |-> FALSE,
   landlock |-> 2, debug |-> TRUE, policy |-> FALSE, policy_compiles |-> TRUE, default |-> Filter,
   binary |-> Filter, setgid |-> TRUE, tty |-> TRUE, programs |-> Anywhere(ElfFile), library |-> TRUE,
   user |-> Entry, group |-> Entry, blocks_links |-> FALSE, links |-> {}, errno |-> FALSE,
   cap_file |-> TRUE, cap_last |-> 2, libcap_last |-> 3, softfail |-> FALSE]

Machines ==
  {Good,
   [Good EXCEPT !.kernel = {}, !.setgid = FALSE, !.policy = TRUE, !.landlock = -1, !.softfail = TRUE],
   [Good EXCEPT !.kernel = {"filters", "tsync"}, !.actions = {}, !.policy = TRUE,
                !.programs = Anywhere(Static), !.tty = FALSE, !.landlock = 1],
   [Good EXCEPT !.kernel = {"filters"}, !.android = TRUE, !.debug = FALSE, !.library = FALSE]}

Bind  == [src |-> <<"/", "src">>, dest |-> Mnt, flags |-> "", more |-> FALSE]
Mount == [src |-> <<"none">>, dest |-> <<"/", "tmp">>, type |-> "tmpfs", flags |-> "", data |-> <<>>]
Limit == [type |-> "NOFILE", cur |-> "1024", max |-> "unlimited", more |-> FALSE]
Size  == [minus |-> FALSE, digits |-> TRUE, n |-> 5, suffix |-> 1, rest |-> FALSE]
Mask  == [rest |-> FALSE, text |-> FALSE, bits |-> {0, 3}]

AllFiles ==
  {<<>>, <<"-v", "--env-reset">>, <<"-p", "--config">>, <<"-g name", "-v", "-b src", "-B">>,
   <<"-u uid", "-P dir", "-t", "-m map", "-M map", "-T static", "-e", "--uts", "-z", "-i", "-n">>,
   <<"-l", "-B", "-r", "-d", "-I", "-U", "-e ns", "--uts name", "--uts name", "-T dynamic", "--profile nodev",
     "--allow-speculative-execution", "--logging stderr", "--logging syslog">>,
   <<"--fs-path-advanced-rw", "--fs-path-ro", "--fs-path-rw", "--fs-default-paths">>}

\* The options that interact; the files have the others.
SomeOptions ==
  {"-u uid", "-u name", "-g gid", "-n", "-p", "-P dir", "-R limit", "-R CPU", "-t", "-T static", "-s", "-S policy",
   "--seccomp-bpf-binary", "-L", "-Y", "-b src", "-k mount", "-c caps", "--ambient", "-C dir", "-K", "-K mode",
   "-t size", "-v", "-V ns", "-m", "-M", "-G", "-y", "--add-suppl-group", "--profile", "--fs-path-rx",
   "--no-fs-restrictions", "--no-default-runtime-environment", "--env-add", "--env-reset", "--config", "--gen-config"}
Plain ==
  [bind |-> Bind, mount |-> Mount, limit |-> Limit, size |-> Size, bytes |-> 10, mask |-> Mask,
   caps |-> Mask, mode |-> "shared", program |-> Bin, malformed |-> {},
   uid |-> [minus |-> FALSE, n |-> 3], gid |-> [minus |-> FALSE, n |-> 1], env |-> [name |-> TRUE, delim |-> TRUE],
   options |-> SomeOptions, files |-> AllFiles]

Usual == [sys : Machines, arg : {Plain}, most : {3}]

\* Calls of few options, for what their arguments can be.
Among(opts_, calls) ==
  {[c EXCEPT !.arg.options = opts_ \cup {"--gen-config", "-v"}, !.arg.files = {<<>>}] : c \in calls}
Odd(s, args) == [sys |-> s, arg |-> args, most |-> 3]
With1(args) == Odd(Good, args)
Bad(args, o) == With1([args EXCEPT !.malformed = {o}])

BindCalls ==
  {With1([Plain EXCEPT !.bind = b]) : b \in
     {[Bind EXCEPT !.dest = <<>>, !.flags = "1"], [Bind EXCEPT !.flags = "0"],
      [Bind EXCEPT !.dest = <<"/", "dev", "/", "x">>]}}
  \cup {Bad([Plain EXCEPT !.bind = b], "-b src") : b \in
     {[Bind EXCEPT !.src = <<>>], [Bind EXCEPT !.more = TRUE], [Bind EXCEPT !.flags = "2"],
      [Bind EXCEPT !.dest = <<"mnt">>]}}
  \cup {Odd([Good EXCEPT !.blocks_links = TRUE, !.links = {<<"/", "src">>, <<"/", "dev", "/", "s">>}],
            [Plain EXCEPT !.bind.src = s, !.malformed = IF s = <<"/", "src">> THEN {"-b src"} ELSE {}]) :
          s \in {<<"/", "src">>, <<"/", "s">>, <<"/", "s", "/">>, <<"/", "dev", "/", "s">>}}

MountCalls ==
  {With1([Plain EXCEPT !.mount = m]) : m \in
     {[Mount EXCEPT !.flags = "ro", !.data = <<"mode=0755", "uid=10">>], [Mount EXCEPT !.flags = "slave"],
      [Mount EXCEPT !.type = "proc", !.flags = "0"]}}
  \cup {Bad([Plain EXCEPT !.mount = m], "-k mount") : m \in
     {[Mount EXCEPT !.src = <<>>], [Mount EXCEPT !.dest = <<>>], [Mount EXCEPT !.type = ""],
      [Mount EXCEPT !.flags = "nonsense"], [Mount EXCEPT !.dest = <<"mnt">>]}}

LimitCalls ==
  {With1([Plain EXCEPT !.limit.type = "CPU"]), With1(Plain)}
  \cup {Bad([Plain EXCEPT !.limit = l], "-R limit") : l \in
     {[Limit EXCEPT !.type = ""], [Limit EXCEPT !.cur = ""], [Limit EXCEPT !.max = "12x"],
      [Limit EXCEPT !.type = "nonsense"], [Limit EXCEPT !.more = TRUE]}}

\* A size is right if what it stands for can be said in a size_t.  (The largest number
\* of all is refused, or not seen if errno is 0.)
Sizes ==
  [minus : BOOLEAN, digits : {TRUE}, n : {0, 1, 3, 4, 127, 128, 254, 255, 256}, suffix : {0, 1, 2, 6}, rest : BOOLEAN]
  \cup [minus : {FALSE}, digits : {FALSE}, n : {0}, suffix : {0, 1}, rest : BOOLEAN]
Fits(s) == s.n < SizeMax /\ s.n * Unit ^ s.suffix <= SizeMax
Sized(s) ==
  [Plain EXCEPT !.size = s,
                !.bytes = IF s.n = SizeMax THEN DefaultSize ELSE s.n * Unit ^ s.suffix,
                !.malformed = IF s.minus \/ (~s.digits /\ s.suffix = 0)
                                \/ (s.n # SizeMax /\ (s.rest \/ ~Fits(s)))
                              THEN {"-t size"} ELSE {}]
SizeCalls ==
  {With1(Sized(s)) : s \in Sizes}
  \cup {Odd([Good EXCEPT !.errno = TRUE], [Plain EXCEPT !.size.n = n, !.malformed = IF n = 5 THEN {} ELSE {"-t size"}]) :
          n \in {5, SizeMax}}

NumberCalls ==
  {Bad([Plain EXCEPT !.mask.rest = TRUE], "-B"), Bad([Plain EXCEPT !.caps.rest = TRUE], "-c caps"),
   With1([Plain EXCEPT !.caps.text = TRUE]), With1([Plain EXCEPT !.mode = "nonsense"]),
   Odd([Good EXCEPT !.cap_file = FALSE], [Plain EXCEPT !.caps.text = TRUE, !.malformed = {"-c caps"}]),
   Odd([Good EXCEPT !.cap_file = FALSE, !.android = TRUE], [Plain EXCEPT !.caps.text = TRUE])}

\* Entries of every size, up to the limit and past it.
Names == {"-u name", "-g name", "--add-suppl-group"}
NameCalls ==
  {Odd([Good EXCEPT !.user = e, !.group = e], [Plain EXCEPT !.malformed = IF e.size > MaxEntry THEN Names ELSE {}]) :
     e \in {[Entry EXCEPT !.sysconf = f, !.size = n] : f \in {-1, 1, 64}, n \in {1, 4, 63, 64, 65}}}
  \cup {Odd([Good EXCEPT !.user = e, !.group = e], [Plain EXCEPT !.malformed = Names]) :
     e \in {[Entry EXCEPT !.exists = FALSE], [Entry EXCEPT !.error = TRUE]}}

\* Numbers of every kind: ids, root's, too large for an id or even for strtoul(3).
Numbers == [minus : BOOLEAN, n : {0, 1, 3, 4, 7, 8, 9, 12, 31, 32}]
IdCalls ==
  {With1([Plain EXCEPT !.uid = n, !.gid = n]) : n \in Numbers}
  \cup {Odd([Good EXCEPT !.user = e, !.group = e], Plain) : e \in {[Entry EXCEPT !.uid = 0], [Entry EXCEPT !.gid = 0]}}

EnvCalls ==
  {Odd(Good, [Plain EXCEPT !.env = e, !.malformed = IF e.name /\ e.delim THEN {} ELSE {"--env-add"}]) :
     e \in [name : BOOLEAN, delim : BOOLEAN]}

\* Kernels that cannot do all that a filter needs, with both builds.
KernelCalls ==
  {Odd([Good EXCEPT !.kernel = k, !.softfail = soft, !.policy = p, !.debug = FALSE], Plain) :
     k \in {{}, {"filters"}, {"filters", "tsync"}}, soft \in BOOLEAN, p \in BOOLEAN}

FilterCalls ==
  {Odd([Good EXCEPT !.binary = f, !.default = f, !.policy = TRUE], Plain) :
     f \in [opens : {TRUE}, odd : {FALSE}, instructions : 0..5]
           \cup {[Filter EXCEPT !.opens = FALSE], [Filter EXCEPT !.odd = TRUE]}}
  \cup {Odd([Good EXCEPT !.policy_compiles = FALSE], Plain)}

\* Programs, and where they are.
Programs ==
  {[ElfFile EXCEPT !.opens = FALSE, !.linked = "error"], [ElfFile EXCEPT !.long = FALSE],
   [ElfFile EXCEPT !.magic = FALSE], [ElfFile EXCEPT !.entsize = FALSE, !.linked = "error"],
   [ElfFile EXCEPT !.seeks = FALSE, !.linked = "error"], [ElfFile EXCEPT !.class = "32"],
   [ElfFile EXCEPT !.class = "?", !.linked = "error"], [ElfFile EXCEPT !.data = "msb", !.linked = "static"],
   [ElfFile EXCEPT !.headers = <<"load", "short">>, !.linked = "error"],
   [ElfFile EXCEPT !.headers = <<"interp", "short">>], [Static EXCEPT !.headers = <<>>]}

ProgramCalls ==
  {Odd([Good EXCEPT !.programs = Anywhere(f)], Plain) : f \in Programs}
  \cup {Odd([Good EXCEPT !.programs = [p \in {at} |-> Static] @@ [p \in {<<"/", "mnt", "/", "bin">>} |-> ElfFile]],
            [Plain EXCEPT !.program = <<"/", "mnt", "/", "bin">>, !.bind.dest = d]) :
          at \in {<<"/", "src", "/", "bin">>, <<"/", "src">>, <<"/", "jail", "/", "mnt", "/", "bin">>},
          d \in {Mnt, <<"/", "m">>, <<"/", "mnt", "/", "bin">>, <<"/", "x">>}}

AllCalls ==
  Usual
  \cup Among({"-b src", "--profile", "-k mount"}, BindCalls)
  \cup Among({"-b src", "--profile", "-k mount"}, MountCalls)
  \cup Among(RlimitOptions, LimitCalls)
  \cup Among({"-t", "-t size", "--profile nodev"}, SizeCalls)
  \cup Among({"-B", "-c caps", "--ambient", "-K mode"}, NumberCalls)
  \cup Among({"-u name", "-g name", "--add-suppl-group", "-M"}, NameCalls)
  \cup Among({"-u uid", "-g gid", "-u name", "-g name", "-m", "-M"}, IdCalls)
  \cup Among({"--env-add", "--env-reset", "-T static"}, EnvCalls)
  \cup Among({"-S policy", "--seccomp-bpf-binary", "-s", "-n", "-Y", "--allow-speculative-execution"}, KernelCalls)
  \cup Among({"-S policy", "--seccomp-bpf-binary", "--no-default-runtime-environment", "-Y"}, FilterCalls)
  \cup Among({"-b src", "-P dir", "-C dir", "-c caps", "-T dynamic"} \cup BadOptions, ProgramCalls)
=============================================================================
