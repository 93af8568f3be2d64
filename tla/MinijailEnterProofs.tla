------------------------- MODULE MinijailEnterProofs -------------------------
(* Proofs about MinijailEnter: a jail with minijail_use_caps() is a           *)
(* capabilities-only environment for ever, and an unprivileged jail with       *)
(* no_new_privs never becomes root again, for all jails, callers, programs and *)
(* kernels.                                                                    *)
EXTENDS MinijailEnter, FiniteSetTheorems, TLAPS

-----------------------------------------------------------------------------
(* The kernel's rules.                                                         *)

\* setresuid(2) maps credentials to credentials, adds no permitted capability
\* and keeps the ambient set within the permitted and inheritable ones.
LEMMA SetUidRules ==
  ASSUME NEW c \in Credentials, NEW to \in {"root", "user"}
  PROVE  LET n == AfterSetUid(c, to) IN
         /\ n \in Credentials
         /\ n.uid = to
         /\ n.perm \subseteq c.perm /\ n.eff \subseteq c.perm \cup c.eff
         /\ n.inh = c.inh /\ n.bnd = c.bnd /\ n.bits = c.bits /\ n.nnp = c.nnp
         /\ c.amb \subseteq c.perm \cap c.inh => n.amb \subseteq n.perm \cap n.inh
BY ZenonT(60) DEF AfterSetUid, Credentials

\* capset(2) to permitted, effective and inheritable sets of the kernel's
\* capabilities.
LEMMA CapsetRules ==
  ASSUME NEW c \in Credentials, NEW perm \in SUBSET Cap, NEW inh \in SUBSET Cap
  PROVE  LET n == Capset(c, perm, inh) IN
         /\ n \in Credentials
         /\ n.perm = perm /\ n.eff = perm /\ n.inh = inh
         /\ n.amb \subseteq perm \cap inh
         /\ n.bnd = c.bnd /\ n.bits = c.bits /\ n.nnp = c.nnp /\ n.uid = c.uid
BY ZenonT(60) DEF Capset, Credentials

\* execve(2): with SECURE_NOROOT on, the new sets come from the bounding, the
\* inheritable and the ambient set; with no_new_privs nothing is gained.
LEMMA ExecRules ==
  ASSUME NEW c \in Credentials, NEW f \in Files, c.amb \subseteq c.perm \cap c.inh
  PROVE  LET n == AfterExec(c, f) IN
         /\ n \in Credentials
         /\ n.amb \subseteq n.perm \cap n.inh
         /\ n.eff \subseteq n.perm
         /\ n.perm \subseteq c.bnd \cup c.inh
         /\ n.inh = c.inh /\ n.bnd = c.bnd /\ n.nnp = c.nnp
         /\ n.bits = c.bits \ {"KEEP_CAPS"}
         /\ c.nnp => n.uid = c.uid /\ n.perm \subseteq c.perm
<1> DEFINE n      == AfterExec(c, f)
           setid  == f.setuid /\ ~c.nnp /\ c.uid # "root"
           uid    == IF setid THEN "root" ELSE c.uid
           asroot == uid = "root" /\ "NOROOT" \notin c.bits
           fcaps  == f.perm \cup f.inh # {}
           gained == IF asroot THEN c.bnd \cup c.inh
                     ELSE (c.bnd \cap f.perm) \cup (c.inh \cap f.inh)
           amb    == IF setid \/ fcaps THEN {} ELSE c.amb
           perm   == (IF c.nnp THEN gained \cap c.perm ELSE gained) \cup amb
           eff    == IF asroot \/ (fcaps /\ f.eff) THEN perm ELSE amb
<1>1. n = [c EXCEPT !.uid = uid, !.perm = perm, !.amb = amb, !.eff = eff,
                    !.bits = @ \ {"KEEP_CAPS"}]
  BY DEF AfterExec
<1>2. uid \in {"root", "user"} /\ (c.nnp => uid = c.uid)
  BY DEF Credentials
<1>3. gained \subseteq c.bnd \cup c.inh /\ gained \subseteq Cap
  BY DEF Credentials
<1>4. amb \subseteq c.perm \cap c.inh /\ amb \subseteq Cap
  BY DEF Credentials
<1> HIDE DEF uid, gained, amb
<1>5. /\ perm \subseteq Cap /\ amb \subseteq perm
      /\ perm \subseteq c.bnd \cup c.inh
      /\ c.nnp => perm \subseteq c.perm
  BY <1>3, <1>4
<1> HIDE DEF perm
<1>6. eff \subseteq perm
  BY <1>5
<1> HIDE DEF eff
<1>a. /\ perm \in SUBSET Cap /\ amb \in SUBSET Cap /\ eff \in SUBSET Cap
      /\ c.bits \ {"KEEP_CAPS"} \in SUBSET SecureBits
  BY <1>4, <1>5, <1>6 DEF Credentials
<1>7. n \in Credentials
  BY <1>1, <1>2, <1>a, ZenonT(60) DEF Credentials
<1>8. /\ n.uid = uid /\ n.perm = perm /\ n.amb = amb /\ n.eff = eff
      /\ n.bits = c.bits \ {"KEEP_CAPS"}
      /\ n.inh = c.inh /\ n.bnd = c.bnd /\ n.nnp = c.nnp
  BY <1>1 DEF Credentials
<1> HIDE DEF n
<1>9. n.amb \subseteq n.perm \cap n.inh
  BY <1>4, <1>5, <1>8
<1> QED
  BY <1>2, <1>5, <1>6, <1>7, <1>8, <1>9 DEF n

\* A locked SECURE_NOROOT stays on.
LEMMA LockedNoRoot ==
  ASSUME NEW c \in Credentials, NEW bits \in SUBSET SecureBits, MaySetBits(c, bits),
         {"NOROOT", "NOROOT_LOCKED"} \subseteq c.bits
  PROVE  {"NOROOT", "NOROOT_LOCKED"} \subseteq bits
BY DEF MaySetBits, LockPairs, Locks

-----------------------------------------------------------------------------
(* The steps of minijail_enter().                                              *)

Inv == TypeOK /\ CapsInv /\ UidInv

\* A step that dies, or that is killed by the filter, leaves nothing to show.
LEMMA OverInv ==
  ASSUME Inv, pc' \in Over, UNCHANGED <<jail, caller, cred>>
  PROVE  Inv'
<1>1. TypeOK'
  BY DEF Inv, TypeOK
<1>2. CapsInv' /\ UidInv'
  BY DEF Inv, CapsInv, UidInv, AfterFinal, AfterBits, Over, Running, Steps, Restricted,
         SkipsNoRoot, Unprivileged
<1> QED
  BY <1>1, <1>2 DEF Inv

\* The steps before any capability changes.
LEMMA FirstSteps ==
  ASSUME Inv, Run \/ Checks \/ DropBoundingOnly
  PROVE  Inv'
<1> USE EnterAssumption
<1>0. SUFFICES ASSUME pc' \notin Over PROVE Inv'
  <2>1. ASSUME pc' \in Over PROVE UNCHANGED <<jail, caller, cred>>
    BY <2>1 DEF Run, Checks, DropBoundingOnly, DropCapbset, Call, Goto, Over
  <2> QED
    BY <2>1, OverInv
<1>1. CASE Run
  <2>1. /\ UNCHANGED <<jail, caller>> /\ pc' = "checks"
        /\ cred' = cred \/ cred' = AfterExec(cred, Plain)
    BY <1>0, <1>1 DEF Run, Call, Goto, Over
  <2>2. Plain \in Files /\ cred \in Credentials /\ cred.amb \subseteq cred.perm \cap cred.inh
    BY DEF Plain, Files, Inv, TypeOK, CapsInv
  <2>3. cred' \in Credentials /\ cred'.amb \subseteq cred'.perm \cap cred'.inh
    BY <2>1, <2>2, ExecRules
  <2> QED
    BY <2>1, <2>3 DEF Inv, TypeOK, CapsInv, UidInv, AfterFinal, AfterBits, Running, Steps
<1>2. CASE Checks
  <2>1. UNCHANGED <<jail, caller, cred>> /\ pc' = "bset"
    BY <1>0, <1>2 DEF Checks, Goto, Over
  <2> QED
    BY <2>1 DEF Inv, TypeOK, CapsInv, UidInv, AfterFinal, AfterBits, Running, Steps
<1>3. CASE DropBoundingOnly
  <2>1. /\ UNCHANGED <<jail, caller>> /\ pc' = "bits"
        /\ cred' = cred \/ cred' = [cred EXCEPT !.bnd = @ \cap jail.cap_bset]
    BY <1>0, <1>3 DEF DropBoundingOnly, DropCapbset, Call, Goto, Over
  <2>2. cred' \in Credentials /\ cred'.amb \subseteq cred'.perm \cap cred'.inh
    BY <2>1 DEF Inv, TypeOK, CapsInv, Credentials
  <2> QED
    BY <2>1, <2>2 DEF Inv, TypeOK, CapsInv, UidInv, AfterFinal, AfterBits, Running, Steps
<1> QED
  BY <1>1, <1>2, <1>3

\* lock_securebits() leaves SECURE_NOROOT on and locked unless it is skipped.
LEMMA LockStep ==
  ASSUME Inv, LockSecurebits
  PROVE  Inv'
<1>0. SUFFICES ASSUME pc' \notin Over PROVE Inv'
  <2>1. ASSUME pc' \in Over PROVE UNCHANGED <<jail, caller, cred>>
    BY <2>1 DEF LockSecurebits, Call, Goto, Over, FirstDrop, FilterFirst
  <2> QED
    BY <2>1, OverInv
<1>1. /\ UNCHANGED <<jail, caller>>
      /\ pc' = IF jail.no_new_privs THEN "groups" ELSE "landlock"
      /\ IF jail.use_caps /\ BitsToSet # {} THEN cred' = [cred EXCEPT !.bits = BitsToSet]
         ELSE cred' = cred
  BY <1>0 DEF LockSecurebits, Call, Goto, Over, FirstDrop, FilterFirst
<1>2. BitsToSet \in SUBSET SecureBits
  BY DEF BitsToSet
<1>3. Restricted => {"NOROOT", "NOROOT_LOCKED"} \subseteq BitsToSet
  BY DEF Restricted, SkipsNoRoot, BitsToSet, SecureBits, Flags, Locks
<1>4. TypeOK'
  BY <1>1, <1>2 DEF Inv, TypeOK, Credentials, Steps
<1>5. cred'.amb = cred.amb /\ cred'.perm = cred.perm /\ cred'.inh = cred.inh
  BY <1>1 DEF Inv, TypeOK, Credentials
<1>6. Restricted => {"NOROOT", "NOROOT_LOCKED"} \subseteq cred'.bits
  BY <1>1, <1>3 DEF Inv, TypeOK, Credentials, Restricted
<1>7. pc' \notin AfterFinal' \cup {"clean", "bound", "final"}
  BY <1>1 DEF AfterFinal, Running
<1> QED
  BY <1>1, <1>4, <1>5, <1>6, <1>7
     DEF Inv, CapsInv, UidInv, Restricted, SkipsNoRoot

\* drop_ugid() changes ids, and with setresuid(2) loses capabilities.
LEMMA IdSteps ==
  ASSUME Inv, SetGroups \/ SetGid \/ SetUid
  PROVE  Inv'
<1>0. SUFFICES ASSUME pc' \notin Over PROVE Inv'
  <2>1. ASSUME pc' \in Over PROVE UNCHANGED <<jail, caller, cred>>
    BY <2>1 DEF SetGroups, SetGid, SetUid, Call, Goto, Over
  <2> QED
    BY <2>1, OverInv
<1>t. cred \in Credentials
  BY DEF Inv, TypeOK
<1>1. /\ UNCHANGED <<jail, caller>> /\ cred' \in Credentials
      /\ cred'.amb \subseteq cred'.perm \cap cred'.inh
      /\ cred'.bits = cred.bits
      /\ pc \in {"groups", "gid", "uid"} /\ pc' \in {"gid", "uid", "clean"}
      /\ pc' = "clean" /\ jail.uid => cred'.uid = "user"
  <2>1. CASE SetGroups
    <3>1. /\ UNCHANGED <<jail, caller>> /\ pc = "groups" /\ pc' = "gid"
          /\ \/ cred' = cred
             \/ \E g \in {"user", "list", "none"} : cred' = [cred EXCEPT !.groups = g]
      BY <1>0, <2>1 DEF SetGroups, Call, Goto, Over
    <3> QED
      BY <1>t, <3>1 DEF Inv, CapsInv, Credentials
  <2>2. CASE SetGid
    <3>1. /\ UNCHANGED <<jail, caller>> /\ pc = "gid" /\ pc' = "uid"
          /\ cred' = cred \/ cred' = [cred EXCEPT !.gid = "jail"]
      BY <1>0, <2>2 DEF SetGid, Call, Goto, Over
    <3> QED
      BY <1>t, <3>1 DEF Inv, CapsInv, Credentials
  <2>3. CASE SetUid
    <3>1. /\ UNCHANGED <<jail, caller>> /\ pc = "uid" /\ pc' = "clean"
          /\ IF jail.uid THEN cred' = AfterSetUid(cred, "user") ELSE cred' = cred
      BY <1>0, <2>3 DEF SetUid, Call, Goto, Over
    <3> QED
      BY <1>t, <3>1, SetUidRules DEF Inv, CapsInv
  <2> QED
    BY <2>1, <2>2, <2>3
<1>2. TypeOK'
  BY <1>1 DEF Inv, TypeOK, Steps
<1>3. pc' \notin AfterFinal' \cup {"bound", "final"}
  BY <1>1 DEF AfterFinal, Running
<1>4. pc \in AfterBits
  BY <1>1 DEF AfterBits, Steps
<1> QED
  BY <1>1, <1>2, <1>3, <1>4
     DEF Inv, CapsInv, UidInv, Restricted, SkipsNoRoot, Unprivileged

\* drop_caps().
LEMMA CapSteps ==
  ASSUME Inv, CleanCaps \/ DropBounding \/ FinalCaps \/ RaiseAmbient
  PROVE  Inv'
<1>0. SUFFICES ASSUME pc' \notin Over PROVE Inv'
  <2>1. ASSUME pc' \in Over PROVE UNCHANGED <<jail, caller, cred>>
    BY <2>1 DEF CleanCaps, DropBounding, FinalCaps, RaiseAmbient, DropCapbset, Call, Goto,
                Over, AfterCaps, FilterFirst
  <2> QED
    BY <2>1, OverInv
<1>t. /\ cred \in Credentials /\ cred.amb \subseteq cred.perm \cap cred.inh
      /\ Requested \in SUBSET Cap /\ Requested \subseteq jail.caps
      /\ Requested \cup {"SETPCAP"} \in SUBSET Cap
  BY EnterAssumption DEF Inv, TypeOK, CapsInv, Requested, AdminCaps
<1>c. AfterCaps \in {"nnp", "alt"}
  BY DEF AfterCaps
<1>b. pc \in AfterBits /\ pc' \in AfterBits'
  BY <1>0, <1>c DEF CleanCaps, DropBounding, FinalCaps, RaiseAmbient, DropCapbset, Call, Goto,
     AfterBits, Steps, Over
<1>1. CASE CleanCaps
  <2>1. /\ UNCHANGED <<jail, caller>> /\ pc = "clean"
        /\ IF jail.use_caps
           THEN /\ pc' = "bound"
                /\ cred' = Capset(cred, Requested \cup {"SETPCAP"}, Requested \cup {"SETPCAP"})
           ELSE pc' = AfterCaps /\ cred' = cred
    BY <1>0, <1>1 DEF CleanCaps, Call, Goto, Over
  <2>2. /\ cred' \in Credentials /\ cred'.amb \subseteq cred'.perm \cap cred'.inh
        /\ cred'.bits = cred.bits /\ cred'.uid = cred.uid
    BY <1>t, <2>1, CapsetRules
  <2>3. TypeOK'
    BY <2>1, <2>2, <1>c DEF Inv, TypeOK, Steps
  <2>4. CapsInv'
    BY <2>1, <2>2, <1>b DEF Inv, CapsInv, Restricted, SkipsNoRoot, AfterFinal, Running
  <2>5. UidInv'
    BY <2>1, <2>2 DEF Inv, UidInv, Unprivileged, AfterFinal, Running
  <2> QED
    BY <2>3, <2>4, <2>5 DEF Inv
<1>2. CASE DropBounding
  <2>1. /\ UNCHANGED <<jail, caller>> /\ pc = "bound" /\ pc' = "final"
        /\ \/ cred' = cred /\ (SkipsNoRoot \/ Cap \subseteq Requested)
           \/ cred' = [cred EXCEPT !.bnd = @ \cap Requested]
    BY <1>0, <1>2 DEF DropBounding, DropCapbset, Call, Goto, Over
  <2>2. /\ cred' \in Credentials /\ cred'.amb \subseteq cred'.perm \cap cred'.inh
        /\ cred'.bits = cred.bits /\ cred'.uid = cred.uid
        /\ Restricted => cred'.bnd \subseteq jail.caps
    BY <1>t, <2>1 DEF Credentials, Restricted
  <2>3. TypeOK'
    BY <2>1, <2>2 DEF Inv, TypeOK, Steps
  <2>4. CapsInv'
    BY <2>1, <2>2, <1>b DEF Inv, CapsInv, Restricted, SkipsNoRoot, AfterFinal, Running
  <2>5. UidInv'
    BY <2>1, <2>2 DEF Inv, UidInv, Unprivileged, AfterFinal, Running
  <2> QED
    BY <2>3, <2>4, <2>5 DEF Inv
<1>3. CASE FinalCaps
  <2>1. /\ UNCHANGED <<jail, caller>> /\ pc = "final" /\ pc' = "ambient"
        /\ cred' = Capset(cred, Requested, Requested)
    BY <1>0, <1>3 DEF FinalCaps, Call, Goto, Over
  <2>2. /\ cred' \in Credentials /\ cred'.amb \subseteq cred'.perm \cap cred'.inh
        /\ cred'.bits = cred.bits /\ cred'.uid = cred.uid /\ cred'.bnd = cred.bnd
        /\ cred'.perm = Requested /\ cred'.eff = Requested /\ cred'.inh = Requested
    <3> DEFINE n == Capset(cred, Requested, Requested)
    <3>1. /\ n \in Credentials /\ n.amb \subseteq Requested \cap Requested
          /\ n.bits = cred.bits /\ n.uid = cred.uid /\ n.bnd = cred.bnd
          /\ n.perm = Requested /\ n.eff = Requested /\ n.inh = Requested
      BY <1>t, CapsetRules
    <3>2. cred' = n
      BY <2>1
    <3> HIDE DEF n
    <3> QED
      BY <3>1, <3>2
  <2>3. TypeOK'
    BY <2>1, <2>2 DEF Inv, TypeOK, Steps
  <2>4. CapsInv'
    BY <2>1, <2>2, <1>b, <1>t DEF Inv, CapsInv, Restricted, SkipsNoRoot
  <2>5. UidInv'
    BY <2>1, <2>2, <1>t DEF Inv, UidInv, Unprivileged
  <2> QED
    BY <2>3, <2>4, <2>5 DEF Inv
<1>4. CASE RaiseAmbient
  <2>1. /\ UNCHANGED <<jail, caller>> /\ pc = "ambient" /\ pc' = AfterCaps
        /\ \/ cred' = cred
           \/ /\ cred' = [cred EXCEPT !.amb = Requested]
              /\ Requested = {} \/ Requested \subseteq cred.perm \cap cred.inh
    BY <1>0, <1>4 DEF RaiseAmbient, Call, Goto, Over
  <2>2. /\ cred' \in Credentials /\ cred'.amb \subseteq cred'.perm \cap cred'.inh
        /\ cred'.bits = cred.bits /\ cred'.uid = cred.uid /\ cred'.bnd = cred.bnd
        /\ cred'.perm = cred.perm /\ cred'.eff = cred.eff /\ cred'.inh = cred.inh
    BY <1>t, <2>1 DEF Credentials
  <2>3. TypeOK'
    BY <2>1, <2>2, <1>c DEF Inv, TypeOK, Steps
  <2>4. pc \in AfterFinal
    BY <2>1 DEF AfterFinal
  <2>5. CapsInv'
    BY <2>1, <2>2, <2>4, <1>b DEF Inv, CapsInv, Restricted, SkipsNoRoot
  <2>6. Unprivileged => pc' = "nnp"
    BY <2>1 DEF AfterCaps, FilterFirst, Unprivileged
  <2>7. UidInv'
    BY <2>1, <2>2, <2>4, <2>6 DEF Inv, UidInv, Unprivileged
  <2> QED
    BY <2>3, <2>5, <2>7 DEF Inv
<1> QED
  BY <1>1, <1>2, <1>3, <1>4

\* no_new_privs, Landlock, seccomp and the alternate system calls leave the
\* capabilities and the ids alone.
LEMMA RestrictSteps ==
  ASSUME Inv, SetNoNewPrivs \/ ApplyLandlock \/ SetSeccompFilter \/ AltSyscall \/ Strict
  PROVE  Inv'
<1>0. SUFFICES ASSUME pc' \notin Over PROVE Inv'
  <2>1. ASSUME pc' \in Over PROVE UNCHANGED <<jail, caller, cred>>
    BY <2>1 DEF SetNoNewPrivs, ApplyLandlock, SetSeccompFilter, AltSyscall, Strict, Call, Goto,
                Over, AfterFilter, FilterFirst
  <2> QED
    BY <2>1, OverInv
<1>t. cred \in Credentials /\ jail.policy \in SUBSET Calls
  BY EnterAssumption DEF Inv, TypeOK, JailOptions
<1>1. /\ UNCHANGED <<jail, caller>>
      /\ cred' \in Credentials
      /\ cred'.bits = cred.bits /\ cred'.uid = cred.uid /\ cred'.bnd = cred.bnd
      /\ cred'.perm = cred.perm /\ cred'.eff = cred.eff /\ cred'.inh = cred.inh
      /\ cred'.amb = cred.amb /\ (cred.nnp => cred'.nnp)
      /\ pc \in {"nnp", "landlock", "filter", "alt", "strict"}
      /\ pc = "nnp" => pc' = "landlock" /\ cred'.nnp
      /\ pc = "landlock" => pc' = "filter"
      /\ pc = "filter" => pc' = IF jail.no_new_privs THEN "alt" ELSE "groups"
      /\ pc = "alt" => pc' = "strict"
      /\ pc = "strict" => pc' = "leave"
  <2>1. CASE SetNoNewPrivs
    <3>1. /\ UNCHANGED <<jail, caller>> /\ pc = "nnp" /\ pc' = "landlock"
          /\ cred' = [cred EXCEPT !.nnp = TRUE]
      BY <1>0, <2>1 DEF SetNoNewPrivs, Call, Over
    <3> QED
      BY <1>t, <3>1, ZenonT(60) DEF Credentials
  <2>2. CASE ApplyLandlock
    <3>1. /\ UNCHANGED <<jail, caller>> /\ pc = "landlock" /\ pc' = "filter"
          /\ cred' = cred \/ cred' = [cred EXCEPT !.landlock = TRUE]
      BY <1>0, <2>2 DEF ApplyLandlock, Call, Goto, Over
    <3> QED
      BY <1>t, <3>1, ZenonT(60) DEF Credentials
  <2>3. CASE SetSeccompFilter
    <3>1. /\ UNCHANGED <<jail, caller>> /\ pc = "filter"
          /\ pc' = IF jail.no_new_privs THEN "alt" ELSE "groups"
          /\ \/ cred' = cred
             \/ \E q \in SUBSET Calls, s \in {"inherited", "handler", "default"} :
                  cred' = [cred EXCEPT !.policy = q, !.mode = "filter", !.sigsys = s]
      <4> DEFINE q == cred.policy \cap jail.policy
                 s == IF jail.log THEN "handler"
                      ELSE IF jail.tsync THEN "default" ELSE cred.sigsys
      <4>1. q \in SUBSET Calls /\ s \in {"inherited", "handler", "default"}
        BY <1>t DEF Credentials
      <4>2. /\ UNCHANGED <<jail, caller>> /\ pc = "filter" /\ pc' = AfterFilter
            /\ \/ cred' = cred
               \/ cred' = [cred EXCEPT !.policy = q, !.mode = "filter", !.sigsys = s]
        BY <1>0, <2>3 DEF SetSeccompFilter, Call, Goto, Over
      <4> HIDE DEF q, s
      <4> QED
        BY <4>1, <4>2, ZenonT(60) DEF AfterFilter, FilterFirst
    <3> QED
      BY <1>t, <3>1, ZenonT(60) DEF Credentials
  <2>4. CASE AltSyscall
    <3>1. UNCHANGED <<jail, caller>> /\ pc = "alt" /\ pc' = "strict" /\ cred' = cred
      BY <1>0, <2>4 DEF AltSyscall, Call, Goto, Over
    <3> QED
      BY <1>t, <3>1
  <2>5. CASE Strict
    <3>1. /\ UNCHANGED <<jail, caller>> /\ pc = "strict" /\ pc' = "leave"
          /\ cred' = cred \/ cred' = [cred EXCEPT !.mode = "strict", !.policy = {}]
      BY <1>0, <2>5 DEF Strict, Call, Goto, Over
    <3> QED
      BY <1>t, <3>1, ZenonT(60) DEF Credentials
  <2> QED
    BY <2>1, <2>2, <2>3, <2>4, <2>5
<1>2. TypeOK'
  BY <1>1 DEF Inv, TypeOK, Steps
<1>3. pc \in AfterBits /\ (pc' \in AfterFinal' => pc \in AfterFinal) /\ pc' # "final"
  BY <1>1 DEF AfterBits, AfterFinal, Steps, Running
<1>4. CapsInv'
  BY <1>1, <1>3 DEF Inv, CapsInv, Restricted, SkipsNoRoot
<1>5. UidInv'
  BY <1>1, <1>3 DEF Inv, UidInv, Unprivileged
<1> QED
  BY <1>2, <1>4, <1>5 DEF Inv

-----------------------------------------------------------------------------
(* The program.                                                                *)

\* A change of credentials after which every source of capabilities still lies
\* within the jail's set.
LEMMA LaterInv ==
  ASSUME Inv, pc \in AfterFinal, pc' \in Running, UNCHANGED <<jail, caller>>,
         cred' \in Credentials, cred'.amb \subseteq cred'.perm \cap cred'.inh,
         {"NOROOT", "NOROOT_LOCKED"} \subseteq cred.bits =>
           {"NOROOT", "NOROOT_LOCKED"} \subseteq cred'.bits,
         cred'.bnd \subseteq cred.bnd,
         cred'.perm \cup cred'.eff \cup cred'.inh
           \subseteq cred.perm \cup cred.eff \cup cred.inh \cup cred.bnd,
         Unprivileged =>
           cred'.uid = "user" /\ cred'.nnp /\ "SETUID" \notin cred'.perm \cup cred'.eff
  PROVE  Inv'
<1>1. TypeOK'
  BY DEF Inv, TypeOK
<1>2. pc \in AfterBits
  BY DEF AfterBits, AfterFinal, Steps
<1>3. CapsInv'
  BY <1>2 DEF Inv, CapsInv, Restricted, SkipsNoRoot
<1>4. UidInv'
  BY DEF Inv, UidInv, Unprivileged
<1> QED
  BY <1>1, <1>3, <1>4 DEF Inv

\* The program, and the execve(2) that starts it.
LEMMA ExecSteps ==
  ASSUME Inv, Leave \/ ProgramExec
  PROVE  Inv'
<1>0. SUFFICES ASSUME pc' \notin Over PROVE Inv'
  <2>1. ASSUME pc' \in Over PROVE UNCHANGED <<jail, caller, cred>>
    BY <2>1 DEF Leave, ProgramExec, Become, Call, Goto, Over
  <2> QED
    BY <2>1, OverInv
<1>t. /\ cred \in Credentials /\ cred.amb \subseteq cred.perm \cap cred.inh
      /\ Plain \in Files /\ Programs \subseteq Files
  BY EnterAssumption DEF Inv, TypeOK, CapsInv, Plain, Files
<1>1. /\ UNCHANGED <<jail, caller>> /\ pc' \in Running /\ pc \in AfterFinal \ {"ambient", "nnp"}
      /\ cred' = cred \/ \E f \in Files : cred' = AfterExec(cred, f)
  BY <1>0, <1>t DEF Leave, ProgramExec, Become, Call, Goto, Over, Running, AfterFinal
<1>u. Unprivileged => cred.uid = "user" /\ cred.nnp /\ "SETUID" \notin cred.perm \cup cred.eff
  BY <1>1 DEF Inv, UidInv
<1>2. CASE cred' = cred
  BY <1>1, <1>2, <1>t, <1>u, LaterInv
<1>3. ASSUME NEW f \in Files, cred' = AfterExec(cred, f)
      PROVE  Inv'
  <2>1. /\ cred' \in Credentials
        /\ cred'.amb \subseteq cred'.perm \cap cred'.inh
        /\ cred'.eff \subseteq cred'.perm
        /\ cred'.perm \subseteq cred.bnd \cup cred.inh
        /\ cred'.inh = cred.inh /\ cred'.bnd = cred.bnd /\ cred'.nnp = cred.nnp
        /\ cred'.bits = cred.bits \ {"KEEP_CAPS"}
        /\ cred.nnp => cred'.uid = cred.uid /\ cred'.perm \subseteq cred.perm
    BY <1>t, <1>3, ExecRules
  <2> QED
    BY <1>1, <1>u, <2>1, LaterInv
<1> QED
  BY <1>1, <1>2, <1>3

\* The program's own attempts at its credentials.
LEMMA ProgramSteps ==
  ASSUME Inv, ProgramCapset \/ ProgramAmbient \/ ProgramBits \/ ProgramSetUid
  PROVE  Inv'
<1>t. /\ cred \in Credentials /\ cred.amb \subseteq cred.perm \cap cred.inh
      /\ Asked \subseteq SUBSET Cap /\ AskedBits \subseteq SUBSET SecureBits
  BY EnterAssumption DEF Inv, TypeOK, CapsInv
<1>1. UNCHANGED <<jail, caller>> /\ pc' \in Running /\ pc \in AfterFinal \ {"ambient", "nnp"}
  BY ZenonT(60) DEF ProgramCapset, ProgramAmbient, ProgramBits, ProgramSetUid, Become, Running, AfterFinal
<1>u. Unprivileged => cred.uid = "user" /\ cred.nnp /\ "SETUID" \notin cred.perm \cup cred.eff
  BY <1>1 DEF Inv, UidInv
<1>2. CASE ProgramCapset
  <2>1. PICK want \in Asked :
          cred' = Capset(cred, want \cap cred.perm,
                    want \cap (cred.inh \cup (IF "SETPCAP" \in cred.eff THEN cred.bnd
                                              ELSE cred.bnd \cap cred.perm)))
    BY <1>2, ZenonT(60) DEF ProgramCapset, Become
  <2> DEFINE perm == want \cap cred.perm
             inh  == want \cap (cred.inh \cup (IF "SETPCAP" \in cred.eff THEN cred.bnd
                                               ELSE cred.bnd \cap cred.perm))
  <2>2. perm \in SUBSET Cap /\ inh \in SUBSET Cap /\ inh \subseteq cred.inh \cup cred.bnd
    BY <1>t DEF Credentials
  <2>3. cred' = Capset(cred, perm, inh) /\ perm \subseteq cred.perm
    BY <2>1
  <2> HIDE DEF perm, inh
  <2>4. /\ cred' \in Credentials
        /\ cred'.perm = perm /\ cred'.eff = perm /\ cred'.inh = inh
        /\ cred'.amb \subseteq perm \cap inh
        /\ cred'.bnd = cred.bnd /\ cred'.bits = cred.bits
        /\ cred'.nnp = cred.nnp /\ cred'.uid = cred.uid
    <3> DEFINE n == Capset(cred, perm, inh)
    <3>1. /\ n \in Credentials /\ n.perm = perm /\ n.eff = perm /\ n.inh = inh
          /\ n.amb \subseteq perm \cap inh
          /\ n.bnd = cred.bnd /\ n.bits = cred.bits
          /\ n.nnp = cred.nnp /\ n.uid = cred.uid
      BY <1>t, <2>2, CapsetRules
    <3>2. cred' = n
      BY <2>3
    <3> HIDE DEF n
    <3> QED
      BY <3>1, <3>2
  <2> QED
    BY <1>1, <1>u, <2>2, <2>3, <2>4, LaterInv
<1>3. CASE ProgramAmbient
  <2>1. cred' = [cred EXCEPT !.amb = cred.amb \cup (cred.perm \cap cred.inh)]
    BY <1>3 DEF ProgramAmbient, Become
  <2>2. /\ cred' \in Credentials
        /\ cred'.perm = cred.perm /\ cred'.eff = cred.eff /\ cred'.inh = cred.inh
        /\ cred'.amb = cred.amb \cup (cred.perm \cap cred.inh)
        /\ cred'.bnd = cred.bnd /\ cred'.bits = cred.bits
        /\ cred'.nnp = cred.nnp /\ cred'.uid = cred.uid
    BY <1>t, <2>1 DEF Credentials
  <2> QED
    BY <1>1, <1>t, <1>u, <2>2, LaterInv
<1>4. CASE ProgramBits
  <2>1. PICK bits \in AskedBits : MaySetBits(cred, bits) /\ cred' = [cred EXCEPT !.bits = bits]
    BY <1>4 DEF ProgramBits, Become
  <2>2. /\ cred' \in Credentials
        /\ cred'.perm = cred.perm /\ cred'.eff = cred.eff /\ cred'.inh = cred.inh
        /\ cred'.amb = cred.amb
        /\ cred'.bnd = cred.bnd /\ cred'.bits = bits
        /\ cred'.nnp = cred.nnp /\ cred'.uid = cred.uid
    BY <1>t, <2>1 DEF Credentials
  <2>3. {"NOROOT", "NOROOT_LOCKED"} \subseteq cred.bits =>
          {"NOROOT", "NOROOT_LOCKED"} \subseteq cred'.bits
    BY <1>t, <2>1, <2>2, LockedNoRoot
  <2> QED
    BY <1>1, <1>t, <1>u, <2>2, <2>3, LaterInv
<1>5. CASE ProgramSetUid
  <2>1. cred' = AfterSetUid(cred, "root") /\ "SETUID" \in cred.eff
    BY <1>5 DEF ProgramSetUid, Become
  <2>2. /\ cred' \in Credentials
        /\ cred'.amb \subseteq cred'.perm \cap cred'.inh
        /\ cred'.perm \subseteq cred.perm /\ cred'.eff \subseteq cred.perm \cup cred.eff
        /\ cred'.inh = cred.inh /\ cred'.bnd = cred.bnd /\ cred'.bits = cred.bits
    BY <1>t, <2>1, SetUidRules
  <2>3. ~Unprivileged
    BY <1>u, <2>1
  <2> QED
    BY <1>1, <2>2, <2>3, LaterInv
<1> QED
  BY <1>2, <1>3, <1>4, <1>5

-----------------------------------------------------------------------------
(* The theorems.                                                               *)

\* Every state minijail_enter() and the program after it reach is well typed and
\* satisfies both invariants.
THEOREM EnterInvariant == Spec => [](TypeOK /\ CapsInv /\ UidInv)
<1>1. Init => Inv
  <2> SUFFICES ASSUME Init PROVE Inv
    OBVIOUS
  <2>1. jail \in Jails /\ caller \in Callers /\ cred = caller /\ pc = "run"
    BY DEF Init
  <2>2. cred \in Credentials /\ cred.amb \subseteq cred.perm \cap cred.inh
    BY <2>1, EnterAssumption
  <2>3. TypeOK
    BY <2>1, <2>2 DEF TypeOK, Steps
  <2>4. CapsInv /\ UidInv
    BY <2>1, <2>2 DEF CapsInv, UidInv, AfterBits, AfterFinal, Steps, Running
  <2> QED
    BY <2>3, <2>4 DEF Inv
<1>2. Inv /\ [Next]_vars => Inv'
  <2> SUFFICES ASSUME Inv, [Next]_vars PROVE Inv'
    OBVIOUS
  <2>1. CASE Next
    BY <2>1, FirstSteps, LockStep, IdSteps, CapSteps, RestrictSteps, ExecSteps, ProgramSteps
       DEF Next
  <2>2. CASE UNCHANGED vars
    BY <2>2 DEF vars, Inv, TypeOK, CapsInv, UidInv, AfterBits, AfterFinal, Restricted,
                SkipsNoRoot, Unprivileged
  <2> QED
    BY <2>1, <2>2
<1>3. Inv => TypeOK /\ CapsInv /\ UidInv
  BY DEF Inv
<1> QED
  BY <1>1, <1>2, <1>3, PTL DEF Spec

\* The credentials of the process stay credentials: no step of minijail_enter()
\* raises a capability that the kernel does not know, whatever the jail names.
THEOREM EnterTypeCorrect == Spec => []TypeOK
BY EnterInvariant, PTL

\* A jail with minijail_use_caps() that does not skip SECURE_NOROOT is a
\* capabilities-only environment: its program never holds another capability,
\* whatever it executes and asks for.
THEOREM CapsOnlyTheorem == Spec => []CapsOnlyForever
<1>1. TypeOK /\ CapsInv /\ UidInv => CapsOnlyForever
  BY DEF CapsInv, CapsOnlyForever, AfterFinal
<1> QED
  BY <1>1, EnterInvariant, PTL

\* A program that was put under another uid with no_new_privs and without
\* CAP_SETUID is never root again.
THEOREM NoReturnToRootTheorem == Spec => []NoReturnToRoot
<1>1. TypeOK /\ CapsInv /\ UidInv => NoReturnToRoot
  BY DEF UidInv, Unprivileged, NoReturnToRoot, AfterFinal
<1> QED
  BY <1>1, EnterInvariant, PTL

-----------------------------------------------------------------------------
(* The program starts confined.                                                *)

\* Each step has its place in minijail_enter(), and nothing follows once the
\* process is over.
LEMMA WhichStep ==
  ASSUME Next
  PROVE  /\ UNCHANGED <<jail, caller>> /\ pc \notin Over
         /\ pc = "filter" => SetSeccompFilter
         /\ pc \in {"alt", "strict"} => AltSyscall \/ Strict
         /\ pc = "leave" => Leave
         /\ pc \in Running => pc' = "main"
<1> USE DEF Next, Run, Checks, DropBoundingOnly, LockSecurebits, SetGroups, SetGid, SetUid,
            CleanCaps, DropBounding, FinalCaps, RaiseAmbient, SetNoNewPrivs, ApplyLandlock,
            SetSeccompFilter, AltSyscall, Strict, Leave, ProgramExec, ProgramCapset,
            ProgramAmbient, ProgramBits, ProgramSetUid
<1>1. UNCHANGED <<jail, caller>>
  BY ZenonT(60) DEF DropCapbset, Become, Call, Goto
<1>2. pc \notin Over /\ (pc \in Running => pc' = "main")
  BY ZenonT(60) DEF Become, Running, Over
<1>3. /\ pc = "filter" => SetSeccompFilter
      /\ pc \in {"alt", "strict"} => AltSyscall \/ Strict
      /\ pc = "leave" => Leave
  BY ZenonT(60) DEF Running
<1> QED
  BY <1>1, <1>2, <1>3, ZenonT(60)

\* A process that has died, or that the program runs in, is past what the
\* invariant says of minijail_enter().
LEMMA StartInvOver ==
  ASSUME pc' \in Over \cup {"main"}
  PROVE  StartInv'
BY DEF StartInv, StartsConfined, Finished, Dropped, Filtered, Drops, AfterFinal, Running, Over, Steps

\* The options about supplementary groups are few.
LEMMA GroupsFinite ==
  ASSUME NEW S \in SUBSET {"inherit", "keep", "set"}
  PROVE  IsFiniteSet(S)
<1>1. IsFiniteSet({"inherit", "keep", "set"})
  <2>1. IsFiniteSet({"inherit"} \cup {"keep"})
    BY FS_Singleton, FS_AddElement, ZenonT(60)
  <2>2. IsFiniteSet(({"inherit"} \cup {"keep"}) \cup {"set"})
    BY <2>1, FS_AddElement
  <2> QED
    BY <2>2
<1> QED
  BY <1>1, FS_Subset, ZenonT(60)

\* At most one of them.
LEMMA OneOfGroups ==
  ASSUME NEW S \in SUBSET {"inherit", "keep", "set"}, ~(Cardinality(S) > 1), "keep" \notin S
  PROVE  S \in {{}, {"inherit"}, {"set"}}
<1>2. IsFiniteSet(S)
  BY GroupsFinite
<1>3. ~({"inherit", "set"} \subseteq S)
  <2> SUFFICES ASSUME {"inherit", "set"} \subseteq S PROVE FALSE
    OBVIOUS
  <2>1. Cardinality({"inherit"}) = 1 /\ IsFiniteSet({"inherit"})
    BY FS_Singleton, ZenonT(60)
  <2>2. Cardinality({"inherit"} \cup {"set"}) = 2
    <3>1. Cardinality({"inherit"} \cup {"set"}) =
            IF "set" \in {"inherit"} THEN Cardinality({"inherit"}) ELSE Cardinality({"inherit"}) + 1
      BY <2>1, FS_AddElement, ZenonT(60)
    <3> QED
      BY <2>1, <3>1, SMT
  <2>3. {"inherit"} \cup {"set"} \in SUBSET S
    OBVIOUS
  <2>4. Cardinality({"inherit"} \cup {"set"}) <= Cardinality(S)
    BY <1>2, <2>3, FS_Subset
  <2>5. Cardinality(S) \in Nat
    BY <1>2, FS_CardinalityType
  <2> QED
    BY <2>2, <2>4, <2>5
<1> QED
  BY <1>3, ZenonT(60)

\* What a step does not touch.
SameIds  == cred'.uid = cred.uid /\ cred'.gid = cred.gid /\ cred'.groups = cred.groups
SameCaps == /\ cred'.perm = cred.perm /\ cred'.eff = cred.eff /\ cred'.inh = cred.inh
            /\ cred'.amb = cred.amb /\ cred'.bnd = cred.bnd
SameBits == cred'.bits = cred.bits
SameRestrictions ==
  /\ cred'.nnp = cred.nnp /\ cred'.landlock = cred.landlock
  /\ cred'.policy = cred.policy /\ cred'.mode = cred.mode

\* The effect of each step of minijail_enter() that succeeds, one field of the
\* credentials at a time.
LEMMA IdEffects ==
  ASSUME TypeOK, pc' \notin Over
  PROVE  /\ SetGroups => /\ pc = "groups" /\ pc' = "gid"
                         /\ UNCHANGED <<jail, caller>>
                         /\ SameCaps /\ SameBits /\ SameRestrictions
                         /\ cred'.uid = cred.uid /\ cred'.gid = cred.gid
                         /\ jail.uid /\ ~("keep" \in jail.suppl \/ jail.nosetgroups)
                              => cred'.groups # "caller"
         /\ SetGid => /\ pc = "gid" /\ pc' = "uid"
                      /\ UNCHANGED <<jail, caller>>
                      /\ SameCaps /\ SameBits /\ SameRestrictions
                      /\ cred'.uid = cred.uid /\ cred'.groups = cred.groups
                      /\ IF jail.gid THEN cred'.gid = "jail" ELSE cred'.gid = cred.gid
         /\ SetUid => /\ pc = "uid" /\ pc' = "clean"
                      /\ UNCHANGED <<jail, caller>>
                      /\ SameBits /\ SameRestrictions
                      /\ cred'.gid = cred.gid /\ cred'.groups = cred.groups
                      /\ cred'.bnd = cred.bnd
                      /\ IF jail.uid THEN cred'.uid = "user" ELSE SameIds /\ SameCaps
                      /\ {"NO_SETUID_FIXUP", "KEEP_CAPS"} \cap cred.bits # {} =>
                           cred'.perm = cred.perm
<1>t. cred \in Credentials /\ jail \in JailOptions
  BY EnterAssumption DEF TypeOK
<1>1. CASE SetGroups
  <2>1. ~(Cardinality(jail.suppl) > 1)
    BY <1>1 DEF SetGroups, Goto, Over
  <2>2. "keep" \notin jail.suppl => jail.suppl \in {{}, {"inherit"}, {"set"}}
    BY <1>t, <2>1, OneOfGroups DEF JailOptions
  <2>3. /\ pc = "groups" /\ pc' = "gid" /\ UNCHANGED <<jail, caller>>
        /\ \/ /\ cred' = cred
              /\ jail.suppl \notin {{"inherit"}, {"set"}}
              /\ ~(jail.suppl = {} /\ ~jail.nosetgroups /\ (jail.uid \/ jail.gid))
           \/ \E g \in {"user", "list", "none"} : cred' = [cred EXCEPT !.groups = g]
    BY <1>1, <2>1 DEF SetGroups, Call, Goto, Over
  <2> QED
    BY <1>t, <1>1, <2>2, <2>3
       DEF SameCaps, SameBits, SameRestrictions, Credentials, SetGid, SetUid
<1>2. CASE SetGid
  <2>1. /\ pc = "gid" /\ pc' = "uid" /\ UNCHANGED <<jail, caller>>
        /\ IF jail.gid THEN cred' = [cred EXCEPT !.gid = "jail"] ELSE cred' = cred
    BY <1>2 DEF SetGid, Call, Goto, Over
  <2> QED
    BY <1>t, <2>1 DEF SameCaps, SameBits, SameRestrictions, Credentials, SetGroups, SetUid
<1>3. CASE SetUid
  <2>1. /\ pc = "uid" /\ pc' = "clean" /\ UNCHANGED <<jail, caller>>
        /\ IF jail.uid THEN cred' = AfterSetUid(cred, "user") ELSE cred' = cred
    BY <1>3 DEF SetUid, Call, Goto, Over
  <2>2. LET n == AfterSetUid(cred, "user") IN
        /\ n.uid = "user" /\ n.gid = cred.gid /\ n.groups = cred.groups
        /\ n.bnd = cred.bnd /\ n.bits = cred.bits
        /\ n.nnp = cred.nnp /\ n.landlock = cred.landlock
        /\ n.policy = cred.policy /\ n.mode = cred.mode
        /\ {"NO_SETUID_FIXUP", "KEEP_CAPS"} \cap cred.bits # {} => n.perm = cred.perm
    BY <1>t, ZenonT(60) DEF AfterSetUid, Credentials
  <2> QED
    BY <2>1, <2>2 DEF SameCaps, SameIds, SameBits, SameRestrictions, SetGroups, SetGid
<1> QED
  BY <1>1, <1>2, <1>3

\* drop_caps().
LEMMA CapEffects ==
  ASSUME TypeOK, pc' \notin Over
  PROVE  /\ CleanCaps =>
              /\ pc = "clean" /\ UNCHANGED <<jail, caller>>
              /\ SameIds /\ SameBits /\ SameRestrictions /\ cred'.bnd = cred.bnd
              /\ IF jail.use_caps
                 THEN /\ pc' = "bound"
                      /\ cred'.perm = Kept /\ cred'.eff = Kept /\ cred'.inh = Kept
                 ELSE pc' = AfterCaps /\ SameCaps
         /\ DropBounding =>
              /\ pc = "bound" /\ pc' = "final" /\ UNCHANGED <<jail, caller>>
              /\ SameIds /\ SameBits /\ SameRestrictions
              /\ cred'.perm = cred.perm /\ cred'.eff = cred.eff /\ cred'.inh = cred.inh
         /\ FinalCaps =>
              /\ pc = "final" /\ pc' = "ambient" /\ UNCHANGED <<jail, caller>>
              /\ SameIds /\ SameBits /\ SameRestrictions
              /\ cred'.perm = Requested /\ cred'.eff = Requested /\ cred'.inh = Requested
         /\ RaiseAmbient =>
              /\ pc = "ambient" /\ pc' = AfterCaps /\ UNCHANGED <<jail, caller>>
              /\ SameIds /\ SameBits /\ SameRestrictions
              /\ cred'.perm = cred.perm /\ cred'.eff = cred.eff /\ cred'.inh = cred.inh
              /\ jail.ambient => cred'.amb = Requested
<1> DEFINE Frame(n) == /\ n.uid = cred.uid /\ n.gid = cred.gid /\ n.groups = cred.groups
                       /\ n.bits = cred.bits /\ n.nnp = cred.nnp /\ n.landlock = cred.landlock
                       /\ n.policy = cred.policy /\ n.mode = cred.mode
<1>t. cred \in Credentials
  BY DEF TypeOK
<1>c. ASSUME NEW perm, NEW inh
      PROVE  LET n == Capset(cred, perm, inh) IN
             /\ Frame(n) /\ n.bnd = cred.bnd
             /\ n.perm = perm /\ n.eff = perm /\ n.inh = inh
  BY <1>t DEF Capset, Credentials
<1>f. Frame(cred') => SameIds /\ SameBits /\ SameRestrictions
  BY DEF SameIds, SameBits, SameRestrictions
<1>1. CASE CleanCaps
  <2>1. /\ pc = "clean" /\ UNCHANGED <<jail, caller>>
        /\ IF jail.use_caps THEN pc' = "bound" /\ cred' = Capset(cred, Kept, Kept)
           ELSE pc' = AfterCaps /\ cred' = cred
    BY <1>1 DEF CleanCaps, Kept, Call, Goto, Over
  <2>2. jail.use_caps => /\ Frame(cred') /\ cred'.bnd = cred.bnd
                         /\ cred'.perm = Kept /\ cred'.eff = Kept /\ cred'.inh = Kept
    BY <1>c, <2>1
  <2>3. ~jail.use_caps => Frame(cred') /\ SameCaps
    BY <2>1 DEF SameCaps
  <2> QED
    BY <1>f, <2>1, <2>2, <2>3 DEF DropBounding, FinalCaps, RaiseAmbient, SameCaps
<1>2. CASE DropBounding
  <2>1. /\ pc = "bound" /\ pc' = "final" /\ UNCHANGED <<jail, caller>>
        /\ cred' = cred \/ cred' = [cred EXCEPT !.bnd = @ \cap Requested]
    BY <1>2 DEF DropBounding, DropCapbset, Call, Goto, Over
  <2> QED
    BY <1>t, <2>1
       DEF Credentials, SameIds, SameBits, SameRestrictions, CleanCaps, FinalCaps, RaiseAmbient
<1>3. CASE FinalCaps
  <2>1. /\ pc = "final" /\ pc' = "ambient" /\ UNCHANGED <<jail, caller>>
        /\ cred' = Capset(cred, Requested, Requested)
    BY <1>3 DEF FinalCaps, Call, Goto, Over
  <2>2. /\ Frame(cred') /\ cred'.bnd = cred.bnd
        /\ cred'.perm = Requested /\ cred'.eff = Requested /\ cred'.inh = Requested
    BY <1>c, <2>1
  <2> QED
    BY <1>f, <2>1, <2>2 DEF CleanCaps, DropBounding, RaiseAmbient
<1>4. CASE RaiseAmbient
  <2>1. /\ pc = "ambient" /\ pc' = AfterCaps /\ UNCHANGED <<jail, caller>>
        /\ IF jail.ambient THEN cred' = [cred EXCEPT !.amb = Requested] ELSE cred' = cred
    BY <1>4 DEF RaiseAmbient, Call, Goto, Over
  <2> QED
    BY <1>t, <2>1
       DEF Credentials, SameIds, SameBits, SameRestrictions, CleanCaps, DropBounding, FinalCaps
<1> QED
  BY <1>1, <1>2, <1>3, <1>4

\* no_new_privs, Landlock, the filter and strict mode.
LEMMA RestrictEffects ==
  ASSUME TypeOK, pc' \notin Over
  PROVE  /\ SetNoNewPrivs =>
              /\ pc = "nnp" /\ pc' = "landlock" /\ UNCHANGED <<jail, caller>>
              /\ SameIds /\ SameCaps /\ SameBits
              /\ cred'.landlock = cred.landlock /\ cred'.policy = cred.policy
              /\ cred'.mode = cred.mode /\ cred'.nnp
         /\ ApplyLandlock =>
              /\ pc = "landlock" /\ pc' = "filter" /\ UNCHANGED <<jail, caller>>
              /\ SameIds /\ SameCaps /\ SameBits
              /\ cred'.nnp = cred.nnp /\ cred'.policy = cred.policy /\ cred'.mode = cred.mode
              /\ jail.landlock /\ jail.ruleset => cred'.landlock
         /\ SetSeccompFilter =>
              /\ pc = "filter" /\ pc' = AfterFilter /\ UNCHANGED <<jail, caller>>
              /\ SameIds /\ SameCaps /\ SameBits
              /\ cred'.nnp = cred.nnp /\ cred'.landlock = cred.landlock
              /\ cred'.policy = IF jail.filter THEN cred.policy \cap jail.policy ELSE cred.policy
         /\ AltSyscall =>
              /\ pc = "alt" /\ pc' = "strict" /\ UNCHANGED <<jail, caller, cred>>
         /\ Strict =>
              /\ pc = "strict" /\ pc' = "leave" /\ UNCHANGED <<jail, caller>>
              /\ SameIds /\ SameCaps /\ SameBits
              /\ cred'.nnp = cred.nnp /\ cred'.landlock = cred.landlock
              /\ cred'.policy \subseteq cred.policy
              /\ ~jail.seccomp => cred'.policy = cred.policy
              /\ jail.seccomp /\ ~SoftFail => cred'.mode = "strict"
<1>t. cred \in Credentials
  BY DEF TypeOK
<1> USE DEF SameIds, SameCaps, SameBits
<1>1. CASE SetNoNewPrivs
  <2>1. /\ pc = "nnp" /\ pc' = "landlock" /\ UNCHANGED <<jail, caller>>
        /\ cred' = [cred EXCEPT !.nnp = TRUE]
    BY <1>1 DEF SetNoNewPrivs, Call, Over
  <2>2. ~ApplyLandlock /\ ~SetSeccompFilter /\ ~AltSyscall /\ ~Strict
    BY <2>1 DEF ApplyLandlock, SetSeccompFilter, AltSyscall, Strict
  <2> QED
    BY <1>t, <2>1, <2>2, ZenonT(60) DEF Credentials
<1>2. CASE ApplyLandlock
  <2>1. /\ pc = "landlock" /\ pc' = "filter" /\ UNCHANGED <<jail, caller>>
        /\ IF jail.landlock /\ jail.ruleset THEN cred' = [cred EXCEPT !.landlock = TRUE] ELSE cred' = cred
    BY <1>2 DEF ApplyLandlock, Call, Goto, Over
  <2>2. ~SetNoNewPrivs /\ ~SetSeccompFilter /\ ~AltSyscall /\ ~Strict
    BY <2>1 DEF SetNoNewPrivs, SetSeccompFilter, AltSyscall, Strict
  <2> QED
    BY <1>t, <2>1, <2>2, ZenonT(60) DEF Credentials
<1>3. CASE SetSeccompFilter
  <2> DEFINE s == IF jail.log THEN "handler" ELSE IF jail.tsync THEN "default" ELSE cred.sigsys
             q == cred.policy \cap jail.policy
  <2>1. /\ pc = "filter" /\ pc' = AfterFilter /\ UNCHANGED <<jail, caller>>
        /\ IF jail.filter THEN cred' = [cred EXCEPT !.policy = q, !.mode = "filter", !.sigsys = s]
           ELSE cred' = cred
    BY <1>3 DEF SetSeccompFilter, Call, Goto, Over
  <2>2. ~SetNoNewPrivs /\ ~ApplyLandlock /\ ~AltSyscall /\ ~Strict
    BY <2>1 DEF SetNoNewPrivs, ApplyLandlock, AltSyscall, Strict
  <2> HIDE DEF s
  <2> QED
    BY <1>t, <2>1, <2>2, ZenonT(60) DEF Credentials
<1>4. CASE AltSyscall
  BY <1>4 DEF AltSyscall, Call, Goto, Over, SetNoNewPrivs, ApplyLandlock, SetSeccompFilter, Strict
<1>5. CASE Strict
  <2>1. /\ pc = "strict" /\ pc' = "leave" /\ UNCHANGED <<jail, caller>>
        /\ \/ cred' = cred /\ (~jail.seccomp \/ SoftFail)
           \/ jail.seccomp /\ cred' = [cred EXCEPT !.mode = "strict", !.policy = {}]
    BY <1>5 DEF Strict, Call, Goto, Over
  <2>2. ~SetNoNewPrivs /\ ~ApplyLandlock /\ ~SetSeccompFilter /\ ~AltSyscall
    BY <2>1 DEF SetNoNewPrivs, ApplyLandlock, SetSeccompFilter, AltSyscall
  <2> QED
    BY <1>t, <2>1, <2>2, ZenonT(60) DEF Credentials
<1> QED
  BY <1>1, <1>2, <1>3, <1>4, <1>5, ZenonT(60)

\* The steps of minijail_enter() up to the one that leaves it.
LEMMA StartSteps ==
  ASSUME Inv, StartInv, Next, pc # "leave", pc' \notin Over \cup {"main"}
  PROVE  StartInv'
<1> USE DEF StartInv, StartsConfined, Finished, Dropped, Filtered, Drops, AfterFinal, Running,
            Steps, Requested, SkipsNoRoot
<1>t. TypeOK /\ pc' \notin Over /\ jail.no_new_privs \in BOOLEAN
  BY EnterAssumption DEF Inv, TypeOK, JailOptions
<1>1. CASE Run
  BY <1>t, <1>1 DEF Run, Call, Goto, Over
<1>2. CASE Checks
  BY <1>t, <1>2, ZenonT(60) DEF Checks, Goto, Over
<1>3. CASE DropBoundingOnly
  <2>1. UNCHANGED jail /\ pc = "bset" /\ pc' = "bits"
    BY <1>t, <1>3, ZenonT(60) DEF DropBoundingOnly, DropCapbset, Call, Goto, Over
  <2> QED
    BY <2>1
<1>4. CASE LockSecurebits
  <2>1. UNCHANGED jail /\ pc = "bits" /\ pc' = FirstDrop
    BY <1>t, <1>4, ZenonT(60) DEF LockSecurebits, Call, Goto, Over
  <2> QED
    BY <1>t, <2>1 DEF FirstDrop, FilterFirst
<1>5. CASE SetGroups
  BY <1>t, <1>5, IdEffects, ZenonT(60) DEF SameRestrictions
<1>6. CASE SetGid
  BY <1>t, <1>6, IdEffects, ZenonT(60) DEF SameRestrictions
<1>7. CASE SetUid
  BY <1>t, <1>7, IdEffects, ZenonT(60) DEF SameRestrictions
<1>8. CASE CleanCaps
  BY <1>t, <1>8, CapEffects, ZenonT(60) DEF SameRestrictions, SameIds, AfterCaps, FilterFirst
<1>9. CASE DropBounding
  BY <1>t, <1>9, CapEffects, ZenonT(60) DEF SameRestrictions, SameIds
<1>10. CASE FinalCaps
  BY <1>t, <1>10, CapEffects, ZenonT(60) DEF SameRestrictions, SameIds
<1>11. CASE RaiseAmbient
  BY <1>t, <1>11, CapEffects, ZenonT(60) DEF SameRestrictions, SameIds, AfterCaps, FilterFirst
<1>12. CASE SetNoNewPrivs
  BY <1>t, <1>12, RestrictEffects, ZenonT(60) DEF SameCaps, SameIds
<1>13. CASE ApplyLandlock
  BY <1>t, <1>13, RestrictEffects, ZenonT(60) DEF SameCaps, SameIds
<1>14. CASE SetSeccompFilter
  BY <1>t, <1>14, RestrictEffects, ZenonT(60) DEF SameCaps, SameIds, AfterFilter, FilterFirst
<1>15. CASE AltSyscall
  BY <1>t, <1>15, RestrictEffects, ZenonT(60)
<1>16. CASE Strict
  BY <1>t, <1>16, RestrictEffects DEF SameCaps, SameIds
<1>17. ~Leave /\ ~ProgramExec /\ ~ProgramCapset /\ ~ProgramAmbient /\ ~ProgramBits /\ ~ProgramSetUid
  BY ZenonT(60) DEF Leave, ProgramExec, ProgramCapset, ProgramAmbient, ProgramBits, ProgramSetUid, Become
<1> HIDE DEF StartInv, StartsConfined, Finished, Dropped, Filtered, Drops, AfterFinal, Running,
             Steps, Requested, SkipsNoRoot
<1> QED
  BY <1>1, <1>2, <1>3, <1>4, <1>5, <1>6, <1>7, <1>8, <1>9, <1>10, <1>11, <1>12, <1>13, <1>14,
     <1>15, <1>16, <1>17, ZenonT(60) DEF Next

\* execve(2) of an ordinary file: what is not root, or root with SECURE_NOROOT,
\* is left with its ambient capabilities, root with all it could have.
LEMMA PlainExec ==
  ASSUME NEW c \in Credentials
  PROVE  LET n == AfterExec(c, Plain) IN
         /\ n.uid = c.uid /\ n.gid = c.gid /\ n.groups = c.groups
         /\ n.nnp = c.nnp /\ n.landlock = c.landlock /\ n.policy = c.policy /\ n.mode = c.mode
         /\ n.bnd = c.bnd /\ n.inh = c.inh /\ n.amb = c.amb
         /\ n.bits = c.bits \ {"KEEP_CAPS"}
         /\ c.uid # "root" \/ "NOROOT" \in c.bits => n.perm = c.amb /\ n.eff = c.amb
         /\ c.uid = "root" /\ "NOROOT" \notin c.bits /\ c.bnd = Cap /\ c.perm = Cap =>
              n.perm = Cap /\ n.eff = Cap
<1> DEFINE n      == AfterExec(c, Plain)
           asroot == c.uid = "root" /\ "NOROOT" \notin c.bits
           gained == IF asroot THEN c.bnd \cup c.inh ELSE {}
           perm   == (IF c.nnp THEN gained \cap c.perm ELSE gained) \cup c.amb
           eff    == IF asroot THEN perm ELSE c.amb
<1>1. n = [c EXCEPT !.uid = c.uid, !.perm = perm, !.amb = c.amb, !.eff = eff,
                    !.bits = @ \ {"KEEP_CAPS"}]
  BY DEF AfterExec, Plain
<1>2. ~asroot => perm = c.amb /\ eff = c.amb
  OBVIOUS
<1>3. asroot /\ c.bnd = Cap /\ c.perm = Cap => perm = Cap /\ eff = Cap
  BY DEF Credentials
<1>4. asroot <=> c.uid = "root" /\ "NOROOT" \notin c.bits
  OBVIOUS
<1> HIDE DEF perm, eff, asroot
<1>5. /\ n.uid = c.uid /\ n.gid = c.gid /\ n.groups = c.groups
      /\ n.nnp = c.nnp /\ n.landlock = c.landlock /\ n.policy = c.policy /\ n.mode = c.mode
      /\ n.bnd = c.bnd /\ n.inh = c.inh /\ n.amb = c.amb /\ n.bits = c.bits \ {"KEEP_CAPS"}
      /\ n.perm = perm /\ n.eff = eff
  BY <1>1 DEF Credentials
<1> HIDE DEF n
<1> QED
  BY <1>2, <1>3, <1>4, <1>5 DEF n

\* The last step, at once or through execve(2).
LEMMA StartLeaves ==
  ASSUME Inv, StartInv, Leave, pc' \notin Over
  PROVE  StartInv'
<1>t. cred \in Credentials /\ jail \in JailOptions
  BY EnterAssumption DEF Inv, TypeOK
<1>1. /\ pc = "leave" /\ pc' = "start" /\ UNCHANGED <<jail, caller>>
      /\ IF jail.preload THEN cred' = cred ELSE cred' = AfterExec(cred, Plain)
  BY DEF Leave, Call, Goto, Over
<1>s. pc \in Finished /\ pc \in Dropped /\ pc \in Filtered /\ pc \in Steps /\ pc \in AfterBits
  BY <1>1 DEF Finished, Dropped, Filtered, Steps, AfterFinal, Running, AfterBits
<1>2. /\ jail.uid /\ ~("keep" \in jail.suppl \/ jail.nosetgroups) => cred.groups # "caller"
      /\ jail.gid => cred.gid = "jail"
      /\ jail.uid => cred.uid = "user"
      /\ jail.use_caps /\ ~jail.preload => jail.caps = {} \/ jail.ambient
      /\ jail.use_caps =>
           cred.perm = Requested /\ cred.eff = Requested /\ (jail.ambient => cred.amb = Requested)
      /\ jail.no_new_privs => cred.nnp
      /\ jail.landlock /\ jail.ruleset => cred.landlock
      /\ jail.filter => cred.policy \subseteq jail.policy
      /\ jail.seccomp /\ ~SoftFail => cred.mode = "strict"
  BY <1>1, <1>s DEF StartInv
<1>3. /\ cred'.uid = cred.uid /\ cred'.gid = cred.gid /\ cred'.groups = cred.groups
      /\ cred'.nnp = cred.nnp /\ cred'.landlock = cred.landlock
      /\ cred'.policy = cred.policy /\ cred'.mode = cred.mode
  BY <1>t, <1>1, PlainExec
<1>4. jail.use_caps /\ (~SkipsNoRoot \/ jail.uid \/ jail.preload) =>
        cred'.perm = Requested /\ cred'.eff = Requested
  <2> SUFFICES ASSUME jail.use_caps, ~SkipsNoRoot \/ jail.uid, ~jail.preload
               PROVE  cred'.perm = Requested /\ cred'.eff = Requested
    BY <1>1, <1>2
  <2>1. cred.uid # "root" \/ "NOROOT" \in cred.bits
    BY <1>2, <1>s DEF Inv, CapsInv, Restricted
  <2>2. cred.amb = Requested
    BY <1>2 DEF Inv, CapsInv, Requested
  <2> QED
    BY <1>t, <1>1, <2>1, <2>2, PlainExec
<1>5. StartsConfined'
  BY <1>1, <1>2, <1>3, <1>4 DEF StartsConfined, Requested, SkipsNoRoot
<1> QED
  BY <1>1, <1>5 DEF StartInv, Finished, Dropped, Filtered, Drops, Steps, AfterFinal, Running

\* The first instruction of the program runs with exactly the capabilities, the
\* ids and the restrictions of its jail, whatever the jail, the caller and the
\* kernel's capabilities are.
THEOREM StartsConfinedTheorem == Spec => []StartsConfined
<1>1. Init => StartInv
  BY DEF Init, StartInv, StartsConfined, Finished, Dropped, Filtered, Drops, Steps, AfterFinal,
         Running
<1>2. Inv /\ StartInv /\ [Next]_vars => StartInv'
  <2> SUFFICES ASSUME Inv, StartInv, [Next]_vars PROVE StartInv'
    OBVIOUS
  <2>1. CASE pc' \in Over \cup {"main"}
    BY <2>1, StartInvOver
  <2>2. CASE Next /\ pc' \notin Over \cup {"main"} /\ pc # "leave"
    BY <2>2, StartSteps
  <2>3. CASE Next /\ pc' \notin Over \cup {"main"} /\ pc = "leave"
    <3>1. Leave
      BY <2>3, WhichStep, ZenonT(60)
    <3> QED
      BY <2>3, <3>1, StartLeaves
  <2>4. CASE UNCHANGED vars
    BY <2>4 DEF vars, StartInv, StartsConfined, Finished, Dropped, Filtered, AfterFinal, Requested,
                SkipsNoRoot
  <2> QED
    BY <2>1, <2>2, <2>3, <2>4
<1>3. StartInv => StartsConfined
  BY DEF StartInv
<1>4. Spec => []Inv
  BY EnterInvariant, PTL DEF Inv
<1> QED
  BY <1>1, <1>2, <1>3, <1>4, PTL DEF Spec

-----------------------------------------------------------------------------
(* Policies need not allow the calls that drop privileges.                     *)

\* With no_new_privs, each call before the filter meets only the caller's policy.
LEMMA BeforeFilter ==
  ASSUME TypeOK, Next, jail.no_new_privs, cred.policy = Calls, pc \in Unfiltered \ {"filter"}
  PROVE  /\ pc' # "killed" /\ pc' \in Unfiltered \cup {"dead"}
         /\ UNCHANGED <<jail, caller>> /\ cred'.policy = Calls
<1>t. cred \in Credentials
  BY DEF TypeOK
<1>u. Unfiltered = {"run", "checks", "bset", "bits", "groups", "gid", "uid", "clean", "bound",
                    "final", "ambient", "nnp", "landlock", "filter"}
  BY DEF Unfiltered, Filtered, Steps
<1> USE DEF Calls, Call, Goto
<1>1. CASE Run
  <2>1. AfterExec(cred, Plain).policy = cred.policy
    BY <1>t, PlainExec
  <2> QED
    BY <1>u, <1>1, <2>1 DEF Run
<1>2. CASE Checks
  BY <1>u, <1>2 DEF Checks
<1>3. CASE DropBoundingOnly
  BY <1>t, <1>u, <1>3 DEF DropBoundingOnly, DropCapbset, Credentials
<1>4. CASE LockSecurebits
  BY <1>t, <1>u, <1>4 DEF LockSecurebits, FirstDrop, FilterFirst, Credentials
<1>5. CASE SetGroups
  BY <1>t, <1>u, <1>5 DEF SetGroups, Credentials
<1>6. CASE SetGid
  BY <1>t, <1>u, <1>6 DEF SetGid, Credentials
<1>7. CASE SetUid
  BY <1>t, <1>u, <1>7, ZenonT(60) DEF SetUid, AfterSetUid, Credentials
<1>8. CASE CleanCaps
  BY <1>t, <1>u, <1>8, ZenonT(60) DEF CleanCaps, AfterCaps, FilterFirst, Capset, Credentials
<1>9. CASE DropBounding
  BY <1>t, <1>u, <1>9 DEF DropBounding, DropCapbset, Credentials
<1>10. CASE FinalCaps
  BY <1>t, <1>u, <1>10 DEF FinalCaps, Capset, Credentials
<1>11. CASE RaiseAmbient
  BY <1>t, <1>u, <1>11 DEF RaiseAmbient, AfterCaps, FilterFirst, Credentials
<1>12. CASE SetNoNewPrivs
  BY <1>t, <1>u, <1>12 DEF SetNoNewPrivs, Credentials
<1>13. CASE ApplyLandlock
  BY <1>t, <1>u, <1>13 DEF ApplyLandlock, Credentials
<1>14. /\ ~SetSeccompFilter /\ ~AltSyscall /\ ~Strict /\ ~Leave
       /\ ~ProgramExec /\ ~ProgramCapset /\ ~ProgramAmbient /\ ~ProgramBits /\ ~ProgramSetUid
  BY <1>u DEF SetSeccompFilter, AltSyscall, Strict, Leave, ProgramExec, ProgramCapset,
     ProgramAmbient, ProgramBits, ProgramSetUid, Running
<1> QED
  BY <1>1, <1>2, <1>3, <1>4, <1>5, <1>6, <1>7, <1>8, <1>9, <1>10, <1>11, <1>12, <1>13, <1>14, ZenonT(60)
DEF Next

\* From the filter on, only the jail's own policy and strict mode forbid calls.
LEMMA PolicySteps ==
  ASSUME Inv, PolicyInv, Next
  PROVE  PolicyInv'
<1>t. cred \in Credentials /\ jail \in JailOptions
  BY EnterAssumption DEF Inv, TypeOK
<1>f. UNCHANGED <<jail, caller>> /\ pc \notin Over
  BY WhichStep
<1>0. SUFFICES ASSUME jail.no_new_privs, caller.policy = Calls PROVE PolicyInv'
  BY <1>f DEF PolicyInv, PolicyNeedsNoDrops
<1>u. Unfiltered = {"run", "checks", "bset", "bits", "groups", "gid", "uid", "clean", "bound",
                    "final", "ambient", "nnp", "landlock", "filter"}
  BY <1>0 DEF Unfiltered, Filtered, Steps
<1>v. Unfiltered' = Unfiltered
  BY <1>f DEF Unfiltered, Filtered
<1>1. CASE pc \in Unfiltered \ {"filter"}
  <2>1. cred.policy = Calls
    BY <1>0, <1>1 DEF PolicyInv
  <2>2. pc' # "killed" /\ pc' \in Unfiltered \cup {"dead"} /\ cred'.policy = Calls
    BY <1>0, <1>1, <2>1, BeforeFilter DEF Inv
  <2> QED
    BY <1>u, <1>v, <2>2 DEF PolicyInv, PolicyNeedsNoDrops
<1>2. CASE pc = "filter"
  <2>1. cred.policy = Calls
    BY <1>0, <1>2, <1>u DEF PolicyInv
  <2>2. SetSeccompFilter
    BY <1>2, WhichStep
  <2>3. pc' \in {"alt", "dead"} /\ (pc' = "alt" => jail.policy \subseteq cred'.policy)
    <3>1. pc' \in {"alt", "dead"}
      BY <1>0, <2>1, <2>2 DEF SetSeccompFilter, Call, Goto, AfterFilter, FilterFirst, Calls
    <3>2. pc' = "alt" =>
            cred'.policy = IF jail.filter THEN cred.policy \cap jail.policy ELSE cred.policy
      BY <2>2, RestrictEffects DEF Inv, Over
    <3> QED
      BY <1>t, <2>1, <3>1, <3>2 DEF JailOptions
  <2> QED
    BY <1>u, <1>v, <1>f, <2>3 DEF PolicyInv, PolicyNeedsNoDrops
<1>3. CASE pc \in {"alt", "strict"}
  <2>1. jail.policy \subseteq cred.policy
    BY <1>0, <1>3 DEF PolicyInv
  <2>2. AltSyscall \/ Strict
    BY <1>3, WhichStep
  <2>3. CASE AltSyscall
    <3>1. /\ pc' \in {"strict", "dead", "killed"} /\ cred' = cred
          /\ pc' = "killed" => "prctl" \notin cred.policy /\ jail.alt_syscall
      BY <2>3 DEF AltSyscall, Call, Goto
    <3> QED
      BY <1>u, <1>v, <1>f, <2>1, <3>1 DEF PolicyInv, PolicyNeedsNoDrops
  <2>4. CASE Strict
    <3>1. /\ pc' \in {"leave", "dead", "killed"}
          /\ pc' = "killed" => "prctl" \notin cred.policy /\ jail.seccomp
          /\ ~jail.seccomp => cred' = cred
      BY <2>4 DEF Strict, Call, Goto
    <3> QED
      BY <1>u, <1>v, <1>f, <2>1, <3>1 DEF PolicyInv, PolicyNeedsNoDrops
  <2> QED
    BY <2>2, <2>3, <2>4
<1>4. CASE pc = "leave"
  <2>1. jail.seccomp \/ jail.policy \subseteq cred.policy
    BY <1>0, <1>4 DEF PolicyInv
  <2>2. Leave
    BY <1>4, WhichStep
  <2>3. /\ pc' \in {"start", "killed"}
        /\ pc' = "killed" => ~jail.preload /\ "execve" \notin cred.policy
    BY <2>2 DEF Leave, Call, Goto
  <2> QED
    BY <1>u, <1>v, <1>f, <2>1, <2>3 DEF PolicyInv, PolicyNeedsNoDrops
<1>5. CASE pc \in Running
  <2>1. pc' = "main"
    BY <1>5, WhichStep
  <2> QED
    BY <1>u, <1>v, <2>1 DEF PolicyInv, PolicyNeedsNoDrops
<1> QED
  BY <1>1, <1>2, <1>3, <1>4, <1>5, <1>f, <1>u DEF Inv, TypeOK, Steps

\* "This way filter policies don't need to allow privilege-dropping syscalls": for
\* every policy, with no_new_privs only calls that the program needs itself, or
\* that the alternate table and strict mode need, can end minijail_enter().
THEOREM PolicyTheorem == Spec => []PolicyNeedsNoDrops
<1>1. Init => PolicyInv
  BY DEF Init, PolicyInv, PolicyNeedsNoDrops
<1>2. Inv /\ PolicyInv /\ [Next]_vars => PolicyInv'
  <2> SUFFICES ASSUME Inv, PolicyInv, [Next]_vars PROVE PolicyInv'
    OBVIOUS
  <2>1. CASE UNCHANGED vars
    BY <2>1 DEF vars, PolicyInv, PolicyNeedsNoDrops, Unfiltered, Filtered
  <2> QED
    BY <2>1, PolicySteps
<1>3. PolicyInv => PolicyNeedsNoDrops
  BY DEF PolicyInv
<1>4. Spec => []Inv
  BY EnterInvariant, PTL DEF Inv
<1> QED
  BY <1>1, <1>2, <1>3, <1>4, PTL DEF Spec

-----------------------------------------------------------------------------
(* A privileged caller always gets through a sensible jail.                    *)

\* execve(2) of the program with the library, or none, leaves the caller able.
LEMMA PrivilegeRun ==
  ASSUME Inv, PrivilegeInv, Run, Privileged, Sensible
  PROVE  PrivilegeInv'
<1>t. cred \in Credentials /\ cred.amb \subseteq cred.perm \cap cred.inh /\ jail \in JailOptions
  BY EnterAssumption, ZenonT(60) DEF Inv, TypeOK, CapsInv
<1>1. pc = "run" /\ cred = caller /\ cred.policy = Calls /\ cred.mode = "off"
  BY DEF PrivilegeInv, Run, Privileged
<1>2. /\ pc' = "checks" /\ UNCHANGED <<jail, caller>>
      /\ IF jail.preload THEN cred' = AfterExec(cred, Plain) ELSE cred' = cred
  BY <1>1 DEF Run, Call, Goto, Calls, Sensible
<1>3. cred'.policy = Calls /\ cred'.mode = "off"
  BY <1>t, <1>1, <1>2, PlainExec
<1>4. Able'
  <2>1. CASE \A field \in DOMAIN AsBooted : caller[field] = AsBooted[field]
    <3>1. /\ cred.uid = "root" /\ cred.perm = Cap /\ cred.eff = Cap /\ cred.bnd = Cap
          /\ cred.bits = {}
      BY <1>1, <2>1 DEF AsBooted
    <3>2. /\ cred'.uid = "root" /\ cred'.perm = Cap /\ cred'.eff = Cap /\ cred'.bnd = Cap
          /\ cred'.bits = {}
      BY <1>t, <1>2, <3>1, PlainExec
    <3> QED
      BY <3>2 DEF Able
  <2>2. CASE /\ jail.ambient /\ jail.skip = {}
             /\ caller.bits = SecureBits \ {"KEEP_CAPS", "NO_CAP_AMBIENT_RAISE",
                                            "NO_CAP_AMBIENT_RAISE_LOCKED"}
             /\ AdminCaps \cup Requested \subseteq caller.amb \cap caller.eff \cap caller.bnd
    <3>1. "NOROOT" \in cred.bits /\ cred.bits \ {"KEEP_CAPS"} = cred.bits
      BY <1>1, <2>2 DEF SecureBits, Flags
    <3>2. /\ cred'.bits = cred.bits /\ cred'.bnd = cred.bnd
          /\ cred.amb \cap cred.eff \subseteq cred'.perm \cap cred'.eff
      BY <1>t, <1>2, <3>1, PlainExec, ZenonT(60)
    <3> QED
      BY <1>1, <1>2, <2>2, <3>2 DEF Able, Requested
  <2> QED
    BY <2>1, <2>2 DEF Privileged, Requested
<1>5. pc' \in Steps /\ pc' \notin Filtered'
  BY <1>2 DEF Steps, Filtered, Drops
<1> QED
  BY <1>2, <1>3, <1>4, <1>5 DEF PrivilegeInv, Unfiltered, Drops, Over

\* The checks, and a bounding set that is dropped on its own: never together with
\* minijail_use_caps().
LEMMA PrivilegeFirst ==
  ASSUME Inv, PrivilegeInv, Checks \/ DropBoundingOnly, Privileged, Sensible
  PROVE  PrivilegeInv'
<1>t. /\ cred \in Credentials /\ jail \in JailOptions /\ AdminCaps \subseteq Cap
      /\ ~(jail.capbset_drop /\ jail.use_caps)
  BY EnterAssumption DEF Inv, TypeOK
<1>1. pc \in {"checks", "bset"}
  BY DEF Checks, DropBoundingOnly
<1>2. Able /\ cred.policy = Calls /\ cred.mode = "off"
  BY <1>1 DEF PrivilegeInv, Unfiltered, Filtered, Steps, Drops
<1>3. AdminCaps \subseteq cred.eff
  BY <1>t, <1>2 DEF Able
<1>4. /\ pc' \in {"bset", "bits"} /\ UNCHANGED <<jail, caller>>
      /\ \/ cred' = cred
         \/ ~jail.use_caps /\ cred' = [cred EXCEPT !.bnd = @ \cap jail.cap_bset]
  <2>1. CASE Checks
    <3>1. "SYS_ADMIN" \in cred.eff /\ ("inherit" \in jail.suppl => jail.user)
      BY <1>3 DEF AdminCaps, Sensible
    <3>2. pc' = "bset" /\ UNCHANGED <<jail, caller, cred>>
      BY <2>1, <3>1 DEF Checks, Goto
    <3> QED
      BY <3>2
  <2>2. CASE DropBoundingOnly
    <3>1. "SETPCAP" \in cred.eff /\ "prctl" \in cred.policy
      BY <1>2, <1>3 DEF AdminCaps, Calls
    <3>2. /\ pc' = "bits" /\ UNCHANGED <<jail, caller>>
          /\ \/ cred' = cred
             \/ jail.capbset_drop /\ cred' = [cred EXCEPT !.bnd = @ \cap jail.cap_bset]
      BY <2>2, <3>1 DEF DropBoundingOnly, DropCapbset, Call, Goto
    <3> QED
      BY <1>t, <3>2
  <2> QED
    BY <2>1, <2>2
<1>5. /\ cred'.policy = Calls /\ cred'.mode = "off"
      /\ cred'.uid = cred.uid /\ cred'.perm = cred.perm /\ cred'.eff = cred.eff
      /\ cred'.bits = cred.bits /\ (jail.use_caps => cred'.bnd = cred.bnd)
  BY <1>t, <1>2, <1>4 DEF Credentials
<1>6. Able'
  BY <1>2, <1>4, <1>5 DEF Able, Requested
<1>7. pc' \in Steps /\ pc' \notin Filtered'
  BY <1>4 DEF Steps, Filtered, Drops
<1> QED
  BY <1>4, <1>5, <1>6, <1>7 DEF PrivilegeInv, Unfiltered, Drops, Over

\* lock_securebits() is allowed, and leaves a bit that protects the capabilities
\* from setresuid(2).
LEMMA PrivilegeLock ==
  ASSUME Inv, PrivilegeInv, LockSecurebits, Privileged, Sensible
  PROVE  PrivilegeInv'
<1>t. cred \in Credentials /\ jail \in JailOptions /\ AdminCaps \subseteq Cap
  BY EnterAssumption DEF Inv, TypeOK
<1>1. pc = "bits" /\ Able /\ cred.policy = Calls /\ cred.mode = "off"
  BY DEF LockSecurebits, PrivilegeInv, Unfiltered, Filtered, Steps, Drops
<1>2. /\ AdminCaps \subseteq cred.eff
      /\ jail.use_caps => Kept \subseteq cred.perm \cap cred.bnd
  BY <1>t, <1>1 DEF Able, Kept, Requested, AdminCaps
<1>3. "NO_CAP_AMBIENT_RAISE" \notin BitsToSet /\ BitsToSet \subseteq SecureBits
  BY DEF BitsToSet
<1>4. jail.use_caps => /\ {"NO_SETUID_FIXUP", "KEEP_CAPS"} \cap BitsToSet # {}
                       /\ MaySetBits(cred, BitsToSet)
  <2> SUFFICES ASSUME jail.use_caps
               PROVE  /\ {"NO_SETUID_FIXUP", "KEEP_CAPS"} \cap BitsToSet # {}
                      /\ MaySetBits(cred, BitsToSet)
    OBVIOUS
  <2>1. CASE cred.bits = {}
    <3>1. BitsToSet = (SecureBits \ {"NO_CAP_AMBIENT_RAISE", "NO_CAP_AMBIENT_RAISE_LOCKED"})
                        \ jail.skip
      BY <2>1 DEF BitsToSet
    <3>2. {"NO_SETUID_FIXUP", "KEEP_CAPS"} \cap BitsToSet # {}
      BY <3>1 DEF Sensible, SecureBits, Flags
    <3>3. MaySetBits(cred, BitsToSet)
      BY <1>2, <2>1 DEF MaySetBits, AdminCaps, LockPairs
    <3> QED
      BY <3>2, <3>3
  <2>2. CASE /\ jail.ambient /\ jail.skip = {}
             /\ cred.bits = SecureBits \ {"KEEP_CAPS", "NO_CAP_AMBIENT_RAISE",
                                          "NO_CAP_AMBIENT_RAISE_LOCKED"}
    <3>1. BitsToSet = cred.bits
      BY <2>2 DEF BitsToSet, SecureBits, Flags, Locks
    <3>2. "NO_SETUID_FIXUP" \in BitsToSet
      BY <2>2, <3>1 DEF SecureBits, Flags
    <3>3. MaySetBits(cred, BitsToSet)
      BY <1>2, <3>1 DEF MaySetBits, AdminCaps
    <3> QED
      BY <3>2, <3>3
  <2> QED
    BY <1>1, <2>1, <2>2 DEF Able
<1>5. /\ UNCHANGED <<jail, caller>>
      /\ pc' = IF jail.no_new_privs THEN "groups" ELSE "landlock"
      /\ IF jail.use_caps THEN cred' = [cred EXCEPT !.bits = BitsToSet] ELSE cred' = cred
  BY <1>1, <1>4 DEF LockSecurebits, Call, Goto, FirstDrop, FilterFirst, Calls
<1>6. /\ cred'.policy = Calls /\ cred'.mode = "off"
      /\ cred'.perm = cred.perm /\ cred'.eff = cred.eff /\ cred'.bnd = cred.bnd
      /\ jail.use_caps => cred'.bits = BitsToSet
  BY <1>t, <1>1, <1>5 DEF Credentials
<1>7. pc' \in Steps /\ pc' \notin Filtered'
  BY <1>5 DEF Steps, Filtered, Drops
<1>8. Kept' = Kept
  BY <1>5 DEF Kept, Requested
<1> QED
  BY <1>2, <1>3, <1>4, <1>5, <1>6, <1>7, <1>8 DEF PrivilegeInv, Unfiltered, Drops, Over

\* drop_ugid() has CAP_SETGID and CAP_SETUID.
LEMMA PrivilegeIds ==
  ASSUME Inv, PrivilegeInv, SetGroups \/ SetGid \/ SetUid, Privileged, Sensible
  PROVE  PrivilegeInv'
<1>t. TypeOK /\ jail \in JailOptions
  BY EnterAssumption DEF Inv, TypeOK
<1>1. pc \in {"groups", "gid", "uid"}
  BY DEF SetGroups, SetGid, SetUid
<1>2. /\ AdminCaps \subseteq cred.eff
      /\ jail.use_caps => /\ {"NO_SETUID_FIXUP", "KEEP_CAPS"} \cap cred.bits # {}
                          /\ "NO_CAP_AMBIENT_RAISE" \notin cred.bits
                          /\ Kept \subseteq cred.perm \cap cred.bnd
  BY <1>1 DEF PrivilegeInv, Drops
<1>p. "ids" \in cred.policy /\ "SETGID" \in cred.eff /\ "SETUID" \in cred.eff
  <2>1. CASE jail.no_new_privs
    BY <1>1, <1>2, <2>1, ZenonT(60) DEF PrivilegeInv, Unfiltered, Filtered, Steps, Calls, AdminCaps
  <2>2. CASE ~jail.no_new_privs
    BY <1>1, <1>2, <2>2 DEF PrivilegeInv, Filtered, Drops, Sensible, Calls, AdminCaps
  <2> QED
    BY <2>1, <2>2
<1>3. pc' \notin Over
  <2>1. CASE SetGroups
    <3>1. Cardinality(jail.suppl) \in {0, 1}
      <4>1. Cardinality(jail.suppl) <= 1
        BY DEF Sensible
      <4>2. Cardinality(jail.suppl) \in Nat
        BY <1>t, GroupsFinite, FS_CardinalityType DEF JailOptions
      <4> QED
        BY <4>1, <4>2
    <3>2. /\ jail.suppl = {"inherit"} \/ jail.suppl = {"set"} => MaySetGroups
          /\ ~jail.nosetgroups => MaySetGroups
      BY <1>p DEF MaySetGroups, Sensible
    <3> QED
      BY <1>p, <2>1, <3>1, <3>2 DEF SetGroups, Call, Goto, Over
  <2>2. CASE SetGid
    BY <1>p, <2>2 DEF SetGid, Call, Goto, Over
  <2>3. CASE SetUid
    BY <1>p, <2>3 DEF SetUid, Call, Goto, Over
  <2> QED
    BY <2>1, <2>2, <2>3
<1>4. /\ UNCHANGED <<jail, caller>> /\ SameBits /\ SameRestrictions /\ cred'.bnd = cred.bnd
      /\ \/ pc = "groups" /\ pc' = "gid" /\ SameCaps
         \/ pc = "gid" /\ pc' = "uid" /\ SameCaps
         \/ /\ pc = "uid" /\ pc' = "clean"
            /\ jail.use_caps => cred'.perm = cred.perm
  BY <1>t, <1>2, <1>3, IdEffects DEF SameCaps
<1>5. Kept' = Kept /\ Filtered' = Filtered
  BY <1>4 DEF Kept, Requested, Filtered
<1>6. pc \in Filtered <=> pc' \in Filtered
  BY <1>4 DEF Filtered, Drops
<1>7. pc \in Steps /\ pc' \in Steps
  BY <1>4, ZenonT(60) DEF Steps
<1> QED
  BY <1>2, <1>4, <1>5, <1>6, <1>7
     DEF PrivilegeInv, Unfiltered, Drops, Over, SameCaps, SameBits, SameRestrictions

\* drop_caps() has CAP_SETPCAP, and the requested capabilities all along.
LEMMA PrivilegeCaps ==
  ASSUME Inv, PrivilegeInv, CleanCaps \/ DropBounding \/ FinalCaps \/ RaiseAmbient,
         Privileged, Sensible
  PROVE  PrivilegeInv'
<1>t. TypeOK /\ jail \in JailOptions
  BY EnterAssumption DEF Inv, TypeOK
<1>1. pc \in {"clean", "bound", "final", "ambient"}
  BY DEF CleanCaps, DropBounding, FinalCaps, RaiseAmbient
<1>2. /\ jail.use_caps => "NO_CAP_AMBIENT_RAISE" \notin cred.bits
      /\ jail.use_caps /\ pc = "clean" => Kept \subseteq cred.perm \cap cred.bnd
      /\ pc \in {"bound", "final"} => Kept = cred.perm /\ Kept = cred.eff /\ Kept = cred.inh
      /\ pc = "ambient" => Requested = cred.perm /\ Requested = cred.inh
      /\ pc \in {"bound", "final", "ambient"} => jail.use_caps
  BY <1>1 DEF PrivilegeInv, Drops
<1>p. "capset" \in cred.policy /\ "prctl" \in cred.policy
  <2>1. CASE jail.no_new_privs
    BY <1>1, <2>1, ZenonT(60) DEF PrivilegeInv, Unfiltered, Filtered, Steps, Calls
  <2>2. CASE ~jail.no_new_privs
    BY <1>1, <2>2 DEF PrivilegeInv, Filtered, Drops, Sensible, Calls
  <2> QED
    BY <2>1, <2>2
<1>c. AfterCaps \in {"nnp", "alt"}
  BY DEF AfterCaps
<1>3. pc' \notin Over
  <2>1. CASE CleanCaps
    <3>1. pc = "clean" /\ (jail.use_caps => MayCapset(cred, Kept, Kept))
      BY <1>2, <2>1 DEF CleanCaps, MayCapset
    <3> QED
      BY <1>p, <1>c, <2>1, <3>1 DEF CleanCaps, Kept, Call, Goto, Over
  <2>2. CASE DropBounding
    <3>1. "SETPCAP" \in cred.eff
      BY <1>2, <2>2 DEF DropBounding, Kept
    <3> QED
      BY <1>p, <2>2, <3>1 DEF DropBounding, DropCapbset, Call, Goto, Over
  <2>3. CASE FinalCaps
    <3>1. MayCapset(cred, Requested, Requested)
      BY <1>2, <2>3 DEF FinalCaps, MayCapset, Kept
    <3> QED
      BY <1>p, <2>3, <3>1 DEF FinalCaps, Call, Over
  <2>4. CASE RaiseAmbient
    <3>1. Requested \subseteq cred.perm \cap cred.inh /\ "NO_CAP_AMBIENT_RAISE" \notin cred.bits
      BY <1>2, <2>4 DEF RaiseAmbient
    <3> QED
      BY <1>p, <1>c, <2>4, <3>1 DEF RaiseAmbient, Call, Goto, Over
  <2> QED
    BY <2>1, <2>2, <2>3, <2>4, ZenonT(60)
<1>4. /\ UNCHANGED <<jail, caller>> /\ SameBits /\ SameRestrictions
      /\ \/ /\ pc = "clean" /\ jail.use_caps /\ pc' = "bound"
            /\ cred'.perm = Kept /\ cred'.eff = Kept /\ cred'.inh = Kept
         \/ pc = "clean" /\ ~jail.use_caps /\ pc' = AfterCaps
         \/ /\ pc = "bound" /\ pc' = "final"
            /\ cred'.perm = cred.perm /\ cred'.eff = cred.eff /\ cred'.inh = cred.inh
         \/ /\ pc = "final" /\ pc' = "ambient"
            /\ cred'.perm = Requested /\ cred'.inh = Requested
         \/ pc = "ambient" /\ pc' = AfterCaps
  BY <1>t, <1>3, CapEffects
<1>5. Kept' = Kept /\ Filtered' = Filtered /\ Requested' = Requested
  BY <1>4 DEF Kept, Requested, Filtered
<1>6. pc \in Filtered <=> pc' \in Filtered
  BY <1>4 DEF Filtered, Drops, AfterCaps, FilterFirst
<1>7. pc \in Steps /\ pc' \in Steps
  BY <1>4, <1>c DEF Steps
<1> QED
  BY <1>2, <1>3, <1>4, <1>5, <1>6, <1>7, SMTT(30), ZenonT(60)
DEF PrivilegeInv, Unfiltered, Drops, SameBits, SameRestrictions, AfterCaps, FilterFirst

\* Landlock and the filter are open to the process: it has CAP_SYS_ADMIN when
\* they come first, and no_new_privs when they come last.
LEMMA PrivilegeRestrict ==
  ASSUME Inv, PrivilegeInv, SetNoNewPrivs \/ ApplyLandlock \/ SetSeccompFilter,
         Privileged, Sensible
  PROVE  PrivilegeInv'
<1>t. TypeOK /\ jail \in JailOptions
  BY EnterAssumption DEF Inv, TypeOK
<1>1. pc \in {"nnp", "landlock", "filter"}
  BY ZenonT(60) DEF SetNoNewPrivs, ApplyLandlock, SetSeccompFilter
<1>2. cred.policy = Calls /\ cred.mode = "off"
  BY <1>1 DEF PrivilegeInv, Unfiltered, Filtered, Steps, Drops
<1>m. pc \in {"landlock", "filter"} => MayRestrict(cred)
  BY DEF PrivilegeInv, MayRestrict, AdminCaps
<1>f. AfterFilter = IF jail.no_new_privs THEN "alt" ELSE "groups"
  BY DEF AfterFilter, FilterFirst
<1>3. pc' \notin Over
  <2>1. CASE SetNoNewPrivs
    BY <1>2, <2>1 DEF SetNoNewPrivs, Call, Calls, Over
  <2>2. CASE ApplyLandlock
    BY <1>2, <1>m, <2>2 DEF ApplyLandlock, Call, Goto, Calls, Over
  <2>3. CASE SetSeccompFilter
    <3>1. MayRestrict(cred) /\ cred.mode # "strict" /\ "restrict" \in cred.policy
      BY <1>2, <1>m, <2>3 DEF SetSeccompFilter, Calls
    <3> QED
      BY <1>f, <2>3, <3>1 DEF SetSeccompFilter, Call, Goto, Over
  <2> QED
    BY <2>1, <2>2, <2>3
<1>4. /\ UNCHANGED <<jail, caller>> /\ SameCaps /\ SameBits
      /\ \/ /\ pc = "nnp" /\ pc' = "landlock" /\ cred'.nnp
            /\ cred'.policy = cred.policy /\ cred'.mode = cred.mode
         \/ /\ pc = "landlock" /\ pc' = "filter" /\ cred'.nnp = cred.nnp
            /\ cred'.policy = cred.policy /\ cred'.mode = cred.mode
         \/ /\ pc = "filter" /\ pc' = AfterFilter
            /\ cred'.policy = IF jail.filter THEN cred.policy \cap jail.policy ELSE cred.policy
  BY <1>t, <1>3, RestrictEffects
<1>n. pc = "nnp" => jail.no_new_privs
  BY DEF PrivilegeInv
<1>5. Kept' = Kept /\ Filtered' = Filtered
  BY <1>4 DEF Kept, Requested, Filtered
<1>6. /\ pc \notin Filtered /\ pc \in Steps /\ pc' \in Steps
      /\ pc' \in Filtered <=> pc = "filter"
  BY <1>1, <1>4, <1>f DEF Filtered, Steps, Drops
<1>7. pc = "filter" => cred'.policy = IF jail.filter THEN jail.policy ELSE Calls
  <2>1. Calls \cap jail.policy = jail.policy
    BY <1>t, ZenonT(60) DEF JailOptions
  <2> QED
    BY <1>2, <1>4, <2>1, ZenonT(60)
<1>8. CASE pc = "nnp"
  BY <1>2, <1>4, <1>5, <1>6, <1>8, <1>n, ZenonT(60)
DEF PrivilegeInv, Unfiltered, Drops, SameBits, SameCaps, Over
<1>10. CASE pc = "landlock"
  BY <1>2, <1>4, <1>5, <1>6, <1>10, ZenonT(60)
DEF PrivilegeInv, Unfiltered, Drops, SameBits, SameCaps, Over
<1>9. CASE pc = "filter"
  BY <1>2, <1>4, <1>5, <1>6, <1>7, <1>9, <1>f
     DEF PrivilegeInv, Unfiltered, Drops, SameBits, SameCaps, Over
<1> QED
  BY <1>1, <1>8, <1>9, <1>10

\* The alternate system calls and strict mode are not asked for; the policy lets
\* the process execute the program.
LEMMA PrivilegeEnd ==
  ASSUME Inv, PrivilegeInv, AltSyscall \/ Strict \/ Leave, Privileged, Sensible
  PROVE  PrivilegeInv'
<1>t. jail \in JailOptions
  BY EnterAssumption DEF Inv, TypeOK
<1>1. pc \in Filtered /\ pc \in {"alt", "strict", "leave"}
  BY ZenonT(60) DEF AltSyscall, Strict, Leave, Filtered
<1>2. cred.policy = IF jail.filter THEN jail.policy ELSE Calls
  BY <1>1 DEF PrivilegeInv
<1>3. /\ UNCHANGED <<jail, caller>>
      /\ \/ pc' \in {"strict", "leave"} /\ cred' = cred
         \/ pc' = "start"
  <2>1. CASE AltSyscall \/ Strict
    BY <2>1 DEF AltSyscall, Strict, Goto, Sensible
  <2>2. CASE Leave
    <3>1. ~jail.preload => "execve" \in cred.policy
      BY <1>2 DEF Sensible, Calls
    <3> QED
      BY <2>2, <3>1 DEF Leave, Call, Goto
  <2> QED
    BY <2>1, <2>2
<1>4. /\ Filtered' = Filtered /\ (pc' # "start" => pc' \in Filtered)
      /\ "start" \notin Steps /\ "start" \notin Filtered
  BY <1>3, ZenonT(60) DEF Filtered, Steps, Drops
<1>5. CASE pc' = "start"
  BY <1>4, <1>5, ZenonT(60) DEF PrivilegeInv, Unfiltered, Drops, Over
<1>6. CASE pc' # "start"
  BY <1>2, <1>3, <1>4, <1>6, ZenonT(60) DEF PrivilegeInv, Unfiltered, Drops, Over
<1> QED
  BY <1>5, <1>6

\* The order of the calls gives each of them the privilege it needs, for every
\* kernel, caller and jail: minijail_enter() never dies, and no policy kills it,
\* when a privileged caller enters a sensible jail.
THEOREM PrivilegeTheorem == Spec => []PrivilegeLasts
<1>1. Init => PrivilegeInv
  <2> SUFFICES ASSUME Init, Privileged, Sensible PROVE PrivilegeInv
    BY DEF PrivilegeInv
  <2>1. cred = caller /\ pc = "run" /\ cred.policy = Calls /\ cred.mode = "off"
    BY DEF Init, Privileged
  <2> QED
    BY <2>1 DEF PrivilegeInv, Filtered, Drops, Over
<1>2. Inv /\ PrivilegeInv /\ [Next]_vars => PrivilegeInv'
  <2> SUFFICES ASSUME Inv, PrivilegeInv, [Next]_vars PROVE PrivilegeInv'
    OBVIOUS
  <2>1. CASE UNCHANGED vars
    <3>1. UNCHANGED <<jail, caller, cred, pc>>
      BY <2>1 DEF vars
    <3>2. /\ Privileged' <=> Privileged
          /\ Sensible' <=> Sensible
      BY <3>1 DEF Privileged, Sensible
    <3>3. Kept' = Kept /\ Requested' = Requested /\ Filtered' = Filtered /\ Unfiltered' = Unfiltered
      BY <3>1 DEF Kept, Requested, Filtered, Unfiltered
    <3>4. Able' <=> Able
      BY <3>1, <3>3 DEF Able
    <3> QED
      BY <3>1, <3>2, <3>3, <3>4 DEF PrivilegeInv
  <2>2. CASE Next
    <3>1. (Privileged' <=> Privileged) /\ (Sensible' <=> Sensible)
      BY <2>2, WhichStep, ZenonT(60) DEF Privileged, Sensible
    <3> SUFFICES ASSUME Privileged, Sensible PROVE PrivilegeInv'
      BY <3>1, ZenonT(60) DEF PrivilegeInv
    <3>2. CASE pc \in Running
      BY <2>2, <3>2, WhichStep DEF PrivilegeInv, Unfiltered, Filtered, Steps, Drops, Over
    <3>3. CASE pc \notin Running
      BY <2>2, <3>3, PrivilegeRun, PrivilegeFirst, PrivilegeLock, PrivilegeIds, PrivilegeCaps,
         PrivilegeRestrict, PrivilegeEnd, ZenonT(60)
DEF Next, ProgramExec, ProgramCapset, ProgramAmbient, ProgramBits, ProgramSetUid
    <3> QED
      BY <3>2, <3>3
  <2> QED
    BY <2>1, <2>2, ZenonT(60)
<1>3. PrivilegeInv => PrivilegeLasts
  BY DEF PrivilegeInv, PrivilegeLasts
<1>4. Spec => []Inv
  BY EnterInvariant, PTL DEF Inv
<1> QED
  BY <1>1, <1>2, <1>3, <1>4, PTL DEF Spec

=============================================================================
