---------------------------- MODULE MountsProofs ----------------------------
(* Theorems about Mounts: what the jail does to its file system stays inside,  *)
(* the temporary /dev is gone in the end, bind mounts have the flags that were *)
(* asked for, and the program finds what was mounted for it.                   *)
EXTENDS Mounts, SequenceTheorems, WellFoundedInduction, TLAPS

-----------------------------------------------------------------------------
(* Sequences and sets of numbers.                                              *)

\* A set of numbers up to n that is not empty has a largest element: the mount on
\* /proc that remount_proc_readonly() removes is one of the jail's mounts.
LEMMA LargestOf ==
  ASSUME NEW n \in Nat, NEW S \in SUBSET (1..n), S # {}
  PROVE  Max(S) \in S
<1> DEFINE T == {n - x : x \in S}
           R == OpToRel(<, Nat)
<1>1. T \subseteq Nat /\ T # {}
  <2>1. \A x \in S : x \in Nat /\ n - x \in Nat
    OBVIOUS
  <2> QED BY <2>1, ZenonT(60)
<1>2. IsWellFoundedOn(R, Nat)
  BY NatLessThanWellFounded, ZenonT(60)
<1>3. PICK t \in T : \A y \in T : ~(<<y, t>> \in R)
  <2> HIDE DEF T, R
  <2> QED BY <1>1, <1>2, WFMin, ZenonT(60)
<1>4. \A y \in T : y >= t
  <2> TAKE y \in T
  <2>1. y \in Nat /\ t \in Nat
    BY <1>1
  <2>2. ~(y < t)
    BY <1>3, <2>1, ZenonT(60) DEF OpToRel
  <2> QED BY <2>1, <2>2
<1>5. PICK x \in S : t = n - x
  OBVIOUS
<1>6. \A y \in S : x >= y
  <2> TAKE y \in S
  <2>1. n - y >= n - x
    BY <1>4, <1>5, ZenonT(60)
  <2>2. x \in Nat /\ y \in Nat
    <3> HIDE DEF T, R
    <3> QED OBVIOUS
  <2> QED BY <2>1, <2>2
<1> QED
  BY <1>5, <1>6, ZenonT(60) DEF Max

\* Removing the mount at position x keeps the others, and nothing but them.
LEMMA Removed ==
  ASSUME NEW x \in DOMAIN made, made \in Seq(Made)
  PROVE  /\ WithoutMount(x) \in Seq(Made)
         /\ \A k \in DOMAIN WithoutMount(x) : \E l \in DOMAIN made : WithoutMount(x)[k] = made[l]
         /\ \A l \in DOMAIN made \ {x} : \E k \in DOMAIN WithoutMount(x) : WithoutMount(x)[k] = made[l]
<1> DEFINE a == SubSeq(made, 1, x - 1)
           b == SubSeq(made, x + 1, Len(made))
           r == a \o b
<1>1. x \in 1 .. Len(made) /\ Len(made) \in Nat
  OBVIOUS
<1>2. /\ a \in Seq(Made) /\ Len(a) = x - 1
      /\ \A k \in 1 .. (x - 1) : a[k] = made[k]
  BY <1>1
<1>3. /\ b \in Seq(Made) /\ Len(b) = Len(made) - x
      /\ \A k \in 1 .. (Len(made) - x) : b[k] = made[x + k]
  BY <1>1
<1>4. WithoutMount(x) = r
  BY DEF WithoutMount
<1> HIDE DEF a, b
<1>5. /\ r \in Seq(Made) /\ Len(r) = Len(made) - 1 /\ DOMAIN r = 1 .. (Len(made) - 1)
      /\ \A k \in 1 .. (Len(made) - 1) : r[k] = IF k < x THEN made[k] ELSE made[k + 1]
  <2>1. /\ r \in Seq(Made) /\ Len(r) = Len(made) - 1
    BY <1>1, <1>2, <1>3
  <2>2. ASSUME NEW k \in 1 .. (Len(made) - 1)
        PROVE  r[k] = IF k < x THEN made[k] ELSE made[k + 1]
    <3>1. CASE k < x
      BY <3>1, <1>1, <1>2, <1>3
    <3>2. CASE k >= x
      <4>1. r[k] = b[k - (x - 1)]
        BY <3>2, <1>1, <1>2, <1>3
      <4>2. k - (x - 1) \in 1 .. (Len(made) - x) /\ x + (k - (x - 1)) = k + 1
        BY <3>2, <1>1
      <4> QED BY <4>1, <4>2, <1>3, <3>2
    <3>3. k < x \/ k >= x
      BY <1>1
    <3> QED BY <3>1, <3>2, <3>3, ZenonT(60)
  <2> QED BY <2>1, <2>2, <1>1
<1> HIDE DEF r
<1>6. ASSUME NEW k \in DOMAIN r PROVE \E l \in DOMAIN made : r[k] = made[l]
  <2>1. k \in DOMAIN made /\ k + 1 \in DOMAIN made
    BY <1>1, <1>5
  <2> QED BY <2>1, <1>5
<1>7. ASSUME NEW l \in DOMAIN made \ {x} PROVE \E k \in DOMAIN r : r[k] = made[l]
  <2>1. CASE l < x
    <3>1. l \in DOMAIN r /\ r[l] = made[l]
      BY <2>1, <1>1, <1>5
    <3> QED BY <3>1
  <2>2. CASE l > x
    <3>1. l - 1 \in DOMAIN r /\ r[l - 1] = made[l]
      BY <2>2, <1>1, <1>5
    <3> QED BY <3>1
  <2> QED BY <2>1, <2>2, <1>1
<1> QED
  BY <1>4, <1>5, <1>6, <1>7

-----------------------------------------------------------------------------
(* Types.                                                                      *)

\* A step is one of the actions, an action that ends in failure, or nothing; the jail
\* is the same after each.
LEMMA WhichStep ==
  ASSUME [Next]_vars
  PROVE  /\ jail' = jail
         /\ \/ EnterVfs \/ Vfs \/ Remounts
            \/ MakeTemp \/ MountDevfs \/ MakeNodes
            \/ MountOne \/ MountOneSkips \/ MountsDone
            \/ pc = "mounts" /\ MountsFail
            \/ pc \in {"unmount_dev", "move_dev"} /\ FinalizeFails
            \/ DevFails \/ CallFails
            \/ UnmountDev \/ MoveDev
            \/ EnterRoot \/ BindRoot \/ PivotRoot \/ OldRootPrivate \/ DetachOldRoot
            \/ MountTmp \/ UnmountProc \/ MountProc
            \/ UNCHANGED vars
<1>1. jail' = jail
  BY ZenonT(60) DEF Next, Step, Fault, vars
<1>2. CASE Step
  BY <1>1, <1>2, ZenonT(60) DEF Step, MountOneFails
<1>3. CASE Fault
  BY <1>1, <1>3, ZenonT(60) DEF Fault
<1> QED
  BY <1>1, <1>2, <1>3, ZenonT(60) DEF Next

\* What the fields of struct minijail that minijail_enter() reads can be.
LEMMA JailFacts ==
  ASSUME jail \in Jails
  PROVE  /\ jail.list \in Seq(Entries)
         /\ jail.remounts \in Seq([at : Host, mode : 1..4])
         /\ jail.mode \in 0..4 /\ jail.dir \in Host
         /\ jail.root \in {"none", "chroot", "pivot"}
         /\ jail.vfs \in BOOLEAN /\ jail.mount_dev \in BOOLEAN /\ jail.proc_ro \in BOOLEAN
BY MountsAssumption, ZenonT(60) DEF JailOptions

\* mount(2) with a propagation type leaves every mount with some propagation, and
\* never puts one into the caller's peer group.
LEMMA ModeFacts ==
  ASSUME NEW p \in Props, NEW mode \in 1..4
  PROVE  /\ WithMode(p, mode) \in Props
         /\ p # "peer" => WithMode(p, mode) # "peer"
         /\ mode # SHARED => WithMode(p, mode) # "peer"
<1>1. mode = 1 \/ mode = 2 \/ mode = 3 \/ mode = 4
  OBVIOUS
<1>2. CASE mode = 1
  BY <1>2 DEF WithMode, Props, UNBINDABLE, PRIVATE, SLAVE, SHARED
<1>3. CASE mode = 2
  BY <1>3 DEF WithMode, Props, UNBINDABLE, PRIVATE, SLAVE, SHARED
<1>4. CASE mode = 3
  BY <1>4 DEF WithMode, Props, UNBINDABLE, PRIVATE, SLAVE, SHARED
<1>5. CASE mode = 4
  BY <1>5 DEF WithMode, Props, UNBINDABLE, PRIVATE, SLAVE, SHARED
<1> QED
  BY <1>1, <1>2, <1>3, <1>4, <1>5, ZenonT(60)

\* The same for a mount and all beneath it; for "/" that is every mount.
LEMMA RemountedFacts ==
  ASSUME prop \in [Host -> Props], NEW m \in Host, NEW mode \in 1..4
  PROVE  /\ Remounted(m, mode) \in [Host -> Props]
         /\ (\A n \in Host : prop[n] # "peer") => \A n \in Host : Remounted(m, mode)[n] # "peer"
         /\ m = "/" /\ mode # SHARED => \A n \in Host : Remounted(m, mode)[n] # "peer"
<1>1. \A n \in Host : prop[n] \in Props
  OBVIOUS
<1>2. \A n \in Host : WithMode(prop[n], mode) \in Props
  BY <1>1, ModeFacts
<1>3. \A n \in Host : prop[n] # "peer" => WithMode(prop[n], mode) # "peer"
  BY <1>1, ModeFacts
<1>4. \A n \in Host : mode # SHARED => WithMode(prop[n], mode) # "peer"
  BY <1>1, ModeFacts
<1>5. m = "/" => Beneath(m) = Host
  BY DEF Beneath
<1> QED
  BY <1>1, <1>2, <1>3, <1>4, <1>5 DEF Remounted

\* The flags and the place of a new mount.
LEMMA NewMountFacts ==
  ASSUME jail \in Jails, NEW e \in Entries
  PROVE  /\ FlagsOf(e) \in SUBSET {"ro", "nosuid"}
         /\ Under(e) \in {"temp", "root"}
BY DEF FlagsOf, ReadOnly, Under, Entries

\* What mount_one() does to the list of the jail's mounts: it adds one for the
\* entry it is at, or a remount gives an earlier one other flags.
LEMMA MountOneMade ==
  ASSUME MountsType, MountOne
  PROVE  /\ i \in DOMAIN jail.list /\ jail.list[i] \in Entries /\ i' = i + 1
         /\ UNCHANGED <<pc, inside, prop, gone, dev, temp, umask, root, proc>>
         /\ \/ /\ jail.list[i].kind = "remount"
               /\ made' \in Seq(Made) /\ DOMAIN made' = DOMAIN made /\ outside' = outside
               /\ \A k \in DOMAIN made :
                    made'[k].entry = made[k].entry /\ made'[k].under = made[k].under
            \/ /\ jail.list[i].kind # "remount"
               /\ made' \in Seq(Made) /\ Len(made') = Len(made) + 1
               /\ \A k \in DOMAIN made : made'[k] = made[k]
               /\ made'[Len(made) + 1] =
                    [entry |-> i, under |-> Under(jail.list[i]), flags |-> FlagsOf(jail.list[i])]
               /\ outside' = outside \cup
                    (IF Under(jail.list[i]) = "temp" THEN {} ELSE Gained(On(jail.list[i].dest)))
<1> DEFINE e == jail.list[i]
<1>t. jail \in Jails /\ i \in Nat \ {0} /\ made \in Seq(Made)
  BY DEF MountsType
<1>1. i \in DOMAIN jail.list /\ e \in Entries
  BY <1>t, JailFacts DEF MountOne
<1>2. i' = i + 1 /\ UNCHANGED <<pc, inside, prop, gone, dev, temp, umask, root, proc>>
  BY DEF MountOne
<1>3. CASE e.kind = "remount"
  <2> DEFINE x == Max(Earlier(e))
  <2>1. made' = [made EXCEPT ![x].flags = ReadOnly(e)] /\ outside' = outside
    BY <1>3 DEF MountOne
  <2>2. ReadOnly(e) \in SUBSET {"ro", "nosuid"}
    BY DEF ReadOnly
  <2> HIDE DEF x, e
  <2>3. DOMAIN made' = DOMAIN made /\ Len(made) \in Nat /\ DOMAIN made = 1 .. Len(made)
    BY <2>1, <1>t
  <2>4. ASSUME NEW k \in DOMAIN made
        PROVE  /\ made'[k] \in Made
               /\ made'[k].entry = made[k].entry /\ made'[k].under = made[k].under
    <3>1. made[k] \in Made
      BY <1>t
    <3>2. made'[k] = made[k] \/ made'[k] = [made[k] EXCEPT !.flags = ReadOnly(e)]
      BY <2>1
    <3> QED BY <3>1, <3>2, <2>2 DEF Made
  <2>5. made' = [k \in 1 .. Len(made) |-> made'[k]]
    BY <2>1, <2>3, ZenonT(60)
  <2>6. made' \in Seq(Made)
    BY <2>3, <2>4, <2>5
  <2> QED BY <1>1, <1>2, <1>3, <2>1, <2>3, <2>4, <2>6 DEF e
<1>4. CASE e.kind # "remount"
  <2> DEFINE new == [entry |-> i, under |-> Under(e), flags |-> FlagsOf(e)]
  <2>1. /\ made' = Append(made, new)
        /\ outside' = outside \cup (IF Under(e) = "temp" THEN {} ELSE Gained(On(e.dest)))
    BY <1>4 DEF MountOne
  <2>2. new \in Made
    BY <1>1, <1>t, NewMountFacts DEF Made
  <2> HIDE DEF new
  <2>3. /\ made' \in Seq(Made) /\ Len(made') = Len(made) + 1
        /\ \A k \in DOMAIN made : made'[k] = made[k]
        /\ made'[Len(made) + 1] = new
    BY <2>1, <2>2, <1>t
  <2> QED BY <1>1, <1>2, <1>4, <2>1, <2>3 DEF new
<1> QED
  BY <1>3, <1>4

\* What remount_proc_readonly() does to it: one mount on /proc goes, if there is one.
LEMMA UnmountProcMade ==
  ASSUME MountsType, UnmountProc
  PROVE  /\ made' \in Seq(Made)
         /\ \A k \in DOMAIN made' : \E l \in DOMAIN made : made'[k] = made[l]
         /\ \A l \in DOMAIN made : jail.list[made[l].entry].dest # "/proc" =>
              \E k \in DOMAIN made' : made'[k] = made[l]
<1>t. made \in Seq(Made)
  BY DEF MountsType
<1>1. CASE ProcMounts # {}
  <2> DEFINE x == Max(ProcMounts)
  <2>1. made' = WithoutMount(x)
    BY <1>1 DEF UnmountProc
  <2>2. Len(made) \in Nat /\ DOMAIN made = 1 .. Len(made) /\ ProcMounts \in SUBSET (1 .. Len(made))
    BY <1>t DEF ProcMounts
  <2>3. x \in ProcMounts
    BY <1>1, <2>2, LargestOf, ZenonT(60)
  <2>4. x \in DOMAIN made /\ jail.list[made[x].entry].dest = "/proc"
    BY <2>3, ZenonT(60) DEF ProcMounts
  <2> HIDE DEF x
  <2>5. /\ made' \in Seq(Made)
        /\ \A k \in DOMAIN made' : \E l \in DOMAIN made : made'[k] = made[l]
        /\ \A l \in DOMAIN made \ {x} : \E k \in DOMAIN made' : made'[k] = made[l]
    BY <1>t, <2>1, <2>4, Removed
  <2> QED BY <2>4, <2>5
<1>2. CASE ProcMounts = {}
  <2>1. made' = made
    BY <1>2 DEF UnmountProc
  <2> QED BY <2>1, <1>t
<1> QED
  BY <1>1, <1>2

\* The types hold at the start.
LEMMA TypeInit ==
  ASSUME Init
  PROVE  MountsType
<1>1. prop \in [Host -> Props]
  <2>1. prop \in [Host -> {"peer", "private"}]
    BY MountsAssumption DEF Init
  <2> QED BY <2>1 DEF Props
<1>2. made \in Seq(Made)
  BY DEF Init
<1>3. pc \in Steps /\ jail \in Jails /\ i \in Nat \ {0} /\ gone \subseteq Host
  BY DEF Init, Steps
<1>5. inside \in BOOLEAN
  BY ZenonT(60) DEF Init
<1>4. /\ dev \in {"none", "temp", "final"} /\ temp \in {"none", "dir", "mounted"}
      /\ umask \in {"caller", "zero"} /\ root \in {"host", "both", "jail"}
  BY DEF Init
<1> QED
  BY <1>1, <1>2, <1>3, <1>4, <1>5 DEF MountsType

\* Every step of minijail_enter(), the failing ones included, keeps them.
LEMMA TypeStep ==
  ASSUME MountsType, [Next]_vars
  PROVE  MountsType'
<1> USE DEF MountsType
<1>j. jail' = jail
  BY WhichStep
<1>p. AfterMounts \in Steps /\ FirstMount \in Steps
  BY DEF AfterMounts, FirstMount, Steps
<1>1. CASE EnterVfs
  BY <1>1, <1>j, ZenonT(60) DEF EnterVfs, Steps, Props
<1>2. CASE Vfs
  <2>1. jail.mode # 0 => Remounted("/", jail.mode) \in [Host -> Props]
    BY JailFacts, RemountedFacts DEF Host
  <2>2. pc' \in Steps
    BY <1>2, <1>p DEF Vfs, Steps
  <2>3. prop' \in [Host -> Props] /\ inside' \in BOOLEAN
    BY <1>2, <2>1, ZenonT(60) DEF Vfs
  <2> QED BY <1>2, <1>j, <2>2, <2>3 DEF Vfs
<1>3. CASE Remounts
  <2>1. CASE i > Len(jail.remounts)
    BY <1>3, <1>j, <1>p, <2>1 DEF Remounts
  <2>2. CASE i <= Len(jail.remounts)
    <3>1. jail.remounts[i] \in [at : Host, mode : 1..4]
      <4>1. jail.remounts \in Seq([at : Host, mode : 1..4]) /\ i \in Nat \ {0}
        BY JailFacts
      <4>2. i \in 1 .. Len(jail.remounts)
        BY <2>2, <4>1
      <4> QED BY <4>1, <4>2, ElementOfSeq, ZenonT(60)
    <3>2. Remounted(jail.remounts[i].at, jail.remounts[i].mode) \in [Host -> Props]
      BY <3>1, RemountedFacts
    <3> QED BY <1>3, <1>j, <2>2, <3>2, JailFacts DEF Remounts, Steps
  <2> QED BY <2>1, <2>2, JailFacts
<1>4. CASE MakeTemp \/ MountDevfs \/ MakeNodes
  BY <1>4, <1>j DEF MakeTemp, MountDevfs, MakeNodes, Steps
<1>5. CASE MountOne
  BY <1>5, <1>j, MountOneMade
<1>6. CASE MountOneSkips \/ MountsDone
  BY <1>6, <1>j, <1>p DEF MountOneSkips, MountsDone
<1>7. CASE MountsFail \/ FinalizeFails \/ DevFails \/ CallFails
  BY <1>7, <1>j DEF MountsFail, FinalizeFails, DevFails, CallFails, Cleanup
<1>8. CASE UnmountDev
  BY <1>7, <1>8, <1>j, ZenonT(60) DEF UnmountDev, Steps, Host
<1>9. CASE MoveDev
  BY <1>7, <1>9, <1>j DEF MoveDev, Steps
<1>10. CASE EnterRoot \/ BindRoot \/ PivotRoot
  BY <1>10, <1>j DEF EnterRoot, BindRoot, PivotRoot, RootBind, Steps
<1>11. CASE OldRootPrivate
  <2>1. MakePrivate \in [Host -> Props]
    BY ModeFacts DEF MakePrivate, PRIVATE
  <2> QED BY <1>11, <1>j, <2>1 DEF OldRootPrivate, Steps
<1>12. CASE DetachOldRoot \/ MountTmp \/ MountProc
  BY <1>12, <1>j DEF DetachOldRoot, MountTmp, MountProc, Steps
<1>13. CASE UnmountProc
  <2>1. made' \in Seq(Made)
    BY <1>13, UnmountProcMade
  <2> QED BY <1>13, <1>j, <2>1, ZenonT(60) DEF UnmountProc, Steps, Host
<1>14. CASE UNCHANGED vars
  BY <1>14 DEF vars
<1> QED
  BY <1>1, <1>2, <1>3, <1>4, <1>5, <1>6, <1>7, <1>8, <1>9, <1>10, <1>11, <1>12, <1>13, <1>14, WhichStep, ZenonT(60)

-----------------------------------------------------------------------------
(* Propagation.                                                                *)

\* In a namespace of its own where no mount is in the caller's peer group, a mount
\* or an unmount changes nothing outside.
LEMMA NothingPropagates ==
  ASSUME inside, \A m \in Host : prop[m] # "peer"
  PROVE  /\ \A m \in Host : Gained(m) = {}
         /\ \A ms \in SUBSET Host : Lost(ms) = {}
<1>1. \A m \in Host : Parent[m] \in Host
  BY DEF Parent, Host
<1> QED
  BY <1>1 DEF Gained, Lost

\* Every destination lies on one of the caller's mounts.
LEMMA OnHost ==
  ASSUME jail \in Jails, NEW dest
  PROVE  On(dest) \in Host
<1>1. jail.dir \in Host
  BY JailFacts
<1> QED
  BY <1>1 DEF On, Host

\* A jail with a namespace and a mode other than MS_SHARED has nothing outside, step
\* by step: remount_all() takes every mount out of the peer group, and neither
\* minijail_add_remount() nor anything after it puts one back.
LEMMA LeakStep ==
  ASSUME MountsType, LeakInv, [Next]_vars
  PROVE  LeakInv'
<1>j. jail' = jail
  BY WhichStep
<1> SUFFICES ASSUME Sealed
             PROVE  /\ outside' = {}
                    /\ \/ pc' \in {"setns", "unshare", "dead"}
                       \/ inside' /\ \A m \in Host : prop'[m] # "peer"
  BY <1>j, ZenonT(60) DEF LeakInv, Sealed
<1> DEFINE Quiet == inside /\ \A m \in Host : prop[m] # "peer"
<1>t. /\ jail \in Jails /\ prop \in [Host -> Props] /\ i \in Nat \ {0}
      /\ outside = {} /\ (pc \in {"setns", "unshare", "dead"} \/ Quiet)
  BY DEF MountsType, LeakInv
<1>f. /\ jail.vfs /\ jail.mode \in 1..3 /\ jail.dir \in Host
      /\ jail.remounts \in Seq([at : Host, mode : 1..4])
  BY <1>t, JailFacts DEF Sealed, UNBINDABLE, PRIVATE, SLAVE
<1>q. Quiet => /\ \A m \in Host : Gained(m) = {}
               /\ \A ms \in SUBSET Host : Lost(ms) = {}
               /\ GainedHere = {}
  <2> SUFFICES ASSUME Quiet
               PROVE  /\ \A m \in Host : Gained(m) = {}
                      /\ \A ms \in SUBSET Host : Lost(ms) = {}
                      /\ GainedHere = {}
    OBVIOUS
  <2>1. /\ \A m \in Host : Gained(m) = {}
        /\ \A ms \in SUBSET Host : Lost(ms) = {}
    BY NothingPropagates
  <2>2. (IF jail.root = "chroot" THEN jail.dir ELSE "/") \in Host
    BY <1>f DEF Host
  <2> QED BY <2>1, <2>2 DEF GainedHere
<1>h. "/" \in Host /\ {"/dev"} \in SUBSET Host /\ {"/proc"} \in SUBSET Host
  BY DEF Host
<1>1. CASE EnterVfs
  BY <1>1, <1>t DEF EnterVfs
<1>2. CASE Vfs
  <2>1. \A m \in Host : Remounted("/", jail.mode)[m] # "peer"
    BY <1>t, <1>f, <1>h, RemountedFacts DEF SHARED
  <2> QED BY <1>2, <1>t, <1>f, <2>1 DEF Vfs
<1>3. CASE Remounts
  <2>1. Quiet
    BY <1>3, <1>t DEF Remounts
  <2>2. CASE i > Len(jail.remounts)
    BY <1>3, <1>t, <2>1, <2>2 DEF Remounts
  <2>3. CASE i <= Len(jail.remounts)
    <3>1. i \in 1 .. Len(jail.remounts)
      BY <1>t, <1>f, <2>3
    <3>2. jail.remounts[i] \in [at : Host, mode : 1..4]
      BY <1>f, <3>1, ElementOfSeq, ZenonT(60)
    <3>3. \A m \in Host : Remounted(jail.remounts[i].at, jail.remounts[i].mode)[m] # "peer"
      BY <1>t, <2>1, <3>2, RemountedFacts
    <3> QED BY <1>3, <1>t, <1>f, <2>1, <2>3, <3>1, <3>3 DEF Remounts
  <2> QED BY <2>2, <2>3, <1>t, <1>f
<1>4. CASE MakeTemp \/ MountDevfs \/ MakeNodes
  BY <1>4, <1>t, <1>q, <1>h DEF MakeTemp, MountDevfs, MakeNodes
<1>5. CASE MountOne
  <2>1. Quiet
    BY <1>5, <1>t DEF MountOne
  <2>2. On(jail.list[i].dest) \in Host
    BY <1>t, OnHost
  <2>3. outside' = {} /\ UNCHANGED <<inside, prop>>
    BY <1>5, <1>t, <1>q, <2>1, <2>2, MountOneMade
  <2> QED BY <2>1, <2>3
<1>6. CASE MountOneSkips \/ MountsDone
  BY <1>6, <1>t DEF MountOneSkips, MountsDone
<1>7. CASE MountsFail \/ FinalizeFails \/ DevFails \/ CallFails
  BY <1>7, <1>t DEF MountsFail, FinalizeFails, DevFails, CallFails
<1>8. CASE UnmountDev
  BY <1>7, <1>8, <1>t, <1>q, <1>h, ZenonT(60) DEF UnmountDev
<1>9. CASE MoveDev
  <2>1. On("/dev") \in Host
    BY <1>t, OnHost
  <2> QED BY <1>7, <1>9, <1>t, <1>q, <2>1, ZenonT(60) DEF MoveDev
<1>10. CASE EnterRoot \/ BindRoot \/ PivotRoot
  BY <1>10, <1>t, <1>q, <1>f DEF EnterRoot, BindRoot, PivotRoot
<1>11. CASE OldRootPrivate
  <2>1. \A m \in Host : MakePrivate[m] # "peer"
    BY <1>t, ModeFacts DEF MakePrivate, PRIVATE, SHARED
  <2> QED BY <1>11, <1>t, <2>1 DEF OldRootPrivate
<1>12. CASE DetachOldRoot \/ MountTmp \/ MountProc
  <2>1. Host \ gone \in SUBSET Host
    OBVIOUS
  <2> QED BY <1>12, <1>t, <1>q, <2>1 DEF DetachOldRoot, MountTmp, MountProc
<1>13. CASE UnmountProc
  BY <1>13, <1>t, <1>q, <1>h DEF UnmountProc
<1>14. CASE UNCHANGED vars
  BY <1>14, <1>t DEF vars
<1> QED
  BY <1>1, <1>2, <1>3, <1>4, <1>5, <1>6, <1>7, <1>8, <1>9, <1>10, <1>11, <1>12, <1>13, <1>14, WhichStep, ZenonT(60)

\* With pivot_root the only mount the caller may lose is the /dev that
\* mount_dev_finalize() detaches: enter_pivot_root() makes the old root private
\* before it lets go of it, and remount_proc_readonly() finds no mount of the caller.
LEMMA PivotStep ==
  ASSUME MountsType, PivotInv, RootInv, [Next]_vars
  PROVE  PivotInv'
<1>j. jail' = jail
  BY WhichStep
<1> DEFINE OnlyDev(o) == \A m \in Host : <<"lost", m>> \in o => m = "/dev"
           Pivots == jail.root = "pivot"
<1>t. /\ jail \in Jails /\ prop \in [Host -> Props]
      /\ pc \in {"setns", "unshare"} => outside = {}
      /\ pc = "detach" => \A m \in Host : prop[m] # "peer"
      /\ Pivots /\ inside => OnlyDev(outside)
      /\ pc \in {"private", "detach"} => Pivots
  BY DEF MountsType, PivotInv, PivotKeepsCallers, RootInv
<1> SUFFICES /\ pc' \in {"setns", "unshare"} => outside' = {}
             /\ pc' = "detach" => \A m \in Host : prop'[m] # "peer"
             /\ Pivots /\ inside' => OnlyDev(outside')
  BY <1>j DEF PivotInv, PivotKeepsCallers
<1>g. \A m : \A n : <<"lost", n>> \notin Gained(m)
  BY DEF Gained
<1>h. \A n : <<"lost", n>> \notin GainedHere
  BY <1>g, ZenonT(60) DEF GainedHere
<1>l. OnlyDev(Lost({"/dev"}))
  BY DEF Lost
<1>1. CASE EnterVfs \/ Vfs
  BY <1>1, <1>t DEF EnterVfs, Vfs, FirstMount
<1>2. CASE Remounts
  BY <1>2, <1>t DEF Remounts, FirstMount
<1>3. CASE MakeTemp \/ MountDevfs \/ MakeNodes
  BY <1>3, <1>t, <1>g DEF MakeTemp, MountDevfs, MakeNodes
<1>4. CASE MountOne
  <2>1. pc = "mounts" /\ pc' = pc /\ inside' = inside /\ prop' = prop
    BY <1>4 DEF MountOne
  <2>2. outside' = outside \/ outside' = outside \cup Gained(On(jail.list[i].dest))
    BY <1>4, MountOneMade, ZenonT(60)
  <2> QED BY <1>t, <1>g, <2>1, <2>2
<1>5. CASE MountOneSkips \/ MountsDone
  BY <1>5, <1>t DEF MountOneSkips, MountsDone, AfterMounts
<1>6. CASE MountsFail \/ FinalizeFails \/ DevFails \/ CallFails
  BY <1>6, <1>t DEF MountsFail, FinalizeFails, DevFails, CallFails
<1>7. CASE UnmountDev
  BY <1>6, <1>7, <1>t, <1>l DEF UnmountDev
<1>8. CASE MoveDev
  BY <1>6, <1>8, <1>t, <1>g DEF MoveDev
<1>9. CASE EnterRoot \/ BindRoot \/ PivotRoot
  BY <1>9, <1>t, <1>g DEF EnterRoot, BindRoot, PivotRoot
<1>10. CASE OldRootPrivate
  <2>1. \A m \in Host : MakePrivate[m] # "peer"
    BY <1>t, ModeFacts DEF MakePrivate, PRIVATE, SHARED
  <2> QED BY <1>10, <1>t, <2>1 DEF OldRootPrivate
<1>11. CASE DetachOldRoot
  <2>1. pc = "detach" /\ pc' = "tmp" /\ inside' = inside /\ outside' = outside \cup Lost(Host \ gone)
    BY <1>11 DEF DetachOldRoot
  <2>2. inside => Lost(Host \ gone) = {}
    BY <1>t, <2>1, NothingPropagates
  <2> QED BY <1>t, <2>1, <2>2
<1>12. CASE MountTmp \/ MountProc
  BY <1>12, <1>t, <1>h DEF MountTmp, MountProc
<1>13. CASE UnmountProc
  BY <1>13, <1>t DEF UnmountProc
<1>14. CASE UNCHANGED vars
  BY <1>14, <1>t DEF vars
<1> QED
  BY <1>1, <1>2, <1>3, <1>4, <1>5, <1>6, <1>7, <1>8, <1>9, <1>10, <1>11, <1>12, <1>13, <1>14, WhichStep, ZenonT(60)

-----------------------------------------------------------------------------
(* The temporary /dev and the root directory.                                  *)

\* Each way out of mount_dev(), mount_one() and mount_dev_finalize() cleans up.
LEMMA TempStep ==
  ASSUME MountsType, TempInv, [Next]_vars
  PROVE  TempInv'
<1>j. jail' = jail
  BY WhichStep
<1>t. jail \in Jails /\ jail.mount_dev \in BOOLEAN
  BY JailFacts DEF MountsType
<1> USE <1>j DEF TempInv
<1>1. CASE EnterVfs \/ Vfs \/ Remounts
  BY <1>1 DEF EnterVfs, Vfs, Remounts, FirstMount
<1>2. CASE MakeTemp
  BY <1>2 DEF MakeTemp
<1>3. CASE MountDevfs \/ MakeNodes
  BY <1>3 DEF MountDevfs, MakeNodes
<1>4. CASE MountOne \/ MountOneSkips \/ MountsDone
  BY <1>4, <1>t DEF MountOne, MountOneSkips, MountsDone, AfterMounts
<1>5. CASE (pc = "mounts" /\ MountsFail) \/ (pc \in {"unmount_dev", "move_dev"} /\ FinalizeFails) \/ DevFails \/ CallFails
  BY <1>5, <1>t DEF MountsFail, FinalizeFails, DevFails, CallFails, Cleanup, Steps
<1>6. CASE UnmountDev \/ MoveDev
  BY <1>5, <1>6 DEF UnmountDev, MoveDev
<1>7. CASE EnterRoot \/ BindRoot \/ PivotRoot \/ OldRootPrivate \/ DetachOldRoot
  BY <1>7 DEF EnterRoot, BindRoot, PivotRoot, OldRootPrivate, DetachOldRoot
<1>8. CASE MountTmp \/ UnmountProc \/ MountProc
  BY <1>8 DEF MountTmp, UnmountProc, MountProc
<1>9. CASE UNCHANGED vars
  BY <1>9 DEF vars
<1> QED
  BY <1>1, <1>2, <1>3, <1>4, <1>5, <1>6, <1>7, <1>8, <1>9, WhichStep, ZenonT(60)

\* chroot, or each of the three calls of enter_pivot_root(), changes the root once.
LEMMA RootStep ==
  ASSUME MountsType, RootInv, [Next]_vars
  PROVE  RootInv'
<1>j. jail' = jail
  BY WhichStep
<1>t. jail \in Jails /\ jail.root \in {"none", "chroot", "pivot"}
  BY JailFacts DEF MountsType
<1> USE <1>j, <1>t DEF RootInv, Early, Late
<1>1. CASE EnterVfs \/ Vfs \/ Remounts
  BY <1>1 DEF EnterVfs, Vfs, Remounts, FirstMount
<1>2. CASE MakeTemp \/ MountDevfs \/ MakeNodes
  BY <1>2 DEF MakeTemp, MountDevfs, MakeNodes
<1>3. CASE MountOne \/ MountOneSkips \/ MountsDone
  BY <1>3 DEF MountOne, MountOneSkips, MountsDone, AfterMounts
<1>4. CASE MountsFail \/ FinalizeFails \/ DevFails \/ CallFails
  BY <1>4 DEF MountsFail, FinalizeFails, DevFails, CallFails
<1>5. CASE UnmountDev \/ MoveDev
  BY <1>4, <1>5 DEF UnmountDev, MoveDev
<1>6. CASE EnterRoot
  BY <1>6 DEF EnterRoot
<1>7. CASE BindRoot \/ PivotRoot
  BY <1>7 DEF BindRoot, PivotRoot
<1>8. CASE OldRootPrivate \/ DetachOldRoot
  BY <1>8 DEF OldRootPrivate, DetachOldRoot
<1>9. CASE MountTmp \/ UnmountProc \/ MountProc
  BY <1>9 DEF MountTmp, UnmountProc, MountProc
<1>10. CASE UNCHANGED vars
  BY <1>10 DEF vars
<1> QED
  BY <1>1, <1>2, <1>3, <1>4, <1>5, <1>6, <1>7, <1>8, <1>9, <1>10, WhichStep, ZenonT(60)

-----------------------------------------------------------------------------
(* The jail's mounts.                                                          *)

\* What MadeInv says of one mount.
Recorded(r) ==
  /\ r.entry \in DOMAIN jail.list
  /\ r.under = Under(jail.list[r.entry])
  /\ (\A n \in DOMAIN jail.list : jail.list[n].kind # "remount") =>
       r.flags = FlagsOf(jail.list[r.entry])

\* As the jail does not change, it suffices to look at the mounts there are now.
LEMMA MadeIfRecorded ==
  ASSUME jail' = jail, \A k \in DOMAIN made' : Recorded(made'[k])
  PROVE  MadeInv'
<1>1. \A e : Under(e)' = Under(e) /\ FlagsOf(e)' = FlagsOf(e)
  BY DEF Under, FlagsOf, NeedsRemount, ReadOnly
<1> QED
  BY <1>1, ZenonT(60) DEF MadeInv, Recorded

\* A step that leaves the mounts alone, or only removes some, keeps MadeInv.
LEMMA MadeFewer ==
  ASSUME MadeInv, jail' = jail,
         \A k \in DOMAIN made' : \E l \in DOMAIN made : made'[k] = made[l]
  PROVE  MadeInv'
<1>1. \A l \in DOMAIN made : Recorded(made[l])
  BY DEF MadeInv, Recorded
<1>2. \A k \in DOMAIN made' : Recorded(made'[k])
  BY <1>1
<1> QED
  BY <1>2, MadeIfRecorded

\* mount_one() records each mount under the place and with the flags of its entry.
LEMMA MadeStep ==
  ASSUME MountsType, MadeInv, [Next]_vars
  PROVE  MadeInv'
<1>j. jail' = jail
  BY WhichStep
<1>t. jail \in Jails /\ jail.list \in Seq(Entries) /\ made \in Seq(Made)
  BY JailFacts DEF MountsType
<1>1. CASE made' = made
  BY <1>1, <1>j, MadeFewer
<1>2. CASE UnmountProc
  BY <1>2, <1>j, UnmountProcMade, MadeFewer
<1>3. CASE MountOne
  <2>i. \A k \in DOMAIN made : Recorded(made[k])
    BY DEF MadeInv, Recorded
  <2>1. CASE jail.list[i].kind = "remount"
    <3>1. /\ i \in DOMAIN jail.list /\ DOMAIN made' = DOMAIN made
          /\ \A k \in DOMAIN made : made'[k].entry = made[k].entry /\ made'[k].under = made[k].under
      BY <1>3, <2>1, MountOneMade
    <3>2. \A k \in DOMAIN made' : Recorded(made'[k])
      BY <2>i, <2>1, <3>1, ZenonT(60) DEF Recorded
    <3> QED BY <1>j, <3>2, MadeIfRecorded
  <2>2. CASE jail.list[i].kind # "remount"
    <3> DEFINE new == [entry |-> i, under |-> Under(jail.list[i]), flags |-> FlagsOf(jail.list[i])]
    <3>1. /\ i \in DOMAIN jail.list /\ made' \in Seq(Made) /\ Len(made') = Len(made) + 1
          /\ \A k \in DOMAIN made : made'[k] = made[k]
          /\ made'[Len(made) + 1] = new
      BY <1>3, <2>2, MountOneMade
    <3>2. Recorded(new)
      BY <3>1 DEF Recorded
    <3>3. \A k \in DOMAIN made' : k \in DOMAIN made \/ k = Len(made) + 1
      BY <3>1, <1>t
    <3>4. \A k \in DOMAIN made' : Recorded(made'[k])
      <4> HIDE DEF new
      <4> QED BY <2>i, <3>1, <3>2, <3>3
    <3> QED BY <1>j, <3>4, MadeIfRecorded
  <2> QED BY <2>1, <2>2
<1>4. made' = made \/ UnmountProc \/ MountOne
  <2>1. EnterVfs \/ Vfs \/ Remounts \/ MakeTemp \/ MountDevfs \/ MakeNodes => made' = made
    BY ZenonT(60) DEF EnterVfs, Vfs, Remounts, MakeTemp, MountDevfs, MakeNodes
  <2>2. MountOneSkips \/ MountsDone \/ MountsFail \/ FinalizeFails \/ DevFails \/ CallFails => made' = made
    BY DEF MountOneSkips, MountsDone, MountsFail, FinalizeFails, DevFails, CallFails
  <2>3. UnmountDev \/ MoveDev \/ EnterRoot \/ BindRoot \/ PivotRoot => made' = made
    BY <2>2 DEF UnmountDev, MoveDev, EnterRoot, BindRoot, RootBind, PivotRoot
  <2>4. OldRootPrivate \/ DetachOldRoot \/ MountTmp \/ MountProc \/ UNCHANGED vars => made' = made
    BY DEF OldRootPrivate, DetachOldRoot, MountTmp, MountProc, vars
  <2> QED BY <2>1, <2>2, <2>3, <2>4, WhichStep, ZenonT(60)
<1> QED
  BY <1>1, <1>2, <1>3, <1>4

\* Each entry that mount_one() has been through stays among the jail's mounts while
\* /dev is moved and the root is swapped; only an entry on /proc may go, and only when
\* the jail wants its own /proc.
LEMMA EntriesStep ==
  ASSUME MountsType, EntriesInv, [Next]_vars
  PROVE  EntriesInv'
<1>j. jail' = jail
  BY WhichStep
<1>t. /\ jail \in Jails /\ i \in Nat \ {0} /\ jail.list \in Seq(Entries) /\ Len(jail.list) \in Nat
      /\ jail.mount_dev \in BOOLEAN /\ jail.proc_ro \in BOOLEAN
      /\ made \in Seq(Made) /\ Len(made) \in Nat
  BY JailFacts DEF MountsType
<1> DEFINE Kept(n, p) ==
             jail.list[n].kind # "remount"
               /\ ~(jail.list[n].dest = "/proc" /\ p \in {"proc", "done"} /\ jail.proc_ro)
           Found(n) == \E k \in DOMAIN made : made[k].entry = n
           FoundNow(n) == \E k \in DOMAIN made' : made'[k].entry = n
           Begun(p) == p \notin Early \cup {"dead"}
           Moved(p) == p \notin Early \cup {"dead", "mounts", "unmount_dev", "move_dev"}
<1>i. /\ pc \in Early \ {"remounts"} => i = 1
      /\ Begun(pc) => i - 1 <= Len(jail.list) /\ \A n \in 1..(i - 1) : Kept(n, pc) => Found(n)
      /\ pc \in {"umount_proc", "proc"} => jail.proc_ro
      /\ jail.mount_dev /\ Moved(pc) => dev = "final"
  BY DEF EntriesInv
<1> SUFFICES /\ pc' \in Early \ {"remounts"} => i' = 1
             /\ Begun(pc') => i' - 1 <= Len(jail.list)
             /\ Begun(pc') => \A n \in 1..(i' - 1) : Kept(n, pc') => FoundNow(n)
             /\ pc' \in {"umount_proc", "proc"} => jail.proc_ro
             /\ jail.mount_dev /\ Moved(pc') => dev' = "final"
  BY <1>j, ZenonT(60) DEF EntriesInv
<1> HIDE DEF Found, FoundNow
<1>s. made' = made => \A n : FoundNow(n) <=> Found(n)
  BY DEF Found, FoundNow
<1>1. CASE EnterVfs \/ Vfs
  BY <1>1, <1>i, <1>t DEF EnterVfs, Vfs, FirstMount, Early
<1>2. CASE Remounts
  BY <1>2, <1>i, <1>t DEF Remounts, FirstMount, Early
<1>3. CASE MakeTemp \/ MountDevfs \/ MakeNodes
  BY <1>3, <1>i, <1>t DEF MakeTemp, MountDevfs, MakeNodes, Early
<1>4. CASE MountOne
  <2>1. /\ pc = "mounts" /\ pc' = pc /\ i' = i + 1 /\ i \in DOMAIN jail.list /\ dev' = dev
    BY <1>4, MountOneMade DEF MountOne
  <2>2. \A n : Found(n) => FoundNow(n)
    <3>1. \A k \in DOMAIN made : k \in DOMAIN made' /\ made'[k].entry = made[k].entry
      BY <1>4, <1>t, MountOneMade
    <3> QED BY <3>1 DEF Found, FoundNow
  <2>3. jail.list[i].kind # "remount" => FoundNow(i)
    <3>1. jail.list[i].kind # "remount" =>
            Len(made) + 1 \in DOMAIN made' /\ made'[Len(made) + 1].entry = i
      BY <1>4, <1>t, MountOneMade
    <3> QED BY <3>1 DEF FoundNow
  <2>4. \A n \in 1..(i' - 1) : n \in 1..(i - 1) \/ n = i
    BY <1>t, <2>1
  <2>5. i' - 1 <= Len(jail.list)
    BY <1>t, <2>1
  <2> QED BY <1>i, <2>1, <2>2, <2>3, <2>4, <2>5 DEF Early
<1>5. CASE MountOneSkips \/ MountsDone
  BY <1>5, <1>i, <1>t, <1>s DEF MountOneSkips, MountsDone, AfterMounts, Early
<1>6. CASE MountsFail \/ FinalizeFails \/ DevFails \/ CallFails
  BY <1>6 DEF MountsFail, FinalizeFails, DevFails, CallFails, Early
<1>7. CASE UnmountDev \/ MoveDev
  BY <1>6, <1>7, <1>i, <1>t, <1>s, ZenonT(60) DEF UnmountDev, MoveDev, Early
<1>8. CASE EnterRoot \/ BindRoot \/ PivotRoot
  BY <1>8, <1>i, <1>t, <1>s, ZenonT(60) DEF EnterRoot, BindRoot, RootBind, PivotRoot, Early
<1>9. CASE OldRootPrivate \/ DetachOldRoot
  BY <1>9, <1>i, <1>t, <1>s, ZenonT(60) DEF OldRootPrivate, DetachOldRoot, Early
<1>10. CASE MountTmp \/ MountProc
  BY <1>10, <1>i, <1>t, <1>s DEF MountTmp, MountProc, Early
<1>11. CASE UnmountProc
  <2>1. pc = "umount_proc" /\ pc' \in {"proc", "dead"} /\ i' = i /\ dev' = dev
    BY <1>11 DEF UnmountProc
  <2>2. ASSUME NEW n \in 1..(i - 1), Kept(n, "proc") PROVE FoundNow(n)
    <3>1. Found(n) /\ jail.list[n].dest # "/proc"
      BY <1>i, <2>1, <2>2 DEF Early
    <3>2. PICK l \in DOMAIN made : made[l].entry = n
      BY <3>1 DEF Found
    <3>3. \E k \in DOMAIN made' : made'[k] = made[l]
      BY <1>11, <3>1, <3>2, UnmountProcMade
    <3> QED BY <3>2, <3>3 DEF FoundNow
  <2> QED BY <1>i, <2>1, <2>2 DEF Early
<1>12. CASE UNCHANGED vars
  BY <1>12, <1>i, <1>s DEF vars
<1> QED
  BY <1>1, <1>2, <1>3, <1>4, <1>5, <1>6, <1>7, <1>8, <1>9, <1>10, <1>11, <1>12, WhichStep, ZenonT(60)

-----------------------------------------------------------------------------
(* The theorems.                                                               *)

MountsInv ==
  MountsType /\ LeakInv /\ PivotInv /\ TempInv /\ RootInv /\ MadeInv /\ EntriesInv

\* The conjunction of the invariants is inductive: it holds before minijail_enter()
\* and each of its steps keeps it, whatever the jail, the caller's mounts and the
\* number of system calls that fail.
THEOREM MountsInvariant == Spec => []MountsInv
<1>1. Init => MountsInv
  <2> SUFFICES ASSUME Init PROVE MountsInv
    OBVIOUS
  <2>1. MountsType
    BY TypeInit
  <2>2. LeakInv /\ PivotInv /\ TempInv /\ RootInv
    BY DEF Init, LeakInv, PivotInv, PivotKeepsCallers, TempInv, RootInv, Early, Late
  <2>3. MadeInv
    BY DEF Init, MadeInv
  <2>4. EntriesInv
    BY DEF Init, EntriesInv, Early
  <2> QED BY <2>1, <2>2, <2>3, <2>4 DEF MountsInv
<1>2. MountsInv /\ [Next]_vars => MountsInv'
  BY TypeStep, LeakStep, PivotStep, TempStep, RootStep, MadeStep, EntriesStep DEF MountsInv
<1> QED
  BY <1>1, <1>2, PTL DEF Spec

\* "so the mounts don't leak out into the containing vfs namespace": with a mount
\* namespace and a mode other than MS_SHARED, nothing that minijail_enter() mounts,
\* moves or unmounts is ever seen outside.
THEOREM NoLeakTheorem == Spec => []NoLeak
<1>1. MountsInv => NoLeak
  BY DEF MountsInv, LeakInv, Sealed, NoLeak
<1> QED
  BY <1>1, MountsInvariant, PTL

\* enter_pivot_root() never unmounts anything of the caller's.
THEOREM PivotTheorem == Spec => []PivotKeepsCallers
<1>1. MountsInv => PivotKeepsCallers
  BY DEF MountsInv, PivotInv
<1> QED
  BY <1>1, MountsInvariant, PTL

\* However minijail_enter() ends, mount_dev_cleanup() or mount_dev_finalize() has
\* removed the temporary /dev, and the umask is the caller's again.
THEOREM NoTempTheorem == Spec => []NoTempLeft
<1>1. MountsInv => NoTempLeft
  BY DEF MountsInv, TempInv, NoTempLeft
<1> QED
  BY <1>1, MountsInvariant, PTL

\* minijail_bind() gives a mount MS_RDONLY as asked for and its source's other flags.
THEOREM BindFlagsTheorem == Spec => []BindFlags
<1>1. MountsInv => BindFlags
  <2> SUFFICES ASSUME MountsInv, NEW k \in DOMAIN made,
                      jail.list[made[k].entry].kind = "bind",
                      \A n \in DOMAIN jail.list : jail.list[n].kind # "remount"
               PROVE  /\ ("ro" \in made[k].flags) = jail.list[made[k].entry].ro
                      /\ made[k].flags \ {"ro"} = jail.list[made[k].entry].flags \ {"ro"}
    BY DEF BindFlags
  <2> DEFINE e == jail.list[made[k].entry]
  <2>1. made[k].entry \in DOMAIN jail.list /\ made[k].flags = FlagsOf(e)
    BY DEF MountsInv, MadeInv
  <2>2. e \in Entries
    BY <2>1, JailFacts DEF MountsInv, MountsType
  <2> HIDE DEF e
  <2>3. e.ro \in BOOLEAN /\ e.flags \in SUBSET {"ro", "nosuid"}
    BY <2>2 DEF Entries
  <2>4. e.kind = "bind"
    BY DEF e
  <2>5. FlagsOf(e) = IF e.ro # ("ro" \in e.flags) THEN (e.flags \ {"ro"}) \cup ReadOnly(e) ELSE e.flags
    BY <2>4 DEF FlagsOf, NeedsRemount
  <2>6. /\ ("ro" \in FlagsOf(e)) = e.ro
        /\ FlagsOf(e) \ {"ro"} = e.flags \ {"ro"}
    <3>1. CASE e.ro = TRUE
      <4>1. "ro" \in FlagsOf(e) /\ FlagsOf(e) \ {"ro"} = e.flags \ {"ro"}
        BY <3>1, <2>3, <2>5 DEF ReadOnly
      <4> QED BY <3>1, <4>1, ZenonT(60)
    <3>2. CASE e.ro = FALSE
      <4>1. "ro" \notin FlagsOf(e) /\ FlagsOf(e) \ {"ro"} = e.flags \ {"ro"}
        BY <3>2, <2>3, <2>5 DEF ReadOnly
      <4>2. ("ro" \in FlagsOf(e)) = FALSE
        BY <4>1
      <4> QED BY <3>2, <4>1, <4>2, ZenonT(60)
    <3> QED BY <2>3, <3>1, <3>2, ZenonT(60)
  <2> QED BY <2>1, <2>6 DEF e
<1> QED
  BY <1>1, MountsInvariant, PTL

\* The program finds in its root what mount_one() has mounted for it, whether the
\* root was left, changed or swapped, and in the /dev that was moved there as well.
THEOREM VisibleTheorem == Spec => []MountsVisible
<1>1. MountsInv => MountsVisible
  <2> SUFFICES ASSUME MountsInv, pc = "done"
               PROVE  /\ (jail.root = "none") = (root = "host")
                      /\ \A n \in 1..(i - 1) :
                           jail.list[n].kind # "remount" /\ ~(jail.list[n].dest = "/proc" /\ jail.proc_ro) =>
                             \E k \in DOMAIN made : made[k].entry = n /\ (made[k].under = "temp" => dev = "final")
    BY ZenonT(60) DEF MountsVisible
  <2>1. (jail.root = "none") = (root = "host")
    BY DEF MountsInv, RootInv, Late
  <2>2. \A n \in 1..(i - 1) :
          jail.list[n].kind # "remount" /\ ~(jail.list[n].dest = "/proc" /\ jail.proc_ro) =>
            \E k \in DOMAIN made : made[k].entry = n
    BY DEF MountsInv, EntriesInv, Early
  <2>3. \A k \in DOMAIN made : made[k].under = "temp" => jail.mount_dev
    BY DEF MountsInv, MadeInv, Under
  <2>4. jail.mount_dev => dev = "final"
    BY DEF MountsInv, EntriesInv, Early
  <2> QED BY <2>1, <2>2, <2>3, <2>4
<1> QED
  BY <1>1, MountsInvariant, PTL

=============================================================================
