----------------------------- MODULE ToolProofs -----------------------------
(***************************************************************************)
(* Theorems about the parts of agent-tx that work before the network is    *)
(* reached.  The guard registry: for every number of processes, aliases    *)
(* and addresses, and every interleaving of their edits with one another   *)
(* and with crashes.  The command line: for lines of any length and any    *)
(* values, a slip in them or not.                                          *)
(***************************************************************************)
EXTENDS Registry, Cli, FoldLemmas

-----------------------------------------------------------------------------
(* What every edit makes of a registry it accepts.                         *)

Unambiguous(guards) ==
    \A i, j \in DOMAIN guards :
        (guards[i].alias = guards[j].alias \/ guards[i].address = guards[j].address) => i = j

(* A registry some edit may have written: no alias and no address twice,   *)
(* and a default that is registered unless there is no guard at all.       *)
Sound(reg) ==
    /\ reg \in [guards  : Seq([alias : Alias, address : GuardAddress]),
                default : Alias \union {NoAlias}]
    /\ Unambiguous(reg.guards)
    /\ IF reg.guards = <<>> THEN reg.default = NoAlias ELSE HasAlias(reg, reg.default)

(* A file that cannot be read loads as a sound registry (load_registry).   *)
LEMMA DefaultSound == Sound(Registry_default)
BY DEF Sound, Registry_default, Unambiguous

(* The only entry with an alias is the first one with it. *)
LEMMA FirstOfSound ==
    ASSUME NEW reg, Sound(reg), NEW alias, HasAlias(reg, alias)
    PROVE  /\ FirstOf(reg, alias) \in DOMAIN reg.guards
           /\ reg.guards[FirstOf(reg, alias)].alias = alias
<1>1. PICK i \in DOMAIN reg.guards : reg.guards[i].alias = alias
    BY DEF HasAlias
<1>2. \A j \in 1 .. i - 1 : reg.guards[j].alias # alias
    BY <1>1 DEF Sound, Unambiguous
<1>3. \E k \in DOMAIN reg.guards :
          reg.guards[k].alias = alias /\ \A j \in 1 .. k - 1 : reg.guards[j].alias # alias
    BY <1>1, <1>2
<1> QED  BY <1>3 DEF FirstOf

(* guards add keeps a registry sound. *)
LEMMA AddedSound ==
    ASSUME NEW reg, Sound(reg), NEW alias \in Alias, NEW address \in GuardAddress,
           ~ HasAlias(reg, alias), ~ HasAddress(reg, address)
    PROVE  Sound(Added(reg, alias, address))
<1> DEFINE new == Added(reg, alias, address)
           n == Len(reg.guards)
<1>1. /\ reg.guards \in Seq([alias : Alias, address : GuardAddress])
      /\ n \in Nat /\ DOMAIN reg.guards = 1..n
    BY DEF Sound
<1>2. /\ new.guards \in Seq([alias : Alias, address : GuardAddress])
      /\ DOMAIN new.guards = 1..(n + 1)
      /\ \A i \in 1..n : new.guards[i] = reg.guards[i]
      /\ new.guards[n + 1] = [alias |-> alias, address |-> address]
    BY <1>1 DEF Added
<1>3. Unambiguous(new.guards)
    BY <1>1, <1>2 DEF Sound, Unambiguous, HasAlias, HasAddress
<1>4. new.default \in Alias \union {NoAlias} /\ new.guards # <<>> /\ HasAlias(new, new.default)
    <2>0. n + 1 \in DOMAIN new.guards /\ new.guards # <<>>
        BY <1>1, <1>2
    <2>1. CASE reg.default = NoAlias
        <3>1. new.default = alias
            BY <2>1 DEF Added
        <3>2. new.guards[n + 1].alias = alias
            BY <1>2
        <3>3. HasAlias(new, alias)
            BY <2>0, <3>2 DEF HasAlias
        <3> QED  BY <2>0, <3>1, <3>3
    <2>2. CASE reg.default # NoAlias
        <3>1. PICK i \in 1..n : reg.guards[i].alias = reg.default
            BY <1>1, <2>2 DEF Sound, HasAlias
        <3>2. i \in DOMAIN new.guards /\ new.guards[i].alias = new.default
            BY <1>1, <1>2, <2>2, <3>1 DEF Added
        <3> QED  BY <1>1, <1>2, <2>2, <3>2 DEF HasAlias, Sound, Added
    <2> QED  BY <2>1, <2>2
<1>5. new = [guards |-> new.guards, default |-> new.default]
    BY DEF Added
<1> QED  BY <1>2, <1>3, <1>4, <1>5 DEF Sound

(* RemoveAt closes the gap it leaves. *)
LEMMA RemoveAtProperties ==
    ASSUME NEW S, NEW s \in Seq(S), NEW k \in 1..Len(s)
    PROVE  /\ RemoveAt(s, k) \in Seq(S)
           /\ Len(RemoveAt(s, k)) = Len(s) - 1
           /\ \A i \in 1..(Len(s) - 1) : RemoveAt(s, k)[i] = IF i < k THEN s[i] ELSE s[i + 1]
<1> DEFINE front == SubSeq(s, 1, k - 1)
           back  == SubSeq(s, k + 1, Len(s))
<1>1. Len(s) \in Nat /\ \A i \in 1..Len(s) : s[i] \in S
    OBVIOUS
<1>2. /\ front \in Seq(S) /\ Len(front) = k - 1
      /\ \A i \in 1..(k - 1) : front[i] = s[i]
    <2>1. \A i \in 1..(k - 1) : s[i] \in S
        BY <1>1
    <2> QED  BY <1>1, <2>1, SubSeqProperties
<1>3. /\ back \in Seq(S) /\ Len(back) = Len(s) - k
      /\ \A i \in 1..(Len(s) - k) : back[i] = s[k + i]
    <2>1. \A i \in (k + 1)..Len(s) : s[i] \in S
        BY <1>1
    <2> HIDE DEF back
    <2>2. /\ back \in Seq(S)
          /\ Len(back) = IF k + 1 <= Len(s) THEN Len(s) - (k + 1) + 1 ELSE 0
          /\ \A i \in 1 .. Len(s) - (k + 1) + 1 : back[i] = s[k + 1 + i - 1]
        BY <1>1, <2>1, SubSeqProperties DEF back
    <2> QED  BY <1>1, <2>2
<1> HIDE DEF front, back
<1>4. RemoveAt(s, k) = front \o back
    BY DEF RemoveAt, front, back
<1>5. /\ front \o back \in Seq(S)
      /\ Len(front \o back) = Len(front) + Len(back)
      /\ \A i \in 1 .. Len(front) + Len(back) :
             (front \o back)[i] = IF i <= Len(front) THEN front[i] ELSE back[i - Len(front)]
    BY <1>2, <1>3, ConcatProperties
<1>6. ASSUME NEW i \in 1..(Len(s) - 1)
      PROVE  (front \o back)[i] = IF i < k THEN s[i] ELSE s[i + 1]
    <2>1. CASE i < k
        BY <1>1, <1>2, <1>3, <1>5, <2>1
    <2>2. CASE ~ (i < k)
        <3>1. i - (k - 1) \in 1..(Len(s) - k) /\ i \in 1 .. Len(front) + Len(back) /\ ~ (i <= Len(front))
            BY <1>1, <1>2, <1>3, <2>2
        <3>2. (front \o back)[i] = back[i - (k - 1)]
            BY <1>2, <1>5, <3>1
        <3>3. back[i - (k - 1)] = s[k + (i - (k - 1))]
            BY <1>3, <3>1
        <3>4. k + (i - (k - 1)) = i + 1
            OBVIOUS
        <3> QED  BY <2>2, <3>2, <3>3, <3>4
    <2> QED  BY <2>1, <2>2
<1>7. Len(front) + Len(back) = Len(s) - 1
    BY <1>1, <1>2, <1>3
<1> QED  BY <1>4, <1>5, <1>6, <1>7

(* guards remove keeps a registry sound: the entries left are still        *)
(* unambiguous and the default passes to one of them.                      *)
LEMMA RemovedSound ==
    ASSUME NEW reg, Sound(reg), NEW alias \in Alias, HasAlias(reg, alias)
    PROVE  Sound(Removed(reg, alias))
<1> DEFINE new == Removed(reg, alias)
           n == Len(reg.guards)
           k == FirstOf(reg, alias)
<1>1. /\ reg.guards \in Seq([alias : Alias, address : GuardAddress])
      /\ n \in Nat /\ Len(reg.guards) = n /\ DOMAIN reg.guards = 1..n
    BY DEF Sound
<1> HIDE DEF n
<1>2. k \in 1..n /\ reg.guards[k].alias = alias
    BY <1>1, FirstOfSound
<1> HIDE DEF k
<1>3. new.guards = RemoveAt(reg.guards, k)
    BY DEF Removed, k
<1>4. /\ new.guards \in Seq([alias : Alias, address : GuardAddress])
      /\ Len(new.guards) = n - 1 /\ DOMAIN new.guards = 1..(n - 1)
      /\ \A i \in 1..(n - 1) :
             new.guards[i] = IF i < k THEN reg.guards[i] ELSE reg.guards[i + 1]
    <2>1. /\ RemoveAt(reg.guards, k) \in Seq([alias : Alias, address : GuardAddress])
          /\ Len(RemoveAt(reg.guards, k)) = n - 1
          /\ \A i \in 1..(n - 1) : RemoveAt(reg.guards, k)[i]
                 = IF i < k THEN reg.guards[i] ELSE reg.guards[i + 1]
        BY <1>1, <1>2, RemoveAtProperties
    <2> QED  BY <1>3, <2>1
<1> DEFINE old(i) == IF i < k THEN i ELSE i + 1
<1>5. \A i \in 1..(n - 1) : old(i) \in 1..n /\ new.guards[i] = reg.guards[old(i)]
    BY <1>1, <1>2, <1>4
<1>6. \A i, j \in 1..(n - 1) : old(i) = old(j) => i = j
    BY <1>1, <1>2
<1>7. Unambiguous(new.guards)
    <2> HIDE DEF new, old
    <2> SUFFICES ASSUME NEW i \in 1..(n - 1), NEW j \in 1..(n - 1),
                        \/ new.guards[i].alias = new.guards[j].alias
                        \/ new.guards[i].address = new.guards[j].address
                 PROVE  i = j
        BY <1>4 DEF Unambiguous
    <2>1. old(i) = old(j)
        BY <1>1, <1>5 DEF Sound, Unambiguous
    <2> QED  BY <1>6, <2>1
<1>8. CASE new.guards = <<>>
    <2>1. n = 1
        <3>1. n - 1 = 0
            BY <1>4, <1>8
        <3> QED  BY <1>1, <3>1
    <2>2. reg.default = alias
        BY <1>1, <1>2, <2>1 DEF Sound, HasAlias
    <2>3. new.default = NoAlias
        BY <1>8, <2>2 DEF Removed
    <2> QED  BY <1>4, <1>7, <1>8, <2>3 DEF Sound, Removed
<1>9. CASE new.guards # <<>>
    <2>0. 1 \in 1..(n - 1)
        BY <1>1, <1>4, <1>9
    <2>1. HasAlias(new, new.default) /\ new.default \in Alias \union {NoAlias}
        <3>1. CASE reg.default = alias
            <4>1. new.default = new.guards[1].alias
                BY <1>9, <3>1 DEF Removed
            <4>2. new.guards[1] \in [alias : Alias, address : GuardAddress]
                BY <1>4, <2>0, ElementOfSeq
            <4> HIDE DEF new
            <4> QED  BY <1>4, <2>0, <4>1, <4>2 DEF HasAlias
        <3>2. CASE reg.default # alias
            <4>1. new.default = reg.default
                BY <3>2 DEF Removed
            <4>2. PICK j \in 1..n : reg.guards[j].alias = reg.default
                BY <1>1, <2>0 DEF Sound, HasAlias
            <4>3. j # k
                BY <1>2, <3>2, <4>2
            <4>4. PICK i \in 1..(n - 1) : old(i) = j
                <5>1. CASE j < k
                    <6>1. j \in 1..(n - 1) /\ old(j) = j
                        BY <1>1, <1>2, <5>1
                    <6> QED  BY <6>1
                <5>2. CASE j > k
                    <6>1. j - 1 \in 1..(n - 1) /\ old(j - 1) = j
                        BY <1>1, <1>2, <5>2
                    <6> QED  BY <6>1
                <5> QED  BY <1>1, <1>2, <4>3, <5>1, <5>2
            <4> QED  BY <1>4, <1>5, <4>1, <4>2, <4>4 DEF HasAlias, Sound
        <3> QED  BY <3>1, <3>2
    <2>2. new = [guards |-> new.guards, default |-> new.default]
        BY DEF Removed
    <2> QED  BY <1>4, <1>7, <1>9, <2>1, <2>2 DEF Sound
<1> QED  BY <1>8, <1>9

(* Every edit a registry accepts keeps it sound. *)
LEMMA EditedSound ==
    ASSUME NEW reg, Sound(reg), NEW cmd \in Edit, Accepts(reg, cmd)
    PROVE  Sound(Edited(reg, cmd))
<1>1. CASE cmd.sub = "add"
    BY <1>1, AddedSound DEF Edited, Accepts, Edit
<1>2. CASE cmd.sub = "remove"
    BY <1>2, RemovedSound DEF Edited, Accepts, Edit
<1>3. CASE cmd.sub = "set-default"
    <2>1. cmd.alias \in Alias /\ HasAlias(reg, cmd.alias)
        BY <1>3 DEF Accepts, Edit
    <2>2. Edited(reg, cmd) = [reg EXCEPT !.default = cmd.alias]
        BY <1>3 DEF Edited
    <2> QED  BY <2>1, <2>2 DEF Sound, HasAlias
<1> QED  BY <1>1, <1>2, <1>3 DEF Edit

-----------------------------------------------------------------------------
(* The inductive invariant.  What loads is sound because a process only    *)
(* ever holds a sound registry; that it is also the result of the finished *)
(* edits needs to know where the one edit under way stands.                *)

Pending(p) == proc[p].pc # "idle"

ProcessesHoldSound ==
    \A p \in Process :
        \/ proc[p] = Resting
        \/ /\ proc[p] \in [pc : {"save", "write"}, cmd : Edit, reg : {proc[p].reg}]
           /\ Sound(proc[p].reg)

FileSound == file.holds = Unreadable \/ Sound(file.holds)

OneEditAtATime ==
    clean =>
        /\ \A p, q \in Process : Pending(p) /\ Pending(q) => p = q
        /\ \A p \in Process : Pending(p) => proc[p].reg = Edited(serial, proc[p].cmd)
        /\ \A p \in Process : proc[p].pc = "write" => file = Empty

RIInv ==
    /\ proc \in [Process -> {proc[p] : p \in Process}]
    /\ clean \in BOOLEAN
    /\ FileSound
    /\ ProcessesHoldSound
    /\ OneEditAtATime
    /\ SerialEditsKept

(* Whatever the file holds, what is loaded from it is sound. *)
LEMMA LoadedSound == FileSound => Sound(load_registry)
BY DefaultSound DEF FileSound, load_registry

(* Text of a sound registry reads back as that registry. *)
LEMMA SoundReads ==
    ASSUME NEW reg, Sound(reg)
    PROVE  (IF reg = Unreadable THEN Registry_default ELSE reg) = reg
BY DEF Sound, Unreadable, Registry_default

(* The file of an account that never had a guard is the empty one. *)
LEMMA RInitRIInv == RInit => RIInv
<1> SUFFICES ASSUME RInit PROVE RIInv
    OBVIOUS
<1>1. clean \in BOOLEAN
    BY Zenon DEF RInit
<1>2. \A p \in Process : proc[p] = Resting /\ ~ Pending(p) /\ proc[p].pc # "write"
    BY DEF RInit, Resting, Pending
<1>3. proc \in [Process -> {proc[p] : p \in Process}]
    BY DEF RInit
<1>4. SerialEditsKept
    BY DEF RInit, SerialEditsKept, load_registry, Empty
<1> QED
    BY <1>1, <1>2, <1>3, <1>4
    DEF RInit, RIInv, FileSound, Empty, ProcessesHoldSound, OneEditAtATime

(* Loading and editing. *)
LEMMA LoadRIInv ==
    ASSUME RIInv, NEW p \in Process, NEW cmd \in Edit, Load(p, cmd)
    PROVE  RIInv'
<1> DEFINE reg == Edited(load_registry, cmd)
           entry == [pc |-> "save", cmd |-> cmd, reg |-> reg]
<1>1. Sound(reg)
    BY LoadedSound, EditedSound DEF RIInv, Load
<1>2. proc' = [proc EXCEPT ![p] = entry] /\ file' = file /\ serial' = serial
    BY DEF Load
<1>3. proc'[p] = entry /\ \A q \in Process : q # p => proc'[q] = proc[q]
    BY <1>2 DEF RIInv
<1> HIDE DEF reg
<1>4. proc' \in [Process -> {proc'[q] : q \in Process}]
    BY <1>2 DEF RIInv
<1>5. FileSound'
    BY <1>2 DEF RIInv, FileSound
<1>6. ProcessesHoldSound'
    BY <1>1, <1>3 DEF RIInv, ProcessesHoldSound
<1>7. clean' \in BOOLEAN
    BY Zenon DEF Load
<1>8. ASSUME clean' PROVE clean /\ \A q \in Process : proc[q].pc = "idle"
    BY <1>8 DEF Load
<1>9. ASSUME clean' PROVE load_registry = serial
    BY <1>8, <1>9 DEF RIInv, SerialEditsKept
<1>10. OneEditAtATime'
    BY <1>2, <1>3, <1>8, <1>9 DEF OneEditAtATime, Pending, reg
<1>11. SerialEditsKept'
    BY <1>2, <1>8, <1>9 DEF SerialEditsKept, load_registry
<1> QED  BY <1>4, <1>5, <1>6, <1>7, <1>10, <1>11 DEF RIInv

(* Opening the file for writing. *)
LEMMA TruncateRIInv ==
    ASSUME RIInv, NEW p \in Process, Truncate(p)
    PROVE  RIInv'
<1>1. /\ proc' = [proc EXCEPT ![p].pc = "write"] /\ file' = Empty
      /\ serial' = serial /\ clean' = clean /\ proc[p].pc = "save"
    BY DEF Truncate, Truncated
<1>2. /\ proc[p] \in [pc : {"save", "write"}, cmd : Edit, reg : {proc[p].reg}]
      /\ Sound(proc[p].reg)
    BY <1>1 DEF RIInv, ProcessesHoldSound, Resting
<1>3. /\ proc'[p] = [proc[p] EXCEPT !.pc = "write"]
      /\ \A q \in Process : q # p => proc'[q] = proc[q]
    BY <1>1 DEF RIInv
<1>4. /\ proc'[p].pc = "write" /\ proc'[p].reg = proc[p].reg /\ proc'[p].cmd = proc[p].cmd
      /\ proc'[p] \in [pc : {"save", "write"}, cmd : Edit, reg : {proc[p].reg}]
    BY <1>2, <1>3
<1>5. proc' \in [Process -> {proc'[q] : q \in Process}]
    BY <1>1 DEF RIInv
<1>6. FileSound'
    BY <1>1 DEF FileSound, Empty
<1>7. ProcessesHoldSound'
    BY <1>2, <1>3, <1>4 DEF RIInv, ProcessesHoldSound
<1>8. OneEditAtATime'
    BY <1>1, <1>3, <1>4 DEF RIInv, OneEditAtATime, Pending
<1>9. SerialEditsKept'
    BY <1>4 DEF SerialEditsKept
<1>10. clean' \in BOOLEAN
    BY <1>1 DEF RIInv
<1> QED  BY <1>5, <1>6, <1>7, <1>8, <1>9, <1>10 DEF RIInv

(* Writing the text. *)
LEMMA WriteRIInv ==
    ASSUME RIInv, NEW p \in Process, Write(p)
    PROVE  RIInv'
<1>1. /\ proc' = [proc EXCEPT ![p] = Resting] /\ file' = Overwritten(proc[p].reg)
      /\ serial' = (IF clean THEN Edited(serial, proc[p].cmd) ELSE serial)
      /\ clean' = clean /\ proc[p].pc = "write"
    BY DEF Write
<1>2. Sound(proc[p].reg)
    BY <1>1 DEF RIInv, ProcessesHoldSound, Resting
<1>3. proc'[p] = Resting /\ \A q \in Process : q # p => proc'[q] = proc[q]
    BY <1>1 DEF RIInv
<1>4. proc' \in [Process -> {proc'[q] : q \in Process}]
    BY <1>1 DEF RIInv
<1>5. FileSound'
    <2>1. CASE TextLength(proc[p].reg) < file.length
        BY <1>1, <2>1 DEF Overwritten, FileSound
    <2>2. CASE ~ (TextLength(proc[p].reg) < file.length)
        BY <1>1, <1>2, <2>2 DEF Overwritten, FileSound
    <2> QED  BY <2>1, <2>2
<1>6. ProcessesHoldSound'
    BY <1>3 DEF RIInv, ProcessesHoldSound
<1>7. OneEditAtATime'
    BY <1>1, <1>3 DEF RIInv, OneEditAtATime, Pending, Resting
<1>8. ASSUME clean' PROVE load_registry' = serial'
    <2>1. file = Empty /\ proc[p].reg = Edited(serial, proc[p].cmd)
        BY <1>1, <1>8 DEF RIInv, OneEditAtATime, Pending
    <2>2. Len(proc[p].reg.guards) \in Nat
        BY <1>2 DEF Sound
    <2>3. file'.holds = proc[p].reg
        BY <1>1, <2>1, <2>2 DEF Overwritten, TextLength, Empty
    <2> QED  BY <1>1, <1>2, <1>8, <2>1, <2>3, SoundReads DEF load_registry
<1>9. SerialEditsKept'
    BY <1>8 DEF SerialEditsKept
<1>10. clean' \in BOOLEAN
    BY <1>1 DEF RIInv
<1> QED  BY <1>4, <1>5, <1>6, <1>7, <1>9, <1>10 DEF RIInv

(* Being killed before, between or after the two steps of a save. *)
LEMMA CrashRIInv ==
    ASSUME RIInv, NEW p \in Process, Crash(p)
    PROVE  RIInv'
<1>1. /\ proc' = [proc EXCEPT ![p] = Resting] /\ file' = file /\ serial' = serial
      /\ clean' = (clean /\ proc[p].pc = "save") /\ proc[p].pc # "idle"
    BY DEF Crash
<1>3. proc'[p] = Resting /\ \A q \in Process : q # p => proc'[q] = proc[q]
    BY <1>1 DEF RIInv
<1>4. proc' \in [Process -> {proc'[q] : q \in Process}]
    BY <1>1 DEF RIInv
<1>5. FileSound'
    BY <1>1 DEF RIInv, FileSound
<1>6. ProcessesHoldSound'
    BY <1>3 DEF RIInv, ProcessesHoldSound
<1>7. ASSUME clean' PROVE clean /\ proc[p].pc = "save"
    BY <1>1, <1>7
<1>8. OneEditAtATime'
    BY <1>1, <1>3, <1>7 DEF RIInv, OneEditAtATime, Pending, Resting
<1>9. SerialEditsKept'
    <2> SUFFICES ASSUME clean' PROVE load_registry' = serial'
        BY DEF SerialEditsKept
    <2>1. \A q \in Process : proc[q].pc # "write"
        BY <1>1, <1>7 DEF RIInv, OneEditAtATime, Pending
    <2> QED  BY <1>1, <1>7, <2>1 DEF RIInv, SerialEditsKept, load_registry
<1>10. clean' \in BOOLEAN
    BY <1>1, Zenon
<1> QED  BY <1>4, <1>5, <1>6, <1>8, <1>9, <1>10 DEF RIInv

(* RIInv is an invariant of the registry. *)
THEOREM RegistryInvariance == RSpec => []RIInv
<1>1. RIInv /\ UNCHANGED rvars => RIInv'
    BY DEF RIInv, FileSound, ProcessesHoldSound, OneEditAtATime, SerialEditsKept, Pending,
           load_registry, rvars
<1>2. RIInv /\ [RNext]_rvars => RIInv'
    BY <1>1, LoadRIInv, TruncateRIInv, WriteRIInv, CrashRIInv DEF RNext
<1> QED  BY <1>2, RInitRIInv, PTL DEF RSpec

-----------------------------------------------------------------------------
(* Whatever overlaps or is cut short, the registry that loads names every  *)
(* alias and every address once (cmd_guards_add, save_registry).           *)
THEOREM RegistryStaysUnambiguous == RSpec => []RegistryUnambiguous
<1>1. RIInv => RegistryUnambiguous
    BY LoadedSound DEF RIInv, Sound, Unambiguous, RegistryUnambiguous
<1> QED  BY <1>1, RegistryInvariance, PTL

(* As long as a guard is registered, a run without --guard finds one       *)
(* (resolve_guard, cmd_guards_remove).                                     *)
THEOREM DefaultAlwaysResolves == RSpec => []DefaultResolves
<1>1. RIInv => DefaultResolves
    <2> SUFFICES ASSUME RIInv, load_registry.guards # <<>>
                 PROVE  resolve_default(load_registry) # NoAlias
        BY DEF DefaultResolves
    <2> DEFINE reg == load_registry
    <2>1. Sound(reg)
        BY LoadedSound DEF RIInv
    <2> HIDE DEF reg
    <2>2. HasAlias(reg, reg.default)
        BY <2>1 DEF Sound, reg
    <2>3. FirstOf(reg, reg.default) \in DOMAIN reg.guards
        BY <2>1, <2>2, FirstOfSound
    <2>4. reg.guards[FirstOf(reg, reg.default)].address \in GuardAddress
        <3>1. reg.guards \in Seq([alias : Alias, address : GuardAddress])
            BY <2>1 DEF Sound
        <3>2. reg.guards[FirstOf(reg, reg.default)] \in [alias : Alias, address : GuardAddress]
            BY <2>3, <3>1, ElementOfSeq, LenProperties
        <3> QED  BY <3>2
    <2>5. resolve_default(reg) \in GuardAddress
        BY <2>2, <2>4 DEF resolve_default
    <2> QED  BY <2>5, RegistryConstants DEF reg
<1> QED  BY <1>1, RegistryInvariance, PTL

(* Edits that neither overlap nor are cut short are all in the file        *)
(* (load_registry, save_registry).                                         *)
THEOREM SerialEditsAreKept == RSpec => []SerialEditsKept
<1>1. RIInv => SerialEditsKept
    BY DEF RIInv
<1> QED  BY <1>1, RegistryInvariance, PTL

-----------------------------------------------------------------------------
(* The loop over the tokens of a command line. *)

AnyFlag == UNION {valid_flags_for_subcommand(cmd) : cmd \in Subcommand}
Unset(flag) == IF flag \in Switch THEN FALSE ELSE None

(* The flag a token gives a value to: a secret of "-" is a file. *)
Target(token) ==
    IF token.flag = "--secret" /\ token.value = Dash THEN "--agent-secret-file" ELSE token.flag

(* What the loop can have collected from a line. *)
Args(argv) ==
    [bad : BOOLEAN,
     got : [AnyFlag -> {None, Dash} \union BOOLEAN \union {argv[i].value : i \in 1..Len(argv)}]]

(* What is known after the first k tokens, unless the loop has stopped: a  *)
(* flag that is set was given by one of them, with the value it was given  *)
(* last, and is valid for the command; and each of them has set its flag.  *)
Followed(cmd, argv, k, args) ==
    ~ args.bad =>
        /\ \A flag \in AnyFlag : args.got[flag] # Unset(flag) =>
               /\ flag \in valid_flags_for_subcommand(cmd)
               /\ \E i \in 1..k : /\ Target(argv[i]) = flag
                                  /\ flag \notin Switch => args.got[flag] = argv[i].value
                                  /\ \A j \in 1..k : Target(argv[j]) = flag => j <= i
        /\ \A i \in 1..k : /\ Target(argv[i]) \in AnyFlag
                           /\ args.got[Target(argv[i])] # Unset(Target(argv[i]))

LEMMA ValidIsAny ==
    ASSUME NEW cmd \in Subcommand
    PROVE  /\ valid_flags_for_subcommand(cmd) \subseteq AnyFlag
           /\ "--agent-secret-file" \in AnyFlag
           /\ "--secret" \in valid_flags_for_subcommand(cmd) =>
                  "--agent-secret-file" \in valid_flags_for_subcommand(cmd)
<1>1. valid_flags_for_subcommand(cmd) \subseteq AnyFlag
    BY DEF AnyFlag
<1>2. "transfer" \in Subcommand
    BY DEF Subcommand, SpendCommand
<1>3. "--agent-secret-file" \in valid_flags_for_subcommand("transfer")
    BY DEF valid_flags_for_subcommand, SubmitCommand
<1>4. "--agent-secret-file" \in AnyFlag
    BY <1>2, <1>3 DEF AnyFlag
<1>5. "--secret" \in valid_flags_for_subcommand(cmd) =>
          "--agent-secret-file" \in valid_flags_for_subcommand(cmd)
    BY DEF valid_flags_for_subcommand
<1> QED  BY <1>1, <1>4, <1>5

(* One turn of the loop. *)
LEMMA TakeType ==
    ASSUME NEW cmd \in Subcommand, NEW argv, NEW k \in 1..Len(argv), NEW args \in Args(argv)
    PROVE  Take(cmd, args, argv[k]) \in Args(argv)
<1> DEFINE flag == argv[k].flag
           value == argv[k].value
           V == {None, Dash} \union BOOLEAN \union {argv[i].value : i \in 1..Len(argv)}
<1>1. value \in V /\ Dash \in V /\ TRUE \in V
    OBVIOUS
<1>2. args.got \in [AnyFlag -> V] /\ args.bad \in BOOLEAN /\ args = [bad |-> args.bad, got |-> args.got]
    BY DEF Args
<1>3. \/ Take(cmd, args, argv[k]) = args
      \/ Take(cmd, args, argv[k]) = [args EXCEPT !.bad = TRUE]
      \/ \E f \in AnyFlag, v \in V : Take(cmd, args, argv[k]) = [args EXCEPT !.got[f] = v]
    <2> HIDE DEF V
    <2> QED  BY <1>1, ValidIsAny DEF Take
<1> HIDE DEF V
<1>4. ASSUME NEW f \in AnyFlag, NEW v \in V PROVE [args EXCEPT !.got[f] = v] \in [bad : BOOLEAN, got : [AnyFlag -> V]]
    BY <1>2
<1>5. [args EXCEPT !.bad = TRUE] \in [bad : BOOLEAN, got : [AnyFlag -> V]]
    BY <1>2
<1> QED  BY <1>3, <1>4, <1>5 DEF Args, V

LEMMA TakeFollows ==
    ASSUME NEW cmd \in Subcommand, NEW argv, NEW k \in Nat, k + 1 \in 1..Len(argv),
           NEW args \in Args(argv), Followed(cmd, argv, k, args)
    PROVE  Followed(cmd, argv, k + 1, Take(cmd, args, argv[k + 1]))
<1> DEFINE token == argv[k + 1]
           flag == token.flag
           target == Target(token)
           next == Take(cmd, args, token)
           value == IF flag \in Switch THEN TRUE ELSE token.value
<1> SUFFICES ASSUME ~ next.bad PROVE Followed(cmd, argv, k + 1, next)
    BY DEF Followed
<1>0. args.got = [f \in AnyFlag |-> args.got[f]] /\ args = [bad |-> args.bad, got |-> args.got]
    BY DEF Args
<1>1. /\ ~ args.bad /\ flag \in valid_flags_for_subcommand(cmd)
      /\ flag \notin Switch => token.value # None /\ ParsesFor(flag, token.value)
    BY <1>0 DEF Take
<1>2. target \in valid_flags_for_subcommand(cmd) /\ target \in AnyFlag
    BY <1>1, ValidIsAny DEF Target
<1>3. flag \in Switch => target = flag
    BY DEF Target, Switch
<1>4. flag \notin Switch => target \notin Switch
    BY DEF Target, Switch
<1>5. value # Unset(target)
    BY <1>1, <1>3, <1>4 DEF Unset
<1>6. next = [args EXCEPT !.got[target] = value]
    <2>1. CASE flag \in Switch
        BY <1>1, <1>3, <2>1, Zenon DEF Take
    <2>2. CASE flag \notin Switch
        BY <1>1, <2>2, Zenon DEF Take, Target
    <2> QED  BY <2>1, <2>2
<1>7. next.got[target] = value /\ \A f \in AnyFlag : f # target => next.got[f] = args.got[f]
    <2> HIDE DEF value, target, next
    <2> QED  BY <1>0, <1>2, <1>6
<1>8. ASSUME NEW f \in AnyFlag, next.got[f] # Unset(f)
      PROVE  /\ f \in valid_flags_for_subcommand(cmd)
             /\ \E i \in 1..(k + 1) : /\ Target(argv[i]) = f
                                      /\ f \notin Switch => next.got[f] = argv[i].value
                                      /\ \A j \in 1..(k + 1) : Target(argv[j]) = f => j <= i
    <2>1. CASE f = target
        <3>1. k + 1 \in 1..(k + 1) /\ Target(argv[k + 1]) = f
            BY <2>1
        <3>2. f \notin Switch => next.got[f] = argv[k + 1].value
            BY <1>3, <1>7, <2>1
        <3>3. \A j \in 1..(k + 1) : j <= k + 1
            OBVIOUS
        <3> QED  BY <1>2, <2>1, <3>1, <3>2, <3>3
    <2>2. CASE f # target
        <3>1. next.got[f] = args.got[f]
            BY <1>7, <2>2
        <3>2. /\ f \in valid_flags_for_subcommand(cmd)
              /\ \E i \in 1..k : /\ Target(argv[i]) = f
                                 /\ f \notin Switch => args.got[f] = argv[i].value
                                 /\ \A j \in 1..k : Target(argv[j]) = f => j <= i
            BY <1>1, <1>8, <3>1 DEF Followed
        <3>3. 1..k \subseteq 1..(k + 1) /\ \A j \in 1..(k + 1) : j \in 1..k \/ j = k + 1
            OBVIOUS
        <3>4. Target(argv[k + 1]) # f
            BY <2>2
        <3> HIDE DEF next, target, token
        <3> QED  BY <3>1, <3>2, <3>3, <3>4
    <2> QED  BY <2>1, <2>2
<1>9. ASSUME NEW i \in 1..(k + 1)
      PROVE  Target(argv[i]) \in AnyFlag /\ next.got[Target(argv[i])] # Unset(Target(argv[i]))
    <2>1. CASE Target(argv[i]) = target
        BY <1>2, <1>5, <1>7, <2>1
    <2>2. CASE Target(argv[i]) # target
        <3>1. i \in 1..k
            BY <2>2
        <3>2. Target(argv[i]) \in AnyFlag /\ args.got[Target(argv[i])] # Unset(Target(argv[i]))
            BY <1>1, <3>1 DEF Followed
        <3> QED  BY <1>7, <2>2, <3>2
    <2> QED  BY <2>1, <2>2
<1> HIDE DEF next
<1> QED  BY <1>8, <1>9 DEF Followed

(* The arguments collected so far, by the set of tokens read. *)
Reading(cmd, argv) ==
    CHOOSE f : f = [T \in SUBSET (DOMAIN argv) |->
                      IF T = {} THEN NoArgs ELSE Take(cmd, f[T \ {Max(T)}], argv[Max(T)])]

LEMMA CollectedIsReading ==
    ASSUME NEW cmd, NEW argv
    PROVE  Collected(cmd, argv) = Reading(cmd, argv)[DOMAIN argv]
BY DEF Collected, FoldLeft, MapThenFoldSet, Reading

LEMMA NoArgsType ==
    ASSUME NEW argv
    PROVE  NoArgs \in Args(argv) /\ NoArgs.bad = FALSE /\ \A f \in AnyFlag : NoArgs.got[f] = Unset(f)
BY DEF NoArgs, Args, AnyFlag, Unset

(* The loop reads the line token by token, to its end. *)
LEMMA ReadingDef ==
    ASSUME NEW cmd \in Subcommand, NEW X, NEW argv \in Seq(X)
    PROVE  LET F == Reading(cmd, argv)
           IN  /\ F[{}] = NoArgs
               /\ \A T \in SUBSET (1..Len(argv)) : T # {} =>
                      F[T] = Take(cmd, F[T \ {Max(T)}], argv[Max(T)])
               /\ \A T \in SUBSET (1..Len(argv)) : F[T] \in Args(argv)
<1> DEFINE n == Len(argv)
           A == Args(argv)
           step == [k \in 1..n |-> [s \in A |-> Take(cmd, s, argv[k])]]
           Eq(f) == f = [T \in SUBSET (1..n) |->
                            IF T = {} THEN NoArgs
                            ELSE Take(cmd, f[T \ {Max(T)}], argv[Max(T)])]
           F == Reading(cmd, argv)
<1>1. n \in Nat /\ DOMAIN argv = 1..n
    BY LenProperties
<1>2. step \in [1..n -> [A -> A]]
    BY TakeType
<1>3. \A k \in 1..n : \A s \in A : step[k][s] = Take(cmd, s, argv[k])
    OBVIOUS
<1>0. NoArgs \in A
    BY NoArgsType
<1> HIDE DEF n, step, A
<1>4. FoldOf(1..n, A, NoArgs, LastOf(n), step)
    <2>1. IsFiniteSet(1..n)
        BY <1>1, FS_Interval
    <2>2. \A T \in SUBSET (1..n) : T # {} => LastOf(n)[T] \in T
        BY <1>1, MaxIn DEF LastOf
    <2> QED  BY <1>0, <1>2, <2>1, <2>2 DEF FoldOf
<1>5. PICK g : IsIter(g, 1..n, A, NoArgs, LastOf(n), step)
    BY <1>4, IterExists
<1>6. \A T \in SUBSET (1..n) : T # {} =>
          /\ LastOf(n)[T] = Max(T) /\ Max(T) \in 1..n /\ T \ {Max(T)} \in SUBSET (1..n)
    BY <1>1, MaxIn DEF LastOf
<1>7. \A T \in SUBSET (1..n) : T # {} => g[T] = Take(cmd, g[T \ {Max(T)}], argv[Max(T)])
    <2> SUFFICES ASSUME NEW T \in SUBSET (1..n), T # {}
                 PROVE  g[T] = Take(cmd, g[T \ {Max(T)}], argv[Max(T)])
        OBVIOUS
    <2>1. g[T] = step[Max(T)][g[T \ {Max(T)}]] /\ g[T \ {Max(T)}] \in A
        BY <1>5, <1>6 DEF IsIter
    <2> QED  BY <1>3, <1>6, <2>1
<1>8. Eq(g)
    BY <1>5, <1>7 DEF IsIter
<1>9. Eq(F)
    BY <1>1, <1>8 DEF Reading
<1> HIDE DEF F
<1>10. F[{}] = NoArgs
       /\ \A T \in SUBSET (1..n) : T # {} => F[T] = Take(cmd, F[T \ {Max(T)}], argv[Max(T)])
    BY <1>9
<1>11. ASSUME NEW T \in SUBSET (1..n), T # {}, F[T \ {LastOf(n)[T]}] \in A
       PROVE  F[T] = step[LastOf(n)[T]][F[T \ {LastOf(n)[T]}]]
    <2>1. LastOf(n)[T] = Max(T) /\ Max(T) \in 1..n
        BY <1>6, <1>11
    <2>2. F[T] = Take(cmd, F[T \ {Max(T)}], argv[Max(T)])
        BY <1>10, <1>11
    <2>3. F[T \ {Max(T)}] \in A
        BY <1>11, <2>1, Zenon
    <2>4. step[Max(T)][F[T \ {Max(T)}]] = Take(cmd, F[T \ {Max(T)}], argv[Max(T)])
        BY <1>3, <2>1, <2>3
    <2> QED  BY <2>1, <2>2, <2>4, Zenon
<1>12. \A T \in SUBSET (1..n) : F[T] \in A
    <2>1. Follows(F, 1..n, A, NoArgs, LastOf(n), step)
        BY <1>10, <1>11, Zenon DEF Follows
    <2> QED  BY <1>4, <2>1, IterTyped, Zenon
<1> QED  BY <1>10, <1>12 DEF F, n, A

LEMMA CollectedFollows ==
    ASSUME NEW cmd \in Subcommand, NEW X, NEW argv \in Seq(X)
    PROVE  /\ Collected(cmd, argv) \in Args(argv)
           /\ Followed(cmd, argv, Len(argv), Collected(cmd, argv))
<1> DEFINE n == Len(argv)
           F == Reading(cmd, argv)
           N == {k \in Nat : k <= n => Followed(cmd, argv, k, F[1..k])}
<1>1. n \in Nat /\ DOMAIN argv = 1..n
    BY LenProperties
<1>2. /\ F[{}] = NoArgs
      /\ \A T \in SUBSET (1..n) : T # {} => F[T] = Take(cmd, F[T \ {Max(T)}], argv[Max(T)])
      /\ \A T \in SUBSET (1..n) : F[T] \in Args(argv)
    BY ReadingDef
<1>3. Collected(cmd, argv) = F[1..n]
    BY <1>1, CollectedIsReading
<1> HIDE DEF n, F
<1>4. 0 \in N
    <2>1. 1..0 = {} /\ F[1..0] = NoArgs
        BY <1>2
    <2> QED  BY <2>1, NoArgsType DEF Followed
<1>5. ASSUME NEW k \in Nat, k \in N PROVE k + 1 \in N
    <2> SUFFICES ASSUME k + 1 <= n PROVE Followed(cmd, argv, k + 1, F[1..(k + 1)])
        OBVIOUS
    <2>1. /\ 1..(k + 1) \in SUBSET (1..n) /\ 1..k \in SUBSET (1..n) /\ 1..(k + 1) # {}
          /\ Max(1..(k + 1)) = k + 1 /\ (1..(k + 1)) \ {Max(1..(k + 1))} = 1..k
        <3>1. 1..(k + 1) \in SUBSET (1..n) /\ 1..k \in SUBSET (1..n)
            <4>1. \A i \in 1..(k + 1) : i \in 1..n
                BY ONLY <1>1, k \in Nat, k + 1 <= n
            <4>2. \A i \in 1..k : i \in 1..n
                BY ONLY <1>1, k \in Nat, k + 1 <= n
            <4> QED  BY <4>1, <4>2
        <3> QED  BY <3>1, PrefixGrows
    <2>2. F[1..(k + 1)] = Take(cmd, F[(1..(k + 1)) \ {Max(1..(k + 1))}], argv[Max(1..(k + 1))])
        BY <1>2, <2>1
    <2>3. F[1..(k + 1)] = Take(cmd, F[1..k], argv[k + 1])
        BY <2>1, <2>2, Zenon
    <2>4. F[1..k] \in Args(argv) /\ Followed(cmd, argv, k, F[1..k]) /\ k + 1 \in 1..Len(argv)
        BY <1>1, <1>2, <1>5, <2>1 DEF n
    <2>5. Followed(cmd, argv, k + 1, Take(cmd, F[1..k], argv[k + 1]))
        BY <2>4, TakeFollows
    <2> QED  BY <2>3, <2>5, Zenon
<1>6. n \in N
    <2> HIDE DEF N
    <2> QED  BY <1>1, <1>4, <1>5, SetInduction
<1> QED  BY <1>1, <1>2, <1>3, <1>6 DEF n

-----------------------------------------------------------------------------
(* Requests *)

GuardOf(l) == resolve_guard(Collected(l.cmd, l.argv).got["--guard"], l.reg)
SecretOf(l) == resolve_secret(Collected(l.cmd, l.argv).got, l)
EndpointOf(l) ==
    LET got == Collected(l.cmd, l.argv).got
    IN  resolve_endpoint(got["--network"], got["--rpc-url"], got["--network-passphrase"])

(* What parse_request has looked at before it lets a line pass. *)
Passed(l) ==
    LET args == Collected(l.cmd, l.argv)
        got  == args.got
    IN  /\ l.cmd \in Subcommand /\ ~ args.bad
        /\ EndpointOf(l) # None
        /\ validate_key("Contract", GuardOf(l))
        /\ got["--agent-secret-file"] # None => SecretOf(l) # None
        /\ SecretOf(l) # None => validate_key("Secret", SecretOf(l))
        /\ l.cmd \in SubmitCommand => SecretOf(l) # None
        /\ l.cmd \in SpendCommand =>
               /\ validate_key("Contract", got["--asset"])
               /\ validate_key("Recipient", got["--to"])
               /\ got["--amount"] # None
        /\ l.cmd = "transfer-from" => validate_key("Recipient", got["--from"])

RequestOf(l) ==
    LET got == Collected(l.cmd, l.argv).got
    IN  [kind |-> "request", guard |-> GuardOf(l), secret |-> SecretOf(l), endpoint |-> EndpointOf(l),
         token |-> got["--asset"], from |-> got["--from"], to |-> got["--to"],
         amount |-> got["--amount"], expect_blocked |-> got["--expect-blocked"],
         notice |-> notice(EndpointOf(l).network)]

LEMMA RequestPassed ==
    ASSUME NEW l, main(l).kind = "request"
    PROVE  Passed(l) /\ main(l) = RequestOf(l)
<1>1. Refused.kind # "request" /\ Help.kind # "request"
    BY DEF Refused, Help
<1>2. main(l) = parse_request(l) /\ l.cmd \in Subcommand
    BY <1>1, Zenon DEF main
<1>3. parse_request(l) # Refused
    BY <1>1, <1>2, Zenon
<1>4. Passed(l)
    BY <1>2, <1>3, Zenon DEF parse_request, Passed, GuardOf, SecretOf, EndpointOf
<1>5. parse_request(l) = RequestOf(l)
    BY <1>3, Zenon DEF parse_request, RequestOf, GuardOf, SecretOf, EndpointOf
<1> QED  BY <1>2, <1>4, <1>5

(* The versions that pass for a kind of key. *)
LEMMA Versions ==
    /\ versions("Contract") = {VER_CONTRACT} /\ versions("Secret") = {VER_SECRET}
    /\ versions("Recipient") = {VER_ACCOUNT, VER_CONTRACT}
BY Zenon DEF versions

(* Nothing is collected that is not valid for the command. *)
LEMMA OnlyValid ==
    ASSUME NEW cmd \in Subcommand, NEW X, NEW argv \in Seq(X), ~ Collected(cmd, argv).bad
    PROVE  LET got == Collected(cmd, argv).got
           IN  /\ cmd \notin SpendCommand =>
                      got["--asset"] = None /\ got["--to"] = None /\ got["--amount"] = None
               /\ cmd # "transfer-from" => got["--from"] = None
               /\ got["--expect-blocked"] # FALSE => cmd \in {"preflight", "transfer", "transfer-from"}
               /\ cmd \in ReadCommand => got["--secret"] = None /\ got["--agent-secret-file"] = None
<1> DEFINE got == Collected(cmd, argv).got
           ok == valid_flags_for_subcommand(cmd)
<1>1. \A flag \in AnyFlag : got[flag] # Unset(flag) => flag \in ok
    BY CollectedFollows DEF Followed
<1>2. {"--asset", "--to", "--amount", "--from", "--expect-blocked", "--secret", "--agent-secret-file"}
          \subseteq AnyFlag
    <2>1. "transfer-from" \in Subcommand
        BY DEF Subcommand, SpendCommand
    <2>2. {"--asset", "--to", "--amount", "--from", "--expect-blocked", "--secret",
           "--agent-secret-file"} \subseteq valid_flags_for_subcommand("transfer-from")
        BY DEF valid_flags_for_subcommand, SpendCommand, SubmitCommand
    <2> QED  BY <2>1, <2>2 DEF AnyFlag
<1>3. /\ Unset("--asset") = None /\ Unset("--to") = None /\ Unset("--amount") = None
      /\ Unset("--from") = None /\ Unset("--expect-blocked") = FALSE
      /\ Unset("--secret") = None /\ Unset("--agent-secret-file") = None
    BY DEF Unset, Switch
<1>4. /\ cmd \notin SpendCommand => {"--asset", "--to", "--amount"} \cap ok = {}
      /\ cmd # "transfer-from" => "--from" \notin ok
      /\ "--expect-blocked" \in ok => cmd \in {"preflight", "transfer", "transfer-from"}
      /\ cmd \in ReadCommand => "--secret" \notin ok /\ "--agent-secret-file" \notin ok
    BY DEF valid_flags_for_subcommand, SpendCommand, SubmitCommand, ReadCommand
<1> HIDE DEF got, ok
<1>5. /\ cmd \notin SpendCommand =>
             got["--asset"] = None /\ got["--to"] = None /\ got["--amount"] = None
      /\ cmd # "transfer-from" => got["--from"] = None
      /\ got["--expect-blocked"] # FALSE => cmd \in {"preflight", "transfer", "transfer-from"}
      /\ cmd \in ReadCommand => got["--secret"] = None /\ got["--agent-secret-file"] = None
    BY <1>1, <1>2, <1>3, <1>4
<1> QED  BY <1>5 DEF got

(* A flag with a value was given, and with that value. *)
LEMMA GivenValue ==
    ASSUME NEW cmd \in Subcommand, NEW X, NEW argv \in Seq(X), ~ Collected(cmd, argv).bad,
           NEW flag \in AnyFlag \ (Switch \union {"--secret", "--agent-secret-file"})
    PROVE  LET v == Collected(cmd, argv).got[flag]
           IN  /\ v # None => \E i \in DOMAIN argv : argv[i].flag = flag /\ argv[i].value = v
               /\ v = None => \A i \in DOMAIN argv : argv[i].flag # flag
<1> DEFINE got == Collected(cmd, argv).got
<1>1. DOMAIN argv = 1..Len(argv)
    BY LenProperties
<1>2. /\ got[flag] # None => \E i \in 1..Len(argv) : Target(argv[i]) = flag /\ got[flag] = argv[i].value
      /\ \A i \in 1..Len(argv) : got[Target(argv[i])] # Unset(Target(argv[i]))
    <2>1. Followed(cmd, argv, Len(argv), Collected(cmd, argv))
        BY CollectedFollows
    <2>2. flag \in AnyFlag /\ flag \notin Switch /\ Unset(flag) = None
        BY DEF Unset
    <2> QED  BY <2>1, <2>2 DEF Followed
<1>3. \A i \in 1..Len(argv) : Target(argv[i]) = flag <=> argv[i].flag = flag
    BY DEF Target
<1> HIDE DEF got
<1> QED  BY <1>1, <1>2, <1>3 DEF got, Unset

LEMMA EndpointFlags ==
    /\ {"--network", "--rpc-url", "--network-passphrase"}
           \subseteq AnyFlag \ (Switch \union {"--secret", "--agent-secret-file"})
    /\ {"--secret", "--agent-secret-file"} \subseteq AnyFlag \ Switch
<1>1. "transfer" \in Subcommand
    BY DEF Subcommand, SpendCommand
<1>2. {"--network", "--rpc-url", "--network-passphrase", "--secret", "--agent-secret-file"}
          \subseteq valid_flags_for_subcommand("transfer")
    BY DEF valid_flags_for_subcommand, SubmitCommand
<1> QED  BY <1>1, <1>2 DEF AnyFlag, Switch

(* A line is a sequence of tokens, whatever slipped in it, and the answer  *)
(* is what main makes of the line.                                         *)
LineSound == "argv" \in DOMAIN line /\ line.argv \in Seq(Range(line.argv))
Answered == result # None => result = main(line)

LEMMA SlipKeepsLine ==
    ASSUME NEW X, NEW s \in Seq(X), NEW i \in DOMAIN s, NEW key
    PROVE  LET t == [s EXCEPT ![i].value = key] IN t \in Seq(Range(t))
<1> DEFINE t == [s EXCEPT ![i].value = key]
           n == Len(s)
           Y == Range(t)
<1>1. n \in Nat /\ DOMAIN s = 1..n
    BY LenProperties
<1>2. DOMAIN t = 1..n /\ t = [j \in 1..n |-> t[j]]
    BY <1>1
<1> HIDE DEF t, n
<1>3. t \in [1..n -> Y]
    BY <1>2 DEF Range
<1> HIDE DEF Y
<1>4. t \in Seq(Y)
    BY <1>1, <1>3
<1> QED  BY <1>4 DEF Y, t

LEMMA AnswersFromTheLine == CSpec => [](LineSound /\ Answered)
<1>1. CInit => LineSound /\ Answered
    BY CliConstants DEF CInit, LineSound, Answered
<1>2. LineSound /\ Answered /\ [CNext]_cvars => (LineSound /\ Answered)'
    <2> SUFFICES ASSUME LineSound, Answered, [CNext]_cvars PROVE LineSound' /\ Answered'
        OBVIOUS
    <2>1. CASE Invoke
        BY <2>1 DEF Invoke, LineSound, Answered
    <2>2. CASE Mistype
        <3>1. Answered'
            BY <2>2 DEF Mistype, Answered
        <3>2. ASSUME NEW i \in KeyTokens(line), NEW key, line' = [line EXCEPT !.argv[i].value = key]
              PROVE  LineSound'
            <4>1. i \in DOMAIN line.argv
                BY <3>2 DEF KeyTokens
            <4>2. "argv" \in DOMAIN line' /\ line'.argv = [line.argv EXCEPT ![i].value = key]
                BY <3>2 DEF LineSound
            <4>3. [line.argv EXCEPT ![i].value = key] \in Seq(Range([line.argv EXCEPT ![i].value = key]))
                BY <4>1, SlipKeepsLine DEF LineSound
            <4> QED  BY <4>2, <4>3, Zenon DEF LineSound
        <3>3. ASSUME line'.argv = line.argv, "argv" \in DOMAIN line' PROVE LineSound'
            BY <3>3, Zenon DEF LineSound
        <3>4. ASSUME NEW key, line' = [line EXCEPT !.env = key] PROVE LineSound'
            BY <3>3, <3>4 DEF LineSound
        <3>5. ASSUME NEW key, line' = [line EXCEPT !.disk.file = key] PROVE LineSound'
            BY <3>3, <3>5 DEF LineSound
        <3>6. ASSUME NEW i, NEW key, line' = [line EXCEPT !.reg.guards[i].address = key]
              PROVE  LineSound'
            BY <3>3, <3>6 DEF LineSound
        <3> QED  BY <2>2, <3>1, <3>2, <3>4, <3>5, <3>6 DEF Mistype
    <2>3. CASE UNCHANGED cvars
        BY <2>3 DEF cvars, LineSound, Answered
    <2> QED  BY <2>1, <2>2, <2>3 DEF CNext
<1> QED  BY <1>1, <1>2, PTL DEF CSpec

LEMMA AcceptedPassed ==
    ASSUME Answered, Accepted
    PROVE  Passed(line) /\ result = RequestOf(line)
<1>1. result = main(line) /\ main(line).kind = "request"
    BY Zenon DEF Answered, Accepted
<1> QED  BY <1>1, RequestPassed, Zenon

(* An accepted request has every part its command needs, each of its kind, *)
(* and no flag's value that it has no use for, whatever the line; a command*)
(* that only reads carries AGENT_SECRET if it is set and no other secret   *)
(* (parse_request, valid_flags_for_subcommand, validate_key,               *)
(* KeyKind::versions).                                                     *)
THEOREM RequestsFit == CSpec => []RequestFitsCommand
<1>1. LineSound /\ Answered => RequestFitsCommand
    <2> SUFFICES ASSUME LineSound, Answered, Accepted PROVE RequestFitsCommand
        BY DEF RequestFitsCommand
    <2> DEFINE got == Collected(line.cmd, line.argv).got
    <2>1. Passed(line) /\ result = RequestOf(line)
        BY AcceptedPassed
    <2>2. line.cmd \in Subcommand /\ ~ Collected(line.cmd, line.argv).bad
        BY <2>1 DEF Passed
    <2>3. /\ line.cmd \notin SpendCommand =>
                 got["--asset"] = None /\ got["--to"] = None /\ got["--amount"] = None
          /\ line.cmd # "transfer-from" => got["--from"] = None
          /\ got["--expect-blocked"] # FALSE => line.cmd \in {"preflight", "transfer", "transfer-from"}
          /\ line.cmd \in ReadCommand => got["--secret"] = None /\ got["--agent-secret-file"] = None
        BY <2>2, OnlyValid DEF LineSound
    <2>4. /\ result.guard = GuardOf(line) /\ result.secret = SecretOf(line)
          /\ result.token = got["--asset"] /\ result.from = got["--from"] /\ result.to = got["--to"]
          /\ result.amount = got["--amount"] /\ result.expect_blocked = got["--expect-blocked"]
        BY <2>1 DEF RequestOf
    <2>5. \A key : /\ validate_key("Contract", key) => VersionOf(key) = VER_CONTRACT
                   /\ validate_key("Secret", key) => VersionOf(key) = VER_SECRET
                   /\ validate_key("Recipient", key) => VersionOf(key) \in {VER_ACCOUNT, VER_CONTRACT}
        BY Versions, Zenon DEF validate_key, VersionOf
    <2>6. /\ validate_key("Contract", GuardOf(line))
          /\ SecretOf(line) # None => validate_key("Secret", SecretOf(line))
          /\ line.cmd \in SubmitCommand => SecretOf(line) # None
          /\ line.cmd \in SpendCommand => /\ validate_key("Contract", got["--asset"])
                                          /\ validate_key("Recipient", got["--to"])
                                          /\ got["--amount"] # None
          /\ line.cmd = "transfer-from" => validate_key("Recipient", got["--from"])
        BY <2>1 DEF Passed
    <2> HIDE DEF got
    <2>7. VersionOf(result.guard) = VER_CONTRACT
        BY <2>4, <2>5, <2>6, Zenon
    <2>8. line.cmd \in SpendCommand => /\ VersionOf(result.token) = VER_CONTRACT
                                       /\ VersionOf(result.to) \in {VER_ACCOUNT, VER_CONTRACT}
                                       /\ result.amount # None
        BY <2>4, <2>5, <2>6, Zenon
    <2>9. line.cmd \notin SpendCommand => {result.token, result.to, result.amount} = {None}
        BY <2>3, <2>4
    <2>10. /\ line.cmd = "transfer-from" => VersionOf(result.from) \in {VER_ACCOUNT, VER_CONTRACT}
           /\ line.cmd # "transfer-from" => result.from = None
        BY <2>3, <2>4, <2>5, <2>6, Zenon
    <2>11. /\ line.cmd \in SubmitCommand => result.secret # None
           /\ result.secret # None => VersionOf(result.secret) = VER_SECRET
        BY <2>4, <2>5, <2>6, Zenon
    <2>12. result.expect_blocked => line.cmd \in {"preflight", "transfer", "transfer-from"}
        BY <2>3, <2>4, Zenon
    <2>13. line.cmd \in ReadCommand => result.secret = line.env
        BY <2>3, <2>4, Zenon DEF SecretOf, resolve_secret, got
    <2> QED  BY <2>7, <2>8, <2>9, <2>10, <2>11, <2>12, <2>13, Zenon DEF RequestFitsCommand
<1> QED  BY <1>1, AnswersFromTheLine, PTL

(* What an endpoint is made of. *)
LEMMA ResolvedEndpoint ==
    ASSUME NEW n, NEW u, NEW p, resolve_endpoint(n, u, p) # None
    PROVE  LET e == resolve_endpoint(n, u, p)
           IN  /\ p = None => e.passphrase = e.rpc_url.host
               /\ e.rpc_url.host = "mainnet" =>
                      /\ \/ n # None /\ n = "mainnet"
                         \/ u # None /\ u.host = "mainnet"
                      /\ e.network = "mainnet" \/ (e.rpc_url.port /\ p # None)
<1> DEFINE e == resolve_endpoint(n, u, p)
           preset == IF n # None THEN n ELSE IF u # None THEN from_rpc_url(u) ELSE DEFAULT_NETWORK
<1>1. /\ n # None => u = None /\ n \in Network
      /\ preset = None => p # None
      /\ e = [network    |-> preset,
              rpc_url    |-> IF u # None THEN u ELSE rpc_url(preset),
              passphrase |-> IF p # None THEN p ELSE preset]
    BY Zenon DEF resolve_endpoint
<1>2. /\ e.network = preset /\ e.rpc_url = IF u # None THEN u ELSE rpc_url(preset)
      /\ e.passphrase = IF p # None THEN p ELSE preset
    BY <1>1
<1>3. rpc_url(preset).host = preset
    BY DEF rpc_url
<1> HIDE DEF e
<1>4. CASE n # None
    BY <1>1, <1>2, <1>3, <1>4 DEF e
<1>5. CASE n = None /\ u # None
    <2>1. preset = from_rpc_url(u) /\ e.rpc_url = u /\ e.network = preset
        BY <1>2, <1>5
    <2>2. /\ preset # None => preset = u.host
          /\ u.host = "mainnet" /\ preset # "mainnet" => u.port
        BY <2>1 DEF from_rpc_url, Network
    <2> QED  BY <1>1, <1>2, <1>5, <2>1, <2>2 DEF e
<1>6. CASE n = None /\ u = None
    BY <1>2, <1>3, <1>6 DEF DEFAULT_NETWORK, e
<1> QED  BY <1>4, <1>5, <1>6 DEF e

(* Endpoint and passphrase belong together unless the operator gave a      *)
(* passphrase, and no line reaches mainnet that does not name it           *)
(* (resolve_endpoint, from_rpc_url, Network::notice).                      *)
THEOREM EndpointsMatch == CSpec => []EndpointMatchesPassphrase
<1>1. LineSound /\ Answered => EndpointMatchesPassphrase
    <2> SUFFICES ASSUME LineSound, Answered, Accepted PROVE EndpointMatchesPassphrase
        BY DEF EndpointMatchesPassphrase
    <2> DEFINE got == Collected(line.cmd, line.argv).got
               n == got["--network"]
               u == got["--rpc-url"]
               p == got["--network-passphrase"]
    <2>1. Passed(line) /\ result = RequestOf(line)
        BY AcceptedPassed
    <2>2. /\ line.cmd \in Subcommand /\ ~ Collected(line.cmd, line.argv).bad
          /\ line.argv \in Seq(Range(line.argv))
        BY <2>1 DEF Passed, LineSound
    <2>3. /\ n # None => \E i \in DOMAIN line.argv :
                             line.argv[i].flag = "--network" /\ line.argv[i].value = n
          /\ u # None => \E i \in DOMAIN line.argv :
                             line.argv[i].flag = "--rpc-url" /\ line.argv[i].value = u
          /\ p # None => \E i \in DOMAIN line.argv : line.argv[i].flag = "--network-passphrase"
          /\ p = None => \A i \in DOMAIN line.argv : line.argv[i].flag # "--network-passphrase"
        BY <2>2, GivenValue, EndpointFlags
    <2>4. /\ result.endpoint = resolve_endpoint(n, u, p) /\ resolve_endpoint(n, u, p) # None
          /\ result.notice = (result.endpoint.network = "mainnet")
        BY <2>1 DEF RequestOf, EndpointOf, Passed, notice
    <2> HIDE DEF n, u, p
    <2> DEFINE e == result.endpoint
    <2>5. /\ p = None => e.passphrase = e.rpc_url.host
          /\ e.rpc_url.host = "mainnet" => /\ \/ n # None /\ n = "mainnet"
                                              \/ u # None /\ u.host = "mainnet"
                                           /\ e.network = "mainnet" \/ (e.rpc_url.port /\ p # None)
        <3> DEFINE R == resolve_endpoint(n, u, p)
        <3>1. /\ p = None => R.passphrase = R.rpc_url.host
              /\ R.rpc_url.host = "mainnet" => /\ \/ n # None /\ n = "mainnet"
                                                  \/ u # None /\ u.host = "mainnet"
                                               /\ R.network = "mainnet" \/ (R.rpc_url.port /\ p # None)
            BY <2>4, ResolvedEndpoint
        <3>2. e = R
            BY <2>4
        <3> HIDE DEF R, e
        <3> QED  BY <3>1, <3>2
    <2> HIDE DEF e
    <2>6. Given("--network-passphrase") = {} => e.passphrase = e.rpc_url.host
        BY <2>3, <2>5 DEF Given
    <2>7. ASSUME e.rpc_url.host = "mainnet"
          PROVE  /\ \/ \E i \in Given("--network") : line.argv[i].value = "mainnet"
                    \/ \E i \in Given("--rpc-url") : line.argv[i].value.host = "mainnet"
                 /\ \/ result.notice
                    \/ e.rpc_url.port /\ Given("--network-passphrase") # {}
        <3>1. CASE n # None /\ n = "mainnet"
            BY <2>3, <2>4, <2>5, <2>7, <3>1 DEF Given, e
        <3>2. CASE u # None /\ u.host = "mainnet"
            BY <2>3, <2>4, <2>5, <2>7, <3>2 DEF Given, e
        <3> QED  BY <2>5, <2>7, <3>1, <3>2
    <2> QED  BY <2>6, <2>7, Zenon DEF EndpointMatchesPassphrase, e
<1> QED  BY <1>1, AnswersFromTheLine, PTL

(* The secret of a request comes from the file or stdin, as named last,    *)
(* else from the line, and from the environment only when it gives none    *)
(* (parse_request, resolve_secret, read_secret_from_file).                 *)
THEOREM SecretsFromTheirSource == CSpec => []SecretSource
<1>1. LineSound /\ Answered => SecretSource
    <2> SUFFICES ASSUME LineSound, Answered, Accepted PROVE SecretSource
        BY DEF SecretSource
    <2> DEFINE argv == line.argv
               got == Collected(line.cmd, argv).got
               path == got["--agent-secret-file"]
               secret == got["--secret"]
               files == {i \in DOMAIN argv : \/ argv[i].flag = "--agent-secret-file"
                                             \/ argv[i].flag = "--secret" /\ argv[i].value = Dash}
    <2>1. Passed(line) /\ result = RequestOf(line)
        BY AcceptedPassed
    <2>2. /\ line.cmd \in Subcommand /\ ~ Collected(line.cmd, argv).bad
          /\ argv \in Seq(Range(argv)) /\ DOMAIN argv = 1..Len(argv)
        BY <2>1, LenProperties DEF Passed, LineSound
    <2>3. result.secret = IF path # None THEN read_secret_from_file(path, line.disk)
                          ELSE IF secret # None THEN secret ELSE line.env
        BY <2>1 DEF RequestOf, SecretOf, resolve_secret
    <2>4. /\ \A flag \in AnyFlag \ Switch : got[flag] # None =>
                 \E i \in DOMAIN argv : /\ Target(argv[i]) = flag /\ got[flag] = argv[i].value
                                        /\ \A j \in DOMAIN argv : Target(argv[j]) = flag => j <= i
          /\ \A i \in DOMAIN argv : got[Target(argv[i])] # Unset(Target(argv[i]))
        <3>1. Followed(line.cmd, argv, Len(argv), Collected(line.cmd, argv))
            BY <2>2, CollectedFollows
        <3>2. \A flag \in AnyFlag \ Switch : Unset(flag) = None
            BY DEF Unset
        <3> QED  BY <2>2, <3>1, <3>2 DEF Followed
    <2>5. \A i \in DOMAIN argv : /\ Target(argv[i]) = "--agent-secret-file" <=> i \in files
                                 /\ Target(argv[i]) = "--secret" => argv[i].flag = "--secret"
                                 /\ argv[i].flag = "--secret" /\ i \notin files =>
                                        Target(argv[i]) = "--secret"
        BY DEF Target
    <2>6. Unset("--agent-secret-file") = None /\ Unset("--secret") = None
        BY DEF Unset, Switch
    <2> HIDE DEF got, argv, files
    <2>7. path # None <=> files # {}
        <3>1. files \subseteq DOMAIN argv
            BY DEF files
        <3> QED  BY <2>4, <2>5, <2>6, <3>1, EndpointFlags
    <2>8. secret # None => Given("--secret") # {}
        BY <2>4, <2>5, EndpointFlags DEF Given, argv
    <2>9. files = {} /\ Given("--secret") # {} => secret # None
        BY <2>4, <2>5, <2>6 DEF Given, argv
    <2>10. ASSUME NEW i \in DOMAIN line.argv, IsLast(i, files)
           PROVE  result.secret = IF line.argv[i].value = Dash THEN line.disk.stdin ELSE line.disk.file
        <3>1. i \in DOMAIN argv /\ i \in files /\ \A j \in files : j <= i
            BY <2>10 DEF IsLast, argv
        <3>2. path # None
            BY <2>7, <3>1
        <3>3. PICK m \in DOMAIN argv : /\ Target(argv[m]) = "--agent-secret-file" /\ path = argv[m].value
                                       /\ \A j \in DOMAIN argv :
                                              Target(argv[j]) = "--agent-secret-file" => j <= m
            BY <2>4, <3>2, EndpointFlags
        <3>4. i <= m /\ m <= i /\ m \in Nat /\ i \in Nat
            BY <2>2, <2>5, <3>1, <3>3
        <3>5. path = argv[i].value
            BY <3>3, <3>4
        <3> HIDE DEF path
        <3> QED  BY <2>3, <3>2, <3>5 DEF read_secret_from_file, argv
    <2>11. ASSUME files = {}, NEW i \in DOMAIN line.argv, IsLast(i, Given("--secret"))
           PROVE  result.secret = line.argv[i].value
        <3>1. i \in DOMAIN argv /\ argv[i].flag = "--secret"
              /\ \A j \in DOMAIN argv : argv[j].flag = "--secret" => j <= i
            BY <2>11 DEF IsLast, Given, argv
        <3>2. secret # None /\ path = None
            BY <2>7, <2>9, <2>11 DEF IsLast
        <3>3. PICK m \in DOMAIN argv : /\ Target(argv[m]) = "--secret" /\ secret = argv[m].value
                                       /\ \A j \in DOMAIN argv : Target(argv[j]) = "--secret" => j <= m
            BY <2>4, <3>2, EndpointFlags
        <3>4. i <= m /\ m <= i /\ m \in Nat /\ i \in Nat
            BY <2>2, <2>5, <2>11, <3>1, <3>3
        <3>5. secret = argv[i].value
            BY <3>3, <3>4
        <3> HIDE DEF path, secret
        <3> QED  BY <2>3, <3>2, <3>5 DEF argv
    <2> HIDE DEF path, secret
    <2>12. files = {} /\ Given("--secret") = {} => result.secret = line.env
        BY <2>3, <2>7, <2>8
    <2> QED  BY <2>10, <2>11, <2>12, Zenon DEF SecretSource, files, argv
<1> QED  BY <1>1, AnswersFromTheLine, PTL
=============================================================================
