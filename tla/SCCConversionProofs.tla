------------------------ MODULE SCCConversionProofs ------------------------
(***************************************************************************)
(* Proofs about SCCConversion, for whatever capabilities, volume types,    *)
(* profiles, SCCs and edits of them.                                       *)
(***************************************************************************)
EXTENDS SCCConversion, TLAPS

LevelNumbers == unknown = 0 /\ restricted = 1 /\ baseline = 2 /\ privileged = 3

\* The levels are ordered as numbers.
LEMMA Numbers == LevelNumbers
BY DEF LevelNumbers, unknown, restricted, baseline, privileged

\* What the two conversions of volumes come to: privileged unless every volume is
\* one that baseline allows, baseline unless every one is allowed by restricted.
LEMMA VolumesTight ==
  ASSUME NEW c \in SCC, ~ convert_volumes(c).failed
  PROVE  LET both == {convert_hostDir(c), convert_volumes(c).level}
         IN  /\ both \subseteq 0 .. 3
             /\ privileged \in both <=> ~ UsableVolumes(c) \subseteq RestrictedVolumes \cup BaselineVolumes
             /\ baseline \in both \/ privileged \in both <=> ~ UsableVolumes(c) \subseteq RestrictedVolumes
<1> DEFINE V == Listed(c.Volumes)
           hostDir == convert_hostDir(c)
           level == convert_volumes(c).level
<1>1. V \subseteq AllVolumes /\ c.AllowHostDirVolumePlugin \in BOOLEAN
  BY DEF SCC, Listed
<1>2. hostDir = IF c.AllowHostDirVolumePlugin \/ "*" \in V \/ "hostPath" \in V THEN 3 ELSE 1
  BY DEF convert_hostDir, privileged, restricted
<1>3. CASE c.Volumes = <<>>
  <2>1. V = {}
    BY <1>3 DEF Listed
  <2>2. level = 0
    BY <1>3 DEF convert_volumes, Result, unknown
  <2> QED
    BY <1>1, <1>2, <2>1, <2>2, ClassAssumption, Numbers
       DEF UsableVolumes, LevelNumbers, AllVolumes
<1>4. CASE c.Volumes # <<>> /\ Stops(c.Volumes) = {}
  <2>1. V \subseteq RestrictedVolumes \cup BaselineVolumes
    BY <1>4 DEF Stops, Listed
  <2>2. "*" \notin V /\ "hostPath" \notin V
    BY <2>1, ClassAssumption
  <2>3. level = IF \E v \in V : VolumeLevel(v) = baseline THEN 2 ELSE 1
    BY <1>4 DEF convert_volumes, Result, baseline, restricted
  <2>4. (\E v \in V : VolumeLevel(v) = baseline) <=> ~ V \subseteq RestrictedVolumes
    BY Numbers DEF VolumeLevel, LevelNumbers
  <2>5. CASE c.AllowHostDirVolumePlugin
    <3>1. UsableVolumes(c) = V \cup {"hostPath"}
      BY <2>2, <2>5 DEF UsableVolumes
    <3> QED
      BY <1>2, <2>3, <2>5, <3>1, ClassAssumption, Numbers DEF LevelNumbers
  <2>6. CASE ~ c.AllowHostDirVolumePlugin
    <3>1. UsableVolumes(c) = V
      BY <2>2, <2>6 DEF UsableVolumes
    <3>2. hostDir = 1
      BY <1>2, <2>2, <2>6
    <3> QED
      BY <2>1, <2>3, <2>4, <3>1, <3>2, Numbers DEF LevelNumbers
  <2> QED
    BY <1>1, <2>5, <2>6
<1>5. CASE Stops(c.Volumes) # {}
  <2>1. /\ level = 3
        /\ \E i \in DOMAIN c.Volumes : c.Volumes[i] \in {"*", "hostPath"}
    BY <1>5 DEF convert_volumes, Result, Stops, privileged
  <2>2. "*" \in V \/ "hostPath" \in V
    BY <2>1 DEF Listed
  <2>3. "hostPath" \in UsableVolumes(c)
    BY <2>2 DEF UsableVolumes, AllVolumes
  <2> QED
    BY <1>2, <2>1, <2>2, <2>3, ClassAssumption, Numbers DEF LevelNumbers
<1> QED
  BY <1>3, <1>4, <1>5

\* The other conversions but that of the user, together: each is at most the level
\* that admits the setting, and no less.
LEMMA SettingsTight ==
  ASSUME NEW c \in SCC
  PROVE  LET rest == {convert_hostNamespace(c), convert_hostPorts(c),
                      convert_allowPrivilegeEscalation(c), convert_allowPrivilegedContainer(c),
                      convert_allowedCapabilities(c), convert_unsafeSysctls(c),
                      convert_seLinuxOptions(c), convert_seccompProfile(c)}
             safe == /\ c.hostNamespaces = {} /\ ~ c.AllowHostPorts /\ ~ c.AllowPrivilegedContainer
                     /\ c.AllowedUnsafeSysctls \subseteq SafeSysctls
                     /\ UsableSELinux(c) \subseteq BaselineSELinux
         IN  /\ rest \subseteq 0 .. 3
             /\ privileged \notin rest <=>
                  /\ safe
                  /\ c.AllowedCapabilities \subseteq {"NET_BIND_SERVICE"} \cup BaselineCapabilities
                  /\ UsableProfiles(c) \subseteq ValidProfiles \cup {"undefined"}
             /\ privileged \notin rest /\ baseline \notin rest <=>
                  /\ safe
                  /\ c.AllowPrivilegeEscalation = FALSE
                  /\ c.AllowedCapabilities \subseteq {"NET_BIND_SERVICE"}
                  /\ c.dropsAll
                  /\ UsableProfiles(c) \subseteq ValidProfiles
<1> USE Numbers DEF LevelNumbers
<1>1. /\ c.hostNamespaces \subseteq {"IPC", "Network", "PID"}
      /\ c.AllowHostPorts \in BOOLEAN /\ c.AllowPrivilegedContainer \in BOOLEAN /\ c.dropsAll \in BOOLEAN
      /\ c.AllowPrivilegeEscalation \in BOOLEAN \cup {Nil}
      /\ c.SeccompProfiles \subseteq AllProfiles
      /\ c.seLinux.type \in {"MustRunAs", "RunAsAny"} /\ c.seLinux.options \in SELinuxOptions \cup {Nil}
  BY DEF SCC
<1>2. convert_hostNamespace(c) = IF c.hostNamespaces = {} THEN 1 ELSE 3
  BY DEF convert_hostNamespace
<1>3. convert_hostPorts(c) = IF c.AllowHostPorts THEN 3 ELSE 1
  BY DEF convert_hostPorts
<1>4. convert_allowPrivilegedContainer(c) = IF c.AllowPrivilegedContainer THEN 3 ELSE 1
  BY DEF convert_allowPrivilegedContainer
<1>5. convert_allowPrivilegeEscalation(c) = IF c.AllowPrivilegeEscalation = FALSE THEN 1 ELSE 2
  <2>1. c.AllowPrivilegeEscalation = Nil => c.AllowPrivilegeEscalation # FALSE
    BY ClassAssumption, Zenon
  <2> QED
    BY <1>1, <2>1, Zenon DEF convert_allowPrivilegeEscalation
<1>6. /\ convert_allowedCapabilities(c) \in {1, 2, 3}
      /\ convert_allowedCapabilities(c) = 3 <=>
           ~ c.AllowedCapabilities \subseteq {"NET_BIND_SERVICE"} \cup BaselineCapabilities
      /\ convert_allowedCapabilities(c) = 1 <=>
           c.AllowedCapabilities \subseteq {"NET_BIND_SERVICE"} /\ c.dropsAll
  BY DEF convert_allowedCapabilities
<1>7. convert_unsafeSysctls(c) = IF c.AllowedUnsafeSysctls \subseteq SafeSysctls THEN 1 ELSE 3
  BY DEF convert_unsafeSysctls
<1>8. convert_seLinuxOptions(c) =
        IF UsableSELinux(c) \subseteq BaselineSELinux
          THEN 1 ELSE 3
  <2> DEFINE o == c.seLinux.options
  <2>1. CASE c.seLinux.type = "RunAsAny"
    <3>1. PICK t : t \in AllSELinuxTypes
      BY ClassAssumption DEF AllSELinuxTypes
    <3>2. [type |-> t, user |-> TRUE, role |-> TRUE] \in UsableSELinux(c) \ BaselineSELinux
      BY <2>1, <3>1 DEF UsableSELinux, BaselineSELinux
    <3> QED
      BY <2>1, <3>2 DEF convert_seLinuxOptions
  <2>2. CASE c.seLinux.type = "MustRunAs" /\ o = Nil
    BY <2>2 DEF convert_seLinuxOptions, UsableSELinux
  <2>3. CASE c.seLinux.type = "MustRunAs" /\ o # Nil
    <3>1. o \in SELinuxOptions
      BY <1>1, <2>3
    <3>2. o \in BaselineSELinux <=> o.type \in AllowedSELinuxTypes /\ ~ o.user /\ ~ o.role
      BY <3>1, Zenon DEF SELinuxOptions, BaselineSELinux
    <3>3. UsableSELinux(c) = {o}
      BY <2>3 DEF UsableSELinux
    <3> QED
      BY <2>3, <3>2, <3>3 DEF convert_seLinuxOptions
  <2> QED
    BY <1>1, <2>1, <2>2, <2>3
<1>9. /\ convert_seccompProfile(c) \in {1, 2, 3}
      /\ convert_seccompProfile(c) = 3 <=> ~ UsableProfiles(c) \subseteq ValidProfiles \cup {"undefined"}
      /\ convert_seccompProfile(c) = 1 <=> UsableProfiles(c) \subseteq ValidProfiles
  BY <1>1, ClassAssumption DEF convert_seccompProfile, UsableProfiles, AllProfiles
<1> DEFINE rest == {convert_hostNamespace(c), convert_hostPorts(c),
                    convert_allowPrivilegeEscalation(c), convert_allowPrivilegedContainer(c),
                    convert_allowedCapabilities(c), convert_unsafeSysctls(c),
                    convert_seLinuxOptions(c), convert_seccompProfile(c)}
<1>10. rest \subseteq 0 .. 3
  BY <1>2, <1>3, <1>4, <1>5, <1>6, <1>7, <1>8, <1>9
<1>11. 3 \notin rest <=>
         /\ c.hostNamespaces = {} /\ ~ c.AllowHostPorts /\ ~ c.AllowPrivilegedContainer
         /\ c.AllowedUnsafeSysctls \subseteq SafeSysctls
         /\ UsableSELinux(c) \subseteq BaselineSELinux
         /\ c.AllowedCapabilities \subseteq {"NET_BIND_SERVICE"} \cup BaselineCapabilities
         /\ UsableProfiles(c) \subseteq ValidProfiles \cup {"undefined"}
  <2>1. 3 \notin rest <=>
          /\ convert_hostNamespace(c) # 3 /\ convert_hostPorts(c) # 3
          /\ convert_allowPrivilegedContainer(c) # 3 /\ convert_unsafeSysctls(c) # 3
          /\ convert_seLinuxOptions(c) # 3 /\ convert_allowedCapabilities(c) # 3
          /\ convert_seccompProfile(c) # 3
    BY <1>5
  <2>2. convert_hostNamespace(c) # 3 <=> c.hostNamespaces = {}
    BY <1>2
  <2>3. convert_hostPorts(c) # 3 <=> ~ c.AllowHostPorts
    BY <1>3
  <2>4. convert_allowPrivilegedContainer(c) # 3 <=> ~ c.AllowPrivilegedContainer
    BY <1>4
  <2>5. convert_unsafeSysctls(c) # 3 <=> c.AllowedUnsafeSysctls \subseteq SafeSysctls
    BY <1>7
  <2>6. convert_seLinuxOptions(c) # 3 <=>
          UsableSELinux(c) \subseteq BaselineSELinux
    BY <1>8
  <2>7. convert_allowedCapabilities(c) # 3 <=>
          c.AllowedCapabilities \subseteq {"NET_BIND_SERVICE"} \cup BaselineCapabilities
    BY <1>6
  <2>8. convert_seccompProfile(c) # 3 <=> UsableProfiles(c) \subseteq ValidProfiles \cup {"undefined"}
    BY <1>9
  <2> HIDE DEF rest
  <2> QED
    BY <2>1, <2>2, <2>3, <2>4, <2>5, <2>6, <2>7, <2>8
<1>12. 2 \notin rest <=>
         /\ c.AllowPrivilegeEscalation = FALSE
         /\ convert_allowedCapabilities(c) # 2
         /\ convert_seccompProfile(c) # 2
  BY <1>2, <1>3, <1>4, <1>5, <1>6, <1>7, <1>8, <1>9
<1>13. c.AllowedCapabilities \subseteq {"NET_BIND_SERVICE"} =>
         c.AllowedCapabilities \subseteq {"NET_BIND_SERVICE"} \cup BaselineCapabilities
  OBVIOUS
<1>14. UsableProfiles(c) \subseteq ValidProfiles => UsableProfiles(c) \subseteq ValidProfiles \cup {"undefined"}
  OBVIOUS
<1> HIDE DEF rest
<1> QED
  BY <1>6, <1>9, <1>10, <1>11, <1>12, <1>13, <1>14 DEF rest

\* The conversion of the user is baseline exactly if root is among the UIDs.
LEMMA UserTight ==
  ASSUME NEW c \in SCC, NEW a \in Annotations, ~ convert_runAsUser(a, c).failed
  PROVE  /\ convert_runAsUser(a, c).level = IF "root" \in UsableUIDs(a, c) THEN baseline ELSE restricted
         /\ UsableUIDs(a, c) \subseteq UIDs
<1> DEFINE user == c.RunAsUser
           start == RangeStart(a, user)
<1>1. /\ user.type \in {"MustRunAsNonRoot", "MustRunAs", "MustRunAsRange", "RunAsAny", "unknown"}
      /\ user.uid \in UIDs \cup {Nil} /\ user.min \in UIDs \cup {Nil}
  BY DEF SCC
<1>2. CASE user.type = "MustRunAsNonRoot"
  BY <1>2 DEF convert_runAsUser, UsableUIDs, Result, UIDs
<1>3. CASE user.type = "MustRunAs"
  BY <1>1, <1>3, ClassAssumption DEF convert_runAsUser, UsableUIDs, Result, UIDs
<1>4. CASE user.type = "MustRunAsRange"
  <2>1. start = "other" \/ start = "root"
    BY <1>4 DEF convert_runAsUser, Result
  <2> QED
    BY <1>4, <2>1 DEF convert_runAsUser, UsableUIDs, Result, UIDs
<1>5. CASE user.type = "RunAsAny"
  BY <1>5 DEF convert_runAsUser, UsableUIDs, Result, UIDs
<1>6. CASE user.type = "unknown"
  BY <1>6 DEF convert_runAsUser, Result
<1> QED
  BY <1>1, <1>2, <1>3, <1>4, <1>5, <1>6

\* convertSCCToPSALevel gives the most restrictive level that admits the SCC.
LEMMA ConversionTight ==
  ASSUME NEW c \in SCC, NEW a \in Annotations, ~ convertSCCToPSALevel(a, c).failed,
         NEW l \in Levels
  PROVE  /\ convertSCCToPSALevel(a, c).level \in Levels
         /\ Admits(l, a, c) <=> l >= convertSCCToPSALevel(a, c).level
<1> DEFINE volumes == {convert_hostDir(c), convert_volumes(c).level}
           rest == {convert_hostNamespace(c), convert_hostPorts(c),
                    convert_allowPrivilegeEscalation(c), convert_allowPrivilegedContainer(c),
                    convert_allowedCapabilities(c), convert_unsafeSysctls(c),
                    convert_seLinuxOptions(c), convert_seccompProfile(c)}
           user == {convert_runAsUser(a, c).level}
           all == sccRestrictivness(a, c)
           level == convertSCCToPSALevel(a, c).level
<1> USE Numbers DEF LevelNumbers
<1>1. ~ convert_volumes(c).failed /\ ~ convert_runAsUser(a, c).failed
  BY DEF convertSCCToPSALevel, Result
<1>2. all = volumes \cup rest \cup user
  BY DEF sccRestrictivness
<1>3. level = IF 3 \in all THEN 3 ELSE IF 2 \in all THEN 2 ELSE 1
  BY <1>1 DEF convertSCCToPSALevel, Result
<1>4. UsableUIDs(a, c) \subseteq UIDs /\ user = {IF "root" \in UsableUIDs(a, c) THEN 2 ELSE 1}
  BY <1>1, UserTight
<1>5. 3 \notin all <=> Admits(2, a, c)
  <2>1. UsableUIDs(a, c) \subseteq {"other"} \cup {"root"}
    BY <1>4 DEF UIDs
  <2>2. c.AllowPrivilegeEscalation \in {FALSE} \cup {TRUE, Nil} /\ c.dropsAll \in {TRUE} \cup {FALSE}
    BY Zenon DEF SCC
  <2>3. 3 \notin all <=> 3 \notin volumes /\ 3 \notin rest
    BY <1>2, <1>4
  <2> HIDE DEF volumes, rest
  <2>4. 3 \notin volumes <=> UsableVolumes(c) \subseteq RestrictedVolumes \cup BaselineVolumes
    BY <1>1, VolumesTight DEF volumes
  <2>5. 3 \notin rest <=>
          /\ c.hostNamespaces = {} /\ ~ c.AllowHostPorts /\ ~ c.AllowPrivilegedContainer
          /\ c.AllowedUnsafeSysctls \subseteq SafeSysctls
          /\ UsableSELinux(c) \subseteq BaselineSELinux
          /\ c.AllowedCapabilities \subseteq {"NET_BIND_SERVICE"} \cup BaselineCapabilities
          /\ UsableProfiles(c) \subseteq ValidProfiles \cup {"undefined"}
    BY SettingsTight, Zenon DEF rest
  <2>6. Admits(2, a, c) <=>
          /\ UsableVolumes(c) \subseteq RestrictedVolumes \cup BaselineVolumes
          /\ c.hostNamespaces = {} /\ ~ c.AllowHostPorts /\ ~ c.AllowPrivilegedContainer
          /\ c.AllowedCapabilities \subseteq {"NET_BIND_SERVICE"} \cup BaselineCapabilities
          /\ c.AllowedUnsafeSysctls \subseteq SafeSysctls
          /\ UsableSELinux(c) \subseteq BaselineSELinux
          /\ UsableProfiles(c) \subseteq ValidProfiles \cup {"undefined"}
    <3>1. 2 # 3 /\ 2 # 1
      OBVIOUS
    <3> QED
      BY <2>1, <2>2, <3>1, Zenon DEF Admits
  <2> QED
    BY <2>3, <2>4, <2>5, <2>6
<1>6. 3 \notin all /\ 2 \notin all <=> Admits(1, a, c)
  <2>1. 2 \notin user <=> UsableUIDs(a, c) \subseteq {"other"}
    BY <1>4 DEF UIDs
  <2>2. c.AllowPrivilegeEscalation \in {FALSE} <=> c.AllowPrivilegeEscalation = FALSE
    BY Zenon
  <2>3. 3 \notin all /\ 2 \notin all <=>
          3 \notin volumes /\ 2 \notin volumes /\ 3 \notin rest /\ 2 \notin rest /\ 2 \notin user
    BY <1>2, <1>4
  <2>7. c.dropsAll \in BOOLEAN
    BY DEF SCC
  <2> HIDE DEF volumes, rest, user
  <2>4. 3 \notin volumes /\ 2 \notin volumes <=> UsableVolumes(c) \subseteq RestrictedVolumes
    BY <1>1, VolumesTight DEF volumes
  <2>5. 3 \notin rest /\ 2 \notin rest <=>
          /\ c.hostNamespaces = {} /\ ~ c.AllowHostPorts /\ ~ c.AllowPrivilegedContainer
          /\ c.AllowedUnsafeSysctls \subseteq SafeSysctls
          /\ UsableSELinux(c) \subseteq BaselineSELinux
          /\ c.AllowPrivilegeEscalation = FALSE
          /\ c.AllowedCapabilities \subseteq {"NET_BIND_SERVICE"}
          /\ c.dropsAll
          /\ UsableProfiles(c) \subseteq ValidProfiles
    BY SettingsTight, Zenon DEF rest
  <2>6. Admits(1, a, c) <=>
          /\ UsableVolumes(c) \subseteq RestrictedVolumes
          /\ c.hostNamespaces = {} /\ ~ c.AllowHostPorts /\ ~ c.AllowPrivilegedContainer
          /\ c.AllowPrivilegeEscalation = FALSE
          /\ c.AllowedCapabilities \subseteq {"NET_BIND_SERVICE"}
          /\ c.dropsAll
          /\ c.AllowedUnsafeSysctls \subseteq SafeSysctls
          /\ UsableSELinux(c) \subseteq BaselineSELinux
          /\ UsableProfiles(c) \subseteq ValidProfiles
          /\ UsableUIDs(a, c) \subseteq {"other"}
    <3>1. 1 # 3
      OBVIOUS
    <3> QED
      BY <2>2, <2>7, <3>1, Zenon DEF Admits
  <2> QED
    BY <2>1, <2>3, <2>4, <2>5, <2>6
<1>7. Admits(3, a, c)
  BY DEF Admits
<1> HIDE DEF all, level
<1> QED
  BY <1>3, <1>5, <1>6, <1>7 DEF Levels, level

\* A conversion gives a level, privileged if it fails.
LEMMA ConversionLevel ==
  ASSUME NEW c \in SCC, NEW a \in Annotations
  PROVE  /\ convertSCCToPSALevel(a, c).level \in Levels
         /\ convertSCCToPSALevel(a, c).failed \in BOOLEAN
         /\ convertSCCToPSALevel(a, c).failed => convertSCCToPSALevel(a, c).level = privileged
<1> DEFINE all == sccRestrictivness(a, c)
           failed == convert_volumes(c).failed \/ convert_runAsUser(a, c).failed
<1>1. CASE failed
  <2>1. convertSCCToPSALevel(a, c) = [level |-> privileged, failed |-> TRUE]
    BY <1>1 DEF convertSCCToPSALevel, Result
  <2> QED
    BY <2>1 DEF Levels
<1>2. CASE ~ failed
  <2> DEFINE level == IF privileged \in all THEN privileged
                      ELSE IF baseline \in all THEN baseline ELSE restricted
  <2>1. convertSCCToPSALevel(a, c) = [level |-> level, failed |-> FALSE]
    BY <1>2 DEF convertSCCToPSALevel, Result
  <2>2. level \in Levels
    BY DEF Levels
  <2> HIDE DEF level
  <2> QED
    BY <2>1, <2>2
<1> QED
  BY <1>1, <1>2

\* Type correctness, whatever SCCs become and in whatever order they are converted.
THEOREM ConversionTypes == Spec => []TypeOK
<1> USE Numbers DEF LevelNumbers
<1>1. Init => TypeOK
  <2> SUFFICES ASSUME Init
               PROVE  TypeOK
    OBVIOUS
  <2>1. sccs \in [SCCNames -> SCC \cup {Nil}]
    <3>1. InitialSCCs \subseteq SCC \cup {Nil}
      BY ClassAssumption
    <3> QED
      BY <3>1 DEF Init
  <2>2. "missing" \in Annotations /\ MaxEdits \in 0 .. MaxEdits
    BY ClassAssumption DEF Annotations
  <2> QED
    BY <2>1, <2>2, Zenon DEF Init, TypeOK
<1>2. TypeOK /\ [Next]_vars => TypeOK'
  <2> SUFFICES ASSUME TypeOK, [Next]_vars
               PROVE  TypeOK'
    OBVIOUS
  <2> USE DEF TypeOK
  <2>1. ASSUME NEW a \in Annotations, Begin(a)
        PROVE  TypeOK'
    BY <2>1, Zenon DEF Begin
  <2>2. ASSUME NEW s \in SCCNames, Convert(s)
        PROVE  TypeOK'
    <3>1. CASE sccs[s] = Nil \/ convertSCCToPSALevel(annotation, sccs[s]).failed
      BY <2>2, <3>1, Zenon DEF Convert
    <3>2. CASE sccs[s] # Nil /\ ~ convertSCCToPSALevel(annotation, sccs[s]).failed
      <4>1. convertSCCToPSALevel(annotation, sccs[s]).level \in Levels
        BY <3>2, ConversionLevel
      <4> QED
        BY <2>2, <3>2, <4>1, Zenon DEF Convert
    <3> QED
      BY <3>1, <3>2
  <2>3. ASSUME NEW s \in SCCNames, NEW c \in SCCs \cup {Nil}, Change(s, c)
        PROVE  TypeOK'
    <3>1. c \in SCC \cup {Nil}
      BY ClassAssumption
    <3> QED
      BY <2>3, <3>1, ClassAssumption DEF Change, pass
  <2>4. CASE End
    BY <2>4, Zenon DEF End
  <2>5. CASE UNCHANGED vars
    BY <2>5 DEF vars, pass
  <2> QED
    BY <2>1, <2>2, <2>3, <2>4, <2>5 DEF Next
<1> QED
  BY <1>1, <1>2, PTL DEF Spec

\* convertSCCToPSALevel gives the tightest level for every SCC there ever is.
THEOREM LevelsAreTight == Spec => []TightestLevel
<1>1. TypeOK => TightestLevel
  <2> SUFFICES ASSUME TypeOK, NEW s \in SCCNames, NEW a \in Annotations, sccs[s] # Nil,
                      ~ convertSCCToPSALevel(a, sccs[s]).failed, NEW l \in Levels
               PROVE  Admits(l, a, sccs[s]) <=> l >= convertSCCToPSALevel(a, sccs[s]).level
    BY DEF TightestLevel
  <2>1. sccs[s] \in SCC
    BY DEF TypeOK
  <2> QED
    BY <2>1, ConversionTight
<1> QED
  BY <1>1, ConversionTypes, PTL

\* An SCC that lets a pod do more has a level at least as high.
LEMMA ConversionMonotone ==
  ASSUME NEW c \in SCC, NEW d \in SCC, NEW a \in UIDs, Extends(a, c, d)
  PROVE  convertSCCToPSALevel(a, d).level >= convertSCCToPSALevel(a, c).level
<1> USE Numbers DEF LevelNumbers
<1> DEFINE C == convertSCCToPSALevel(a, c)
           D == convertSCCToPSALevel(a, d)
<1>1. a \in Annotations
  BY DEF Annotations
<1>2. C.level \in Levels /\ D.level \in Levels /\ C.failed \in BOOLEAN /\ D.failed \in BOOLEAN
  BY <1>1, ConversionLevel
<1>3. CASE D.failed
  BY <1>1, <1>2, <1>3, ConversionLevel DEF Levels
<1>4. CASE ~ D.failed /\ ~ C.failed
  <2>1. Admits(D.level, a, d)
    <3>1. Admits(D.level, a, d) <=> D.level >= D.level
      BY <1>1, <1>2, <1>4, ConversionTight
    <3> QED
      BY <1>2, <3>1 DEF Levels
  <2>2. Admits(D.level, a, c)
    <3>1. /\ c.AllowHostPorts \in BOOLEAN /\ c.AllowPrivilegedContainer \in BOOLEAN
          /\ c.dropsAll \in BOOLEAN /\ d.dropsAll \in BOOLEAN
          /\ c.AllowPrivilegeEscalation \in BOOLEAN \cup {Nil}
          /\ d.AllowPrivilegeEscalation \in BOOLEAN \cup {Nil}
      BY DEF SCC
    <3>2. CASE D.level = privileged
      BY <3>2 DEF Admits
    <3>3. CASE D.level = restricted
      <4>1. D.level # privileged
        BY <3>3
      <4>2. TRUE # FALSE /\ Nil # FALSE
        BY ClassAssumption, Zenon
      <4> HIDE DEF D
      <4> QED
        BY <2>1, <3>1, <3>3, <4>1, <4>2, Zenon DEF Admits, Extends
    <3>4. CASE D.level = baseline
      <4>1. D.level # privileged /\ D.level # restricted
        BY <3>4
      <4> HIDE DEF D
      <4> QED
        BY <2>1, <3>1, <4>1, Zenon DEF Admits, Extends
    <3> QED
      BY <1>2, <3>2, <3>3, <3>4 DEF Levels
  <2> QED
    BY <1>1, <1>2, <1>4, <2>2, ConversionTight
<1>5. CASE ~ D.failed /\ C.failed
  <2>1. C.level = 3
    BY <1>1, <1>5, ConversionLevel
  <2>2. ~ convert_volumes(d).failed /\ ~ convert_runAsUser(a, d).failed
    BY <1>5 DEF convertSCCToPSALevel, Result
  <2>3. convert_volumes(c).failed \/ convert_runAsUser(a, c).failed
    BY <1>5 DEF convertSCCToPSALevel, Result
  <2>4. ~ convert_runAsUser(a, c).failed
    <3>1. /\ c.RunAsUser.type \in {"MustRunAsNonRoot", "MustRunAs", "MustRunAsRange", "RunAsAny", "unknown"}
          /\ c.RunAsUser.min \in UIDs \cup {Nil}
      BY DEF SCC
    <3>2. RangeStart(a, c.RunAsUser) \in {"root", "other"}
      BY <3>1 DEF RangeStart, UIDs
    <3>3. c.RunAsUser.type # "unknown"
      <4>1. UsableUIDs(a, d) \subseteq UIDs
        BY <1>1, <2>2, UserTight
      <4>2. c.RunAsUser.type = "unknown" => "whatever it means" \in UsableUIDs(a, c)
        BY DEF UsableUIDs
      <4> QED
        BY <4>1, <4>2, Zenon DEF Extends, UIDs
    <3> QED
      BY <3>1, <3>2, <3>3 DEF convert_runAsUser, Result
  <2>5. \E v \in Listed(c.Volumes) : v \notin RestrictedVolumes \cup BaselineVolumes
    <3>1. Stops(c.Volumes) # {}
      BY <2>3, <2>4 DEF convert_volumes, Result
    <3> QED
      BY <3>1 DEF Stops, Listed
  <2>6. ~ UsableVolumes(d) \subseteq RestrictedVolumes \cup BaselineVolumes
    <3>1. Listed(c.Volumes) \subseteq UsableVolumes(c)
      BY DEF UsableVolumes, SCC, Listed
    <3> QED
      BY <2>5, <3>1 DEF Extends
  <2>7. privileged \in {convert_hostDir(d), convert_volumes(d).level}
    BY <2>2, <2>6, VolumesTight
  <2>8. privileged \in sccRestrictivness(a, d)
    BY <2>7 DEF sccRestrictivness
  <2>9. D.level = privileged
    BY <2>2, <2>8 DEF convertSCCToPSALevel, Result
  <2> QED
    BY <2>1, <2>9
<1> QED
  BY <1>2, <1>3, <1>4, <1>5

\* Edits that take nothing away never make a level more restrictive.
THEOREM EditsAreMonotone == Spec => EditsMonotone
<1> DEFINE Step == \A s \in SCCNames, a \in Annotations \ {"missing", "invalid"} :
       sccs[s] # Nil /\ sccs'[s] # Nil /\ Extends(a, sccs[s], sccs'[s]) =>
         convertSCCToPSALevel(a, sccs'[s]).level >= convertSCCToPSALevel(a, sccs[s]).level
<1>1. TypeOK /\ TypeOK' => Step
  <2> SUFFICES ASSUME TypeOK, TypeOK', NEW s \in SCCNames, NEW a \in Annotations \ {"missing", "invalid"},
                      sccs[s] # Nil, sccs'[s] # Nil, Extends(a, sccs[s], sccs'[s])
               PROVE  convertSCCToPSALevel(a, sccs'[s]).level >= convertSCCToPSALevel(a, sccs[s]).level
    OBVIOUS
  <2>1. sccs[s] \in SCC /\ sccs'[s] \in SCC
    BY DEF TypeOK
  <2>2. a \in UIDs
    BY DEF Annotations
  <2> QED
    BY <2>1, <2>2, ConversionMonotone
<1> QED
  BY <1>1, ConversionTypes, PTL DEF EditsMonotone

\* Of a pass during which no SCC changes: the SCCs it has looked at convert, and the
\* highest of their levels is the one it remembers; or it has met a privileged one.
Level(s)  == convertSCCToPSALevel(annotation, sccs[s]).level
Failed(s) == convertSCCToPSALevel(annotation, sccs[s]).failed
There     == {s \in SCCNames : sccs[s] # Nil}

PassInv ==
  /\ running => annotation # "missing" /\ psaLevel = unknown
  /\ running /\ ~ edited =>
       /\ toConvert \subseteq There
       /\ currentNSLevel = unknown => toConvert = There
       /\ currentNSLevel # unknown => \E s \in There : Level(s) = currentNSLevel
       /\ \/ currentNSLevel = privileged
          \/ \A s \in There \ toConvert : ~ Failed(s) /\ Level(s) <= currentNSLevel

\* A pass ends with the highest level of the SCCs, whatever their number and order.
THEOREM PassFindsHighest == Spec => []HighestLevel
<1> USE Numbers DEF LevelNumbers
<1> DEFINE Inv == PassInv /\ HighestLevel
<1>1. Init => Inv
  BY DEF Init, PassInv, HighestLevel
<1>2. TypeOK /\ TypeOK' /\ Inv /\ [Next]_vars => Inv'
  <2> SUFFICES ASSUME TypeOK, TypeOK', PassInv, HighestLevel, [Next]_vars
               PROVE  PassInv' /\ HighestLevel'
    OBVIOUS
  <2>0. \A s \in There : Level(s) \in Levels /\ Failed(s) \in BOOLEAN /\ (Failed(s) => Level(s) = 3)
    BY ConversionLevel DEF TypeOK, There, Level, Failed
  <2>1. ASSUME NEW a \in Annotations, Begin(a)
        PROVE  PassInv' /\ HighestLevel'
    BY <2>1 DEF Begin, PassInv, HighestLevel, There
  <2>2. ASSUME NEW s \in SCCNames, Convert(s)
        PROVE  PassInv' /\ HighestLevel'
    <3> USE <2>2 DEF Convert
    <3>1. There' = There /\ (\A t : Level(t)' = Level(t) /\ Failed(t)' = Failed(t))
      BY DEF There, Level, Failed
    <3>2. CASE edited
      BY <3>2 DEF PassInv, HighestLevel
    <3>3. CASE ~ edited /\ (sccs[s] = Nil \/ Failed(s))
      <4>1. s \in There /\ Failed(s) /\ ~ running' /\ psaLevel' = unknown
        BY <3>3, Zenon DEF PassInv, There, Failed
      <4> QED
        BY <3>1, <3>3, <4>1 DEF PassInv, HighestLevel, There, Level, Failed
    <3>4. CASE ~ edited /\ sccs[s] # Nil /\ ~ Failed(s)
      <4> DEFINE level == Level(s)
      <4>1. /\ running' = running /\ edited' = edited /\ annotation' = annotation /\ psaLevel' = psaLevel
            /\ currentNSLevel' = IF level > currentNSLevel THEN level ELSE currentNSLevel
            /\ toConvert' = IF currentNSLevel' = privileged THEN {} ELSE toConvert \ {s}
            /\ running /\ s \in toConvert
        BY <3>4, Zenon DEF Level, Failed
      <4>2. s \in There /\ level \in Levels /\ currentNSLevel \in {unknown} \cup Levels
        BY <2>0, <3>4 DEF There, TypeOK
      <4> HIDE <2>2
      <4> HIDE DEF level
      <4>3. currentNSLevel' # unknown /\ \E t \in There : Level(t) = currentNSLevel'
        <5>1. CASE level > currentNSLevel
          BY <4>1, <4>2, <5>1 DEF Levels, level
        <5>2. CASE ~ level > currentNSLevel
          <6>1. currentNSLevel' = currentNSLevel /\ currentNSLevel # unknown
            BY <4>1, <4>2, <5>2 DEF Levels
          <6> QED
            BY <3>4, <4>1, <6>1 DEF PassInv
        <5> QED
          BY <5>1, <5>2
      <4>4. toConvert' \subseteq There
        BY <3>4, <4>1 DEF PassInv
      <4>5. CASE currentNSLevel' = privileged
        BY <3>1, <4>1, <4>3, <4>4, <4>5 DEF PassInv, HighestLevel
      <4>6. CASE currentNSLevel' # privileged
        <5>1. currentNSLevel # privileged /\ toConvert' = toConvert \ {s}
              /\ currentNSLevel <= currentNSLevel' /\ level <= currentNSLevel'
          BY <4>1, <4>2, <4>6 DEF Levels
        <5>2. \A t \in There \ toConvert : ~ Failed(t) /\ Level(t) <= currentNSLevel
          BY <3>4, <4>1, <5>1 DEF PassInv
        <5>3. currentNSLevel' \in {unknown} \cup Levels
          BY DEF TypeOK
        <5>4. \A t \in There \ toConvert' : ~ Failed(t) /\ Level(t) <= currentNSLevel'
          BY <2>0, <3>4, <4>2, <5>1, <5>2, <5>3 DEF Levels, level
        <5> QED
          BY <3>1, <4>1, <4>3, <4>4, <5>4 DEF PassInv, HighestLevel
      <4> QED
        BY <4>5, <4>6
    <3> QED
      BY <2>0, <3>2, <3>3, <3>4 DEF There
  <2>3. ASSUME NEW s \in SCCNames, NEW c \in SCCs \cup {Nil}, Change(s, c)
        PROVE  PassInv' /\ HighestLevel'
    BY <2>3 DEF Change, pass, PassInv, HighestLevel
  <2>4. CASE End
    <3>1. There' = There /\ (\A t : Level(t)' = Level(t) /\ Failed(t)' = Failed(t))
      BY <2>4 DEF End, There, Level, Failed
    <3>2. CASE edited
      BY <2>4, <3>2 DEF End, PassInv, HighestLevel
    <3>3. CASE ~ edited
      <4>1. /\ running /\ toConvert = {} /\ ~ running' /\ psaLevel' = currentNSLevel
            /\ edited' = edited /\ annotation' = annotation
        BY <2>4 DEF End
      <4>2. CASE currentNSLevel = unknown
        <5>1. There = {}
          BY <3>3, <4>1, <4>2 DEF PassInv
        <5> QED
          BY <3>1, <4>1, <4>2, <5>1, Zenon DEF PassInv, HighestLevel, There, Level, Failed
      <4>3. CASE currentNSLevel # unknown
        <5>1. \E t \in There : Level(t) = psaLevel'
          BY <3>3, <4>1, <4>3 DEF PassInv
        <5>2. \A t \in There : Level(t) <= psaLevel'
          BY <2>0, <3>3, <4>1 DEF PassInv, Levels
        <5> QED
          BY <3>1, <4>1, <4>3, <5>1, <5>2, Zenon DEF PassInv, HighestLevel, There, Level, Failed
      <4> QED
        BY <4>2, <4>3
    <3> QED
      BY <3>2, <3>3 DEF TypeOK
  <2>5. CASE UNCHANGED vars
    BY <2>5 DEF vars, pass, PassInv, HighestLevel, There, Level, Failed
  <2> QED
    BY <2>1, <2>2, <2>3, <2>4, <2>5 DEF Next
<1> QED
  BY <1>1, <1>2, ConversionTypes, PTL DEF Spec
=============================================================================
