---------------------------- MODULE SCCConversion ----------------------------
(***************************************************************************)
(* The pod security level that SecurityContextConstraints call for:        *)
(* src/pkg/psalabelsyncer/scctopsamapping.go, and the loop of              *)
(* syncNamespace over the SCCs of a namespace, during which they are       *)
(* edited and deleted.                                                     *)
(*                                                                         *)
(* Names of capabilities, sysctls, volume types and profiles are sorted    *)
(* into the classes that the code tells apart; a UID is root or not.       *)
(***************************************************************************)
EXTENDS Naturals, Sequences

CONSTANTS
  SCCNames,
  BaselineCapabilities,  \* of baseline_capabilities_allowed_1_0, but NET_BIND_SERVICE
  OtherCapabilities,     \* any other, "*" included
  SafeSysctls, OtherSysctls,
  RestrictedVolumes, BaselineVolumes, UnknownVolumes,
  ValidProfiles, OtherProfiles,
  AllowedSELinuxTypes, OtherSELinuxTypes,
  InitialSCCs, SCCs,     \* what an SCC may be at first, and later
  Nil,
  MaxEdits               \* bound on edits and deletions of SCCs

\* The restrictiveness of a level, the least restrictive being the highest.
unknown    == 0
restricted == 1
baseline   == 2
privileged == 3
Levels     == {restricted, baseline, privileged}

AllCapabilities == {"NET_BIND_SERVICE"} \cup BaselineCapabilities \cup OtherCapabilities
AllVolumes      == {"*", "hostPath"} \cup RestrictedVolumes \cup BaselineVolumes \cup UnknownVolumes
AllProfiles     == ValidProfiles \cup OtherProfiles
AllSELinuxTypes == AllowedSELinuxTypes \cup OtherSELinuxTypes
UIDs            == {"root", "other"}

SELinuxOptions == [type : AllSELinuxTypes, user : BOOLEAN, role : BOOLEAN]

SCC ==
  [AllowHostDirVolumePlugin : BOOLEAN,
   hostNamespaces           : SUBSET {"IPC", "Network", "PID"},
   AllowHostPorts           : BOOLEAN,
   AllowPrivilegeEscalation : BOOLEAN \cup {Nil},
   AllowPrivilegedContainer : BOOLEAN,
   AllowedCapabilities      : SUBSET AllCapabilities,
   dropsAll                 : BOOLEAN,   \* RequiredDropCapabilities has ALL
   AllowedUnsafeSysctls     : SUBSET (SafeSysctls \cup OtherSysctls),
   Volumes                  : Seq(AllVolumes),
   seLinux                  : [type : {"MustRunAs", "RunAsAny"}, options : SELinuxOptions \cup {Nil}],
   SeccompProfiles          : SUBSET AllProfiles,
   RunAsUser                :
     [type : {"MustRunAsNonRoot", "MustRunAs", "MustRunAsRange", "RunAsAny", "unknown"},
      uid : UIDs \cup {Nil}, min : UIDs \cup {Nil}, max : UIDs \cup {Nil}]]

\* The UID range annotation: where its block starts, or that it does not parse.
Annotations == UIDs \cup {"missing", "invalid"}

ASSUME ClassAssumption ==
  /\ InitialSCCs \subseteq SCCs /\ SCCs \subseteq SCC
  /\ Nil \notin SCC /\ Nil \notin BOOLEAN /\ Nil \notin UIDs /\ Nil \notin SELinuxOptions
  /\ "NET_BIND_SERVICE" \notin BaselineCapabilities
  /\ ({"NET_BIND_SERVICE"} \cup BaselineCapabilities) \cap OtherCapabilities = {}
  /\ SafeSysctls \cap OtherSysctls = {}
  /\ {"*", "hostPath"} \cap (RestrictedVolumes \cup BaselineVolumes \cup UnknownVolumes) = {}
  /\ RestrictedVolumes \cap BaselineVolumes = {}
  /\ UnknownVolumes \cap (RestrictedVolumes \cup BaselineVolumes) = {}
  /\ ValidProfiles \cap OtherProfiles = {}
  /\ "undefined" \notin AllProfiles
  /\ AllowedSELinuxTypes \cap OtherSELinuxTypes = {} /\ AllowedSELinuxTypes # {}
  /\ MaxEdits \in Nat

VARIABLES
  sccs,            \* the SCCs, as the lister has them; Nil if deleted
  annotation,      \* of the namespace that the pass looks at
  toConvert,       \* the pass: SCCs still to look at, ...
  currentNSLevel,  \* ... and the highest level so far
  running,
  psaLevel,        \* what the last pass came to; unknown if to an error
  edited,          \* history: an SCC was edited or deleted since the pass began
  edits

pass == <<annotation, toConvert, currentNSLevel, running, psaLevel>>
vars == <<sccs, pass, edited, edits>>

TypeOK ==
  /\ sccs \in [SCCNames -> SCC \cup {Nil}]
  /\ annotation \in Annotations
  /\ toConvert \in SUBSET SCCNames
  /\ currentNSLevel \in {unknown} \cup Levels
  /\ running \in BOOLEAN /\ psaLevel \in {unknown} \cup Levels
  /\ edited \in BOOLEAN
  /\ edits \in 0 .. MaxEdits

-----------------------------------------------------------------------------
(* One setting of an SCC at a time.                                        *)
Listed(volumes) == {volumes[i] : i \in DOMAIN volumes}

convert_hostDir(c) ==
  IF c.AllowHostDirVolumePlugin \/ Listed(c.Volumes) \cap {"*", "hostPath"} # {}
    THEN privileged ELSE restricted

convert_hostNamespace(c) == IF c.hostNamespaces # {} THEN privileged ELSE restricted

convert_hostPorts(c) == IF c.AllowHostPorts THEN privileged ELSE restricted

\* Faulty: not set is taken for not allowed.
EscalationIfSet(c) == IF c.AllowPrivilegeEscalation = TRUE THEN baseline ELSE restricted

convert_allowPrivilegeEscalation(c) ==
  IF c.AllowPrivilegeEscalation = Nil \/ c.AllowPrivilegeEscalation THEN baseline ELSE restricted

convert_allowPrivilegedContainer(c) == IF c.AllowPrivilegedContainer THEN privileged ELSE restricted

convert_allowedCapabilities(c) ==
  IF ~ c.AllowedCapabilities \subseteq {"NET_BIND_SERVICE"} \cup BaselineCapabilities THEN privileged
  ELSE IF ~ c.AllowedCapabilities \subseteq {"NET_BIND_SERVICE"} \/ ~ c.dropsAll THEN baseline
  ELSE restricted

convert_unsafeSysctls(c) ==
  IF c.AllowedUnsafeSysctls \subseteq SafeSysctls THEN restricted ELSE privileged

\* The level and whether there was an error.
Result(level, failed) == [level |-> level, failed |-> failed]

VolumeLevel(v) == IF v \in RestrictedVolumes THEN restricted ELSE baseline

\* The volumes at which the loop returns.
Stops(volumes) == {i \in DOMAIN volumes : volumes[i] \notin RestrictedVolumes \cup BaselineVolumes}

\* Faulty: the level of the last volume.
LastVolume(c) ==
  IF c.Volumes = <<>> \/ Stops(c.Volumes) # {}
    THEN Result(unknown, Stops(c.Volumes) # {})
    ELSE Result(VolumeLevel(c.Volumes[Len(c.Volumes)]), FALSE)

convert_volumes(c) ==
  LET stops == Stops(c.Volumes)
  IN  IF c.Volumes = <<>> THEN Result(unknown, FALSE)
      ELSE IF stops = {} THEN
        Result(IF \E v \in Listed(c.Volumes) : VolumeLevel(v) = baseline THEN baseline ELSE restricted, FALSE)
      ELSE IF \E i \in stops : c.Volumes[i] \in {"*", "hostPath"} /\ \A j \in stops : i <= j
        THEN Result(privileged, FALSE)
      ELSE Result(unknown, TRUE)

convert_seLinuxOptions(c) ==
  IF c.seLinux.type # "MustRunAs" THEN privileged
  ELSE IF c.seLinux.options = Nil THEN restricted
  ELSE IF \/ c.seLinux.options.type \notin AllowedSELinuxTypes
          \/ c.seLinux.options.user \/ c.seLinux.options.role THEN privileged
  ELSE restricted

convert_seccompProfile(c) ==
  IF c.SeccompProfiles = {} THEN baseline
  ELSE IF c.SeccompProfiles \subseteq ValidProfiles THEN restricted ELSE privileged

\* A range that the SCC leaves open is the namespace's.
RangeStart(a, user) == IF user.min = Nil \/ user.max = Nil THEN a ELSE user.min

convert_runAsUser(a, c) ==
  LET user == c.RunAsUser
  IN  CASE user.type = "MustRunAsNonRoot" -> Result(restricted, FALSE)
        [] user.type = "MustRunAs" ->
             Result(IF user.uid = "other" THEN restricted ELSE baseline, FALSE)
        [] user.type = "MustRunAsRange" /\ RangeStart(a, user) = "other" -> Result(restricted, FALSE)
        [] user.type = "MustRunAsRange" /\ RangeStart(a, user) = "root" -> Result(baseline, FALSE)
        [] user.type = "RunAsAny" -> Result(baseline, FALSE)
        [] OTHER -> Result(unknown, TRUE)

sccRestrictivness(a, c) ==
  {convert_hostDir(c), convert_hostNamespace(c), convert_hostPorts(c),
   convert_allowPrivilegeEscalation(c), convert_allowPrivilegedContainer(c),
   convert_allowedCapabilities(c), convert_unsafeSysctls(c),
   convert_volumes(c).level, convert_seLinuxOptions(c), convert_seccompProfile(c),
   convert_runAsUser(a, c).level}

\* What cannot be converted is privileged, and an error.
convertSCCToPSALevel(a, c) ==
  LET all == sccRestrictivness(a, c)
  IN  IF convert_volumes(c).failed \/ convert_runAsUser(a, c).failed THEN Result(privileged, TRUE)
      ELSE Result(IF privileged \in all THEN privileged
                  ELSE IF baseline \in all THEN baseline ELSE restricted, FALSE)

-----------------------------------------------------------------------------
(* The loop of syncNamespace over the SCCs of the service accounts, in     *)
(* the random order of a map.                                              *)
Init ==
  /\ sccs \in [SCCNames -> InitialSCCs]
  /\ annotation = "missing" /\ toConvert = {} /\ currentNSLevel = unknown
  /\ running = FALSE /\ psaLevel = unknown
  /\ edited = FALSE /\ edits = MaxEdits

\* A namespace that has an annotation is looked at, and its SCCs collected.
Begin(a) ==
  /\ ~ running /\ a # "missing"
  /\ annotation' = a /\ currentNSLevel' = unknown /\ running' = TRUE /\ psaLevel' = unknown
  /\ toConvert' = {s \in SCCNames : sccs[s] # Nil}
  /\ edited' = FALSE
  /\ UNCHANGED <<sccs, edits>>

\* Faulty: an SCC that cannot be converted is passed over.
Skipping(s) ==
  LET converted == convertSCCToPSALevel(annotation, sccs[s])
  IN  /\ running /\ s \in toConvert
      /\ toConvert' = toConvert \ {s}
      /\ currentNSLevel' = IF sccs[s] # Nil /\ ~ converted.failed /\ converted.level > currentNSLevel
                             THEN converted.level ELSE currentNSLevel
      /\ UNCHANGED <<sccs, annotation, running, psaLevel, edited, edits>>

\* One SCC: an error ends the pass, and so does a level that cannot be exceeded.
Convert(s) ==
  LET converted == convertSCCToPSALevel(annotation, sccs[s])
  IN  /\ running /\ s \in toConvert
      /\ IF sccs[s] = Nil \/ converted.failed
           THEN running' = FALSE /\ UNCHANGED <<toConvert, currentNSLevel>>
           ELSE /\ currentNSLevel' = IF converted.level > currentNSLevel
                                       THEN converted.level ELSE currentNSLevel
                /\ toConvert' = IF currentNSLevel' = privileged THEN {} ELSE toConvert \ {s}
                /\ UNCHANGED running
      /\ UNCHANGED <<sccs, annotation, psaLevel, edited, edits>>

\* internalRestrictivnessToPSaLevel: without an SCC there is no level.
End ==
  /\ running /\ toConvert = {}
  /\ running' = FALSE /\ psaLevel' = currentNSLevel
  /\ UNCHANGED <<sccs, annotation, toConvert, currentNSLevel, edited, edits>>

\* An SCC is edited or deleted, and the lister follows.
Change(s, c) ==
  /\ edits > 0 /\ sccs[s] # Nil
  /\ sccs' = [sccs EXCEPT ![s] = c]
  /\ edited' = TRUE /\ edits' = edits - 1
  /\ UNCHANGED pass

Next ==
  \/ \E a \in Annotations : Begin(a)
  \/ \E s \in SCCNames : Convert(s) \/ Change(s, Nil) \/ \E c \in SCCs : Change(s, c)
  \/ End

Spec == Init /\ [][Next]_vars

-----------------------------------------------------------------------------
(* What an SCC lets a pod do, and what a level admits: the "baseline       *)
(* allows" and "restricted allows" of the comments on the conversions,     *)
(* after the checks of the pod security admission that they name.          *)
UsableVolumes(c) ==
  IF "*" \in Listed(c.Volumes) THEN AllVolumes
  ELSE Listed(c.Volumes) \cup IF c.AllowHostDirVolumePlugin THEN {"hostPath"} ELSE {}

UsableSELinux(c) ==
  IF c.seLinux.type = "RunAsAny" THEN [type : AllSELinuxTypes, user : {TRUE}, role : {TRUE}]
  ELSE IF c.seLinux.options = Nil THEN {} ELSE {c.seLinux.options}

BaselineSELinux == [type : AllowedSELinuxTypes, user : {FALSE}, role : {FALSE}]

UsableProfiles(c) == IF c.SeccompProfiles = {} THEN {"undefined"} ELSE c.SeccompProfiles

UsableUIDs(a, c) ==
  LET user  == c.RunAsUser
      start == RangeStart(a, user)
  IN  CASE user.type = "MustRunAsNonRoot" -> {"other"}
        [] user.type = "MustRunAs" /\ user.uid # Nil -> {user.uid}
        [] user.type = "MustRunAsRange" -> {start, "other"}
        [] user.type = "unknown" -> UIDs \cup {"whatever it means"}
        [] OTHER -> UIDs

Admits(level, a, c) ==
  LET For(res, base) == IF level = restricted THEN res ELSE res \cup base
  IN  \/ level = privileged
      \/ /\ UsableVolumes(c) \subseteq For(RestrictedVolumes, BaselineVolumes)
         /\ c.hostNamespaces = {} /\ ~ c.AllowHostPorts /\ ~ c.AllowPrivilegedContainer
         /\ c.AllowPrivilegeEscalation \in For({FALSE}, {TRUE, Nil})
         /\ c.AllowedCapabilities \subseteq For({"NET_BIND_SERVICE"}, BaselineCapabilities)
         /\ c.dropsAll \in For({TRUE}, {FALSE})
         /\ c.AllowedUnsafeSysctls \subseteq SafeSysctls
         /\ UsableSELinux(c) \subseteq BaselineSELinux
         /\ UsableProfiles(c) \subseteq For(ValidProfiles, {"undefined"})
         /\ UsableUIDs(a, c) \subseteq For({"other"}, {"root"})

-----------------------------------------------------------------------------
(* Properties.                                                             *)

\* convertSCCToPSALevel gives the most restrictive level that admits whatever the
\* SCC lets a pod do: neither a level that would keep out a pod that the SCC admits,
\* nor one higher than that takes.
TightestLevel ==
  \A s \in SCCNames, a \in Annotations : sccs[s] # Nil =>
    LET converted == convertSCCToPSALevel(a, sccs[s])
    IN  ~ converted.failed => \A l \in Levels : Admits(l, a, sccs[s]) <=> l >= converted.level

\* d lets a pod do all that c does.
Extends(a, c, d) ==
  /\ UsableVolumes(c) \subseteq UsableVolumes(d)
  /\ c.hostNamespaces \subseteq d.hostNamespaces
  /\ c.AllowHostPorts => d.AllowHostPorts
  /\ c.AllowPrivilegedContainer => d.AllowPrivilegedContainer
  /\ c.AllowPrivilegeEscalation # FALSE => d.AllowPrivilegeEscalation # FALSE
  /\ c.AllowedCapabilities \subseteq d.AllowedCapabilities
  /\ d.dropsAll => c.dropsAll
  /\ c.AllowedUnsafeSysctls \subseteq d.AllowedUnsafeSysctls
  /\ UsableSELinux(c) \subseteq UsableSELinux(d)
  /\ UsableProfiles(c) \subseteq UsableProfiles(d)
  /\ UsableUIDs(a, c) \subseteq UsableUIDs(a, d)

\* An edit that takes nothing from an SCC never makes its level more restrictive,
\* in whatever order its volumes are listed and whether or not it converts.
EditsMonotone ==
  [][\A s \in SCCNames, a \in Annotations \ {"missing", "invalid"} :
       sccs[s] # Nil /\ sccs'[s] # Nil /\ Extends(a, sccs[s], sccs'[s]) =>
         convertSCCToPSALevel(a, sccs'[s]).level >= convertSCCToPSALevel(a, sccs[s]).level]_vars

\* A pass during which no SCC changes ends, in whatever order it looks at them, with
\* the highest of their levels, those that do not convert counting as privileged; or
\* with an error, if one does not convert or there is none.
HighestLevel ==
  ~ running /\ annotation # "missing" /\ ~ edited =>
    LET there      == {s \in SCCNames : sccs[s] # Nil}
        all        == {convertSCCToPSALevel(annotation, sccs[s]).level : s \in there}
        unknowable == there = {} \/ \E s \in there : convertSCCToPSALevel(annotation, sccs[s]).failed
    IN  IF psaLevel = unknown THEN unknowable
        ELSE psaLevel \in all /\ \A l \in all : l <= psaLevel
=============================================================================
