--------------------------- MODULE MCSCCConversion ---------------------------
(* SCCConversion for TLC: a name or two of every class, and the SCCs that      *)
(* differ from a few typical ones in one or two settings.                      *)
EXTENDS SCCConversion

OpenRange == [type |-> "MustRunAsRange", uid |-> Nil, min |-> Nil, max |-> Nil]

\* After the SCCs restricted-v2 and anyuid, and one in between.
RestrictedV2 ==
  [AllowHostDirVolumePlugin |-> FALSE, hostNamespaces |-> {}, AllowHostPorts |-> FALSE,
   AllowPrivilegeEscalation |-> FALSE, AllowPrivilegedContainer |-> FALSE,
   AllowedCapabilities |-> {"NET_BIND_SERVICE"}, dropsAll |-> TRUE,
   AllowedUnsafeSysctls |-> {}, Volumes |-> <<"configMap">>,
   seLinux |-> [type |-> "MustRunAs", options |-> Nil],
   SeccompProfiles |-> {"runtime/default"}, RunAsUser |-> OpenRange]

AnyUID ==
  [RestrictedV2 EXCEPT !.AllowPrivilegeEscalation = Nil, !.AllowedCapabilities = {},
     !.dropsAll = FALSE, !.SeccompProfiles = {}, !.RunAsUser.type = "RunAsAny"]

NFS == [RestrictedV2 EXCEPT !.Volumes = <<"nfs">>, !.RunAsUser.type = "MustRunAsNonRoot"]

MCInitialSCCs == {RestrictedV2, AnyUID, NFS}

Lists == UNION {[1..n -> {"configMap", "nfs", "hostPath", "*", "exotic"}] : n \in 0..2}

Options == [type : AllSELinuxTypes, user : BOOLEAN, role : BOOLEAN]

Edited(c) ==
  UNION {
    {[c EXCEPT !.AllowHostDirVolumePlugin = TRUE], [c EXCEPT !.AllowHostPorts = TRUE],
     [c EXCEPT !.AllowPrivilegedContainer = TRUE]},
    {[c EXCEPT !.hostNamespaces = h] : h \in SUBSET {"IPC", "Network", "PID"}},
    {[c EXCEPT !.AllowPrivilegeEscalation = e] : e \in {TRUE, FALSE, Nil}},
    {[c EXCEPT !.AllowedCapabilities = k, !.dropsAll = d] : k \in SUBSET AllCapabilities, d \in BOOLEAN},
    {[c EXCEPT !.AllowedUnsafeSysctls = y] : y \in SUBSET (SafeSysctls \cup OtherSysctls)},
    {[c EXCEPT !.Volumes = v] : v \in Lists},
    {[c EXCEPT !.seLinux = [type |-> t, options |-> o]] :
       t \in {"MustRunAs", "RunAsAny"}, o \in Options \cup {Nil}},
    {[c EXCEPT !.SeccompProfiles = p] : p \in SUBSET AllProfiles},
    {[c EXCEPT !.RunAsUser = [type |-> t, uid |-> u, min |-> m, max |-> x]] :
       t \in {"MustRunAsNonRoot", "MustRunAs", "MustRunAsRange", "RunAsAny", "unknown"},
       u \in UIDs \cup {Nil}, m \in UIDs \cup {Nil}, x \in {"other", Nil}}}

MCSCCs == UNION {Edited(c) : c \in MCInitialSCCs}
=============================================================================
