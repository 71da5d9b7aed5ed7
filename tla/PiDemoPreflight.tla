---------------------------- MODULE PiDemoPreflight ----------------------------
(***************************************************************************)
(* smoke/pi_demo_preflight.py, run on the morning of a demo, and then the  *)
(* launch (ReleaseLaunch) its report is about.  The preflight reads slots  *)
(* and registry once more, for itself; every check is attempted and        *)
(* recorded, and the report passes if they all do.                         *)
(***************************************************************************)
EXTENDS ReleaseLaunch

VARIABLES
  check,      \* the preflight's next check, "reported" when main may be started
  counted,    \* counted[k]: the publishable entries release_gate_status found
  passed,     \* no check has failed so far
  quiet       \* nothing was edited since the preflight began (history)

preflight == <<check, counted, passed>>
demoVars  == <<allVars, check, counted, passed, quiet>>

Checks == {"files", "release_gate_status", "release_refuses_locally", "boot", "shutdown", "reported"}
NotCounted == {"not counted"}

ASSUME PreflightConstants == "not counted" \notin Entries

InitDemo ==
  /\ Init
  /\ check = "files" /\ counted = [k \in Keys |-> NotCounted] /\ passed = TRUE /\ quiet = TRUE

\* A check that may fail for a reason outside of the model.
MayFail == passed' \in {passed, FALSE}

\* required_files_present, no_c_drive_paths
CheckFiles ==
  /\ check = "files" /\ check' = "release_gate_status"
  /\ MayFail /\ UNCHANGED counted

\* Mutant of Counted: only what is staged is counted, and not verified.
CountedStaged(k) == slot[k]

\* check_release_gate_status, for one tab: no root, no registry, nothing publishable.
Counted(k) == IF args.root THEN Selected(files, LoadEntries(k)) ELSE {}

\* A status report: it always passes.
CheckReleaseGate ==
  /\ check = "release_gate_status"
  /\ LET i == CHOOSE j \in DOMAIN Tabs : /\ counted[Tabs[j]] = NotCounted
                                         /\ \A h \in 1..(j - 1) : counted[Tabs[h]] # NotCounted
     IN  /\ counted' = [counted EXCEPT ![Tabs[i]] = Counted(Tabs[i])]
         /\ check' = IF i = Len(Tabs) THEN "release_refuses_locally" ELSE check
  /\ UNCHANGED passed

\* check_release_refuses_with_local_stub_backends: the gate of each tab, on a stub.
CheckRefusesLocally ==
  /\ check = "release_refuses_locally" /\ check' = "boot"
  /\ passed' = (passed /\ \A k \in Keys : ~Admitted(k, "stub", LoadEntries(k)))
  /\ UNCHANGED counted

\* run_boot_http_status_shutdown: a dev page of stubs is built, probed and looked at;
\* a boot that raises is a failed check.  The port is looked at whether it booted or not.
CheckBoot ==
  /\ check = "boot" /\ check' = "shutdown"
  /\ MayFail /\ UNCHANGED counted
CheckShutdown ==
  /\ check = "shutdown" /\ check' = "reported"
  /\ MayFail /\ UNCHANGED counted

Preflight ==
  /\ CheckFiles \/ CheckReleaseGate \/ CheckRefusesLocally \/ CheckBoot \/ CheckShutdown
  /\ UNCHANGED <<allVars, quiet>>

DemoLaunch == check = "reported" /\ Launch /\ UNCHANGED <<preflight, quiet>>

\* Staging and editing go on, before, during and after.
EditDemo == EditDisk /\ quiet' = (quiet /\ check = "files") /\ UNCHANGED preflight

NextDemo == Preflight \/ DemoLaunch \/ EditDemo

\* The preflight and the launch run on; nobody has to edit anything.
DemoSpec == InitDemo /\ [][NextDemo]_demoVars /\ WF_demoVars(Preflight \/ DemoLaunch)

-------------------------------------------------------------------------------
DemoTypeOK ==
  /\ TypeOK
  /\ check \in Checks /\ counted \in [Keys -> (SUBSET Entries) \cup {NotCounted}]
  /\ passed \in BOOLEAN /\ quiet \in BOOLEAN
  /\ check # "reported" => stage = "load"

\* "Mode B: ... a real --mode release launch refuses" and "Mode A: ... a real --mode
\* release launch (with a mechanically-accepted real backend) would render exactly this
\* publishable subset", as far as they are true.  If nothing is edited from the preflight
\* on, a release launch is refused when either tab was counted empty; it is let through
\* when both were counted and every layer staged is one its runtime backend was accepted
\* at; and then it shows exactly what was counted, or crashes because the first counted
\* entry of a tab is authored in multiples, which the preflight does not look at.
PreflightPredictsLaunch ==
  check = "reported" /\ quiet /\ args.mode = "release" =>
    /\ (\E k \in Keys : counted[k] = {}) => stage \notin {"filter", "build", "serving", "crashed"}
    /\ (\A k \in Keys : /\ counted[k] # {} /\ args.backend[k] = "runtime"
                        /\ LayersAccepted(k, Shipped[k] \cup (slot[k] \cap Decodable)))
         => stage # "refused"
    /\ stage = "serving" => entries = counted /\ \A k \in Keys : Opens(counted[k])
    /\ stage = "crashed" => \E k \in Keys : ~Opens(counted[k])

===============================================================================
