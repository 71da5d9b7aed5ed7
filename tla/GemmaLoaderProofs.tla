--------------------------- MODULE GemmaLoaderProofs ---------------------------
(***************************************************************************)
(* GemmaLoader, for any loaders, any list of requests and any snapshot:    *)
(* loads that do not overlap put back the download function they found,    *)
(* and what a successful load says of itself is true.                      *)
(***************************************************************************)
EXTENDS GemmaLoader, TLAPS

LEMMA InitEstablishesInv == Init => LoaderInv
  BY LoaderConstants
     DEF Init, LoaderInv, TypeOK, OneLoad, Patched, Served, Asked, Steps, File

\* A load enters only while no other is on its way.
LEMMA EnterKeepsInv ==
  ASSUME ~Overlap, LoaderInv, NEW l \in Loaders, Enter(l)
  PROVE  LoaderInv'
<1>1. TypeOK'
  BY LoaderConstants DEF LoaderInv, TypeOK, Enter, Goto, Leave, Steps
<1>2. OneLoad'
  BY DEF LoaderInv, TypeOK, OneLoad, Enter, Goto, Leave, Steps
<1>3. Patched'
  BY DEF LoaderInv, TypeOK, Patched, Enter, Goto, Leave, Steps
<1>4. \A k \in Loaders : Served(k)'
  BY DEF LoaderInv, TypeOK, Served, Asked, Enter, Goto, Leave, Steps
<1>. QED  BY <1>1, <1>2, <1>3, <1>4 DEF LoaderInv

LEMMA SaveKeepsInv ==
  ASSUME ~Overlap, LoaderInv, NEW l \in Loaders, Save(l)
  PROVE  LoaderInv'
<1>1. TypeOK'
  BY DEF LoaderInv, TypeOK, Save, Goto, Steps
<1>2. OneLoad'
  BY DEF LoaderInv, TypeOK, OneLoad, Save, Goto, Steps
<1>3. Patched'
  BY DEF LoaderInv, TypeOK, OneLoad, Patched, Save, Goto, Steps
<1>4. \A k \in Loaders : Served(k)'
  BY DEF LoaderInv, TypeOK, Served, Asked, Save, Goto, Steps
<1>. QED  BY <1>1, <1>2, <1>3, <1>4 DEF LoaderInv

LEMMA InstallKeepsInv ==
  ASSUME ~Overlap, LoaderInv, NEW l \in Loaders, Install(l)
  PROVE  LoaderInv'
<1>1. TypeOK'
  BY DEF LoaderInv, TypeOK, Install, Goto, Steps
<1>2. OneLoad'
  BY DEF LoaderInv, TypeOK, OneLoad, Install, Goto, Steps
<1>3. Patched'
  BY DEF LoaderInv, TypeOK, OneLoad, Patched, Install, Goto, Steps
<1>4. \A k \in Loaders : Served(k)'
  BY DEF LoaderInv, TypeOK, Served, Asked, Install, Goto, Steps
<1>. QED  BY <1>1, <1>2, <1>3, <1>4 DEF LoaderInv

\* What a request adds to Asked(l): the file it asks for.
LEMMA AskedGrows ==
  ASSUME NEW n \in 1..Len(Requests)
  PROVE  {Requests[i] : i \in 1..n} = {Requests[i] : i \in 1..(n - 1)} \cup {Requests[n]}
  BY LoaderConstants, SMT

LEMMA AskKeepsInv ==
  ASSUME ~Overlap, LoaderInv, NEW l \in Loaders, Ask(l)
  PROVE  LoaderInv'
<1>. DEFINE file == Requests[next[l]]
<1>1. hub = l /\ l # Real /\ shapes = "local" /\ next[l] \in 1..Len(Requests) /\ file \in File
  BY LoaderConstants DEF LoaderInv, TypeOK, Patched, Ask, File
<1>2. /\ served' = [served EXCEPT ![l] = @ \cup {l}]
      /\ captured' = [k \in Loaders |-> IF k = l /\ file \in snapshot
                                       THEN captured[k] \cup {file} ELSE captured[k]]
  BY <1>1 DEF Ask, ServedBy, Recorded
<1>3. \/ /\ next' = [next EXCEPT ![l] = @ + 1] /\ UNCHANGED <<step, outcome>>
      \/ /\ step' = [step EXCEPT ![l] = "leaving"]
         /\ outcome' = [outcome EXCEPT ![l] = "raised"]
         /\ UNCHANGED next
  BY DEF Ask, Goto
<1>4. UNCHANGED <<snapshot, hub, shapes, original>> /\ step[l] = "inside" /\ outcome[l] = "none"
  BY DEF Ask
<1>5. TypeOK'
  <2>1. captured' \in [Loaders -> SUBSET File]
    BY <1>1, <1>2 DEF LoaderInv, TypeOK
  <2>2. served' \in [Loaders -> SUBSET (Loaders \cup {Real})]
    BY <1>2 DEF LoaderInv, TypeOK
  <2>3. next' \in [Loaders -> 1..(Len(Requests) + 1)]
    <3>1. next[l] + 1 \in 1..(Len(Requests) + 1)
      BY <1>1, LoaderConstants
    <3>. QED  BY <1>3, <3>1 DEF LoaderInv, TypeOK
  <2>4. step' \in [Loaders -> Steps] /\ outcome' \in [Loaders -> {"none", "loaded", "raised"}]
    BY <1>3 DEF LoaderInv, TypeOK, Steps
  <2>. QED  BY <1>4, <2>1, <2>2, <2>3, <2>4 DEF LoaderInv, TypeOK
<1>6. OneLoad'
  BY <1>3, <1>4 DEF LoaderInv, TypeOK, OneLoad, Steps
<1>7. Patched'
  BY <1>1, <1>3, <1>4 DEF LoaderInv, TypeOK, OneLoad, Patched, Steps
<1>8. ASSUME NEW k \in Loaders, k # l
      PROVE  Served(k)'
  BY <1>2, <1>3, <1>4, <1>8 DEF LoaderInv, TypeOK, Served, Asked
<1>9. Served(l)'
  <2>1. CASE next' = [next EXCEPT ![l] = @ + 1] /\ UNCHANGED <<step, outcome>>
    <3>1. next'[l] = next[l] + 1 /\ served'[l] = {l}
      BY <1>2, <2>1 DEF LoaderInv, TypeOK, Served
    <3>2. Asked(l)' = Asked(l) \cup {file}
      BY <1>1, <3>1, AskedGrows DEF Asked, LoaderInv, TypeOK
    <3>3. captured'[l] = Asked(l)' \cap snapshot
      <4>1. captured[l] = Asked(l) \cap snapshot
        BY <1>4 DEF LoaderInv, Served
      <4>2. captured'[l] = IF file \in snapshot THEN captured[l] \cup {file} ELSE captured[l]
        BY <1>2
      <4>. QED  BY <3>2, <4>1, <4>2
    <3>. QED  BY <1>1, <1>4, <2>1, <3>1, <3>3 DEF Served
  <2>2. CASE /\ step' = [step EXCEPT ![l] = "leaving"]
             /\ outcome' = [outcome EXCEPT ![l] = "raised"]
             /\ UNCHANGED next
    BY <1>2, <2>2 DEF LoaderInv, TypeOK, Served
  <2>. QED  BY <1>3, <2>1, <2>2
<1>. QED  BY <1>5, <1>6, <1>7, <1>8, <1>9 DEF LoaderInv

LEMMA ReturnKeepsInv ==
  ASSUME ~Overlap, LoaderInv, NEW l \in Loaders, ReturnFromSaeLens(l)
  PROVE  LoaderInv'
<1>1. TypeOK'
  BY DEF LoaderInv, TypeOK, ReturnFromSaeLens, Goto, Steps
<1>2. OneLoad'
  BY DEF LoaderInv, TypeOK, OneLoad, ReturnFromSaeLens, Goto, Steps
<1>3. Patched'
  BY DEF LoaderInv, TypeOK, OneLoad, Patched, ReturnFromSaeLens, Goto, Steps
<1>4. \A k \in Loaders : Served(k)'
  BY LoaderConstants DEF LoaderInv, TypeOK, Served, Asked, ReturnFromSaeLens, Goto, Steps
<1>. QED  BY <1>1, <1>2, <1>3, <1>4 DEF LoaderInv

\* The last to leave puts the genuine function back.
LEMMA RestoreKeepsInv ==
  ASSUME ~Overlap, LoaderInv, NEW l \in Loaders, Restore(l)
  PROVE  LoaderInv'
<1>1. TypeOK'
  BY DEF LoaderInv, TypeOK, Restore, Leave, Goto, Steps
<1>2. OneLoad'
  BY DEF LoaderInv, TypeOK, OneLoad, Restore, Leave, Goto, Steps
<1>3. Patched'
  BY DEF LoaderInv, TypeOK, OneLoad, Patched, Restore, Leave, Goto, Steps
<1>4. \A k \in Loaders : Served(k)'
  BY DEF LoaderInv, TypeOK, Served, Asked, Restore, Leave, Goto, Steps
<1>. QED  BY <1>1, <1>2, <1>3, <1>4 DEF LoaderInv

\* Why serial loads are safe (_capture_sae_download_paths and its finally): the
\* strengthened invariant holds of every reachable state.
THEOREM LoaderInvariant ==
  ASSUME ~Overlap
  PROVE  Spec => []LoaderInv
<1>1. ASSUME LoaderInv, [Next]_vars
      PROVE  LoaderInv'
  <2>1. CASE UNCHANGED vars
    BY <1>1, <2>1 DEF vars, LoaderInv, TypeOK, OneLoad, Patched, Served, Asked
  <2>2. ASSUME NEW l \in Loaders,
               Enter(l) \/ Save(l) \/ Install(l) \/ Ask(l) \/ ReturnFromSaeLens(l) \/ Restore(l)
        PROVE  LoaderInv'
    BY <1>1, <2>2, EnterKeepsInv, SaveKeepsInv, InstallKeepsInv, AskKeepsInv,
       ReturnKeepsInv, RestoreKeepsInv
  <2>. QED  BY <1>1, <2>1, <2>2 DEF Next
<1>. QED  BY <1>1, InitEstablishesInv, PTL DEF Spec

\* _restore_sae_download_paths: whatever was loaded, raised or refused, between loads
\* the process has the genuine hf_hub_download.
THEOREM SerialLoadsRestore ==
  ASSUME ~Overlap
  PROVE  Spec => []RestoredBetweenLoads
<1>1. LoaderInv => RestoredBetweenLoads
  BY DEF LoaderInv, Patched, RestoredBetweenLoads
<1>. QED  BY <1>1, LoaderInvariant, PTL

\* "network_resolution_attempted": False is true of every load that succeeds.
THEOREM SerialProvenanceIsTrue ==
  ASSUME ~Overlap
  PROVE  Spec => []ProvenanceIsTrue
<1>1. LoaderInv => ProvenanceIsTrue
  BY LoaderConstants DEF LoaderInv, Served, ProvenanceIsTrue
<1>. QED  BY <1>1, LoaderInvariant, PTL

\* resolved_files: the files the validators approve are all and only what this load
\* asked for and was served.
THEOREM SerialFilesAreItsOwn ==
  ASSUME ~Overlap
  PROVE  Spec => []ValidatedFilesAreItsOwn
<1>1. ASSUME LoaderInv, NEW l \in Loaders, outcome[l] = "loaded"
      PROVE  served[l] = {l} /\ captured[l] = File \cap snapshot
  <2>1. next[l] = Len(Requests) + 1 /\ Len(Requests) \in Nat /\ Len(Requests) > 0
    BY <1>1, LoaderConstants DEF LoaderInv, Served
  <2>2. served[l] = {l} /\ captured[l] = Asked(l) \cap snapshot
    BY <1>1, <2>1 DEF LoaderInv, Served
  <2>3. Asked(l) = File
    BY <2>1, LoaderConstants DEF Asked, File
  <2>. QED  BY <2>2, <2>3
<1>2. LoaderInv => ValidatedFilesAreItsOwn
  BY <1>1 DEF ValidatedFilesAreItsOwn
<1>. QED  BY <1>2, LoaderInvariant, PTL

===============================================================================
