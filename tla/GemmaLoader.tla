------------------------------ MODULE GemmaLoader ------------------------------
(***************************************************************************)
(* extracted_runtime/gemma_loader.py: load_gemma_it_target replaces the    *)
(* process-wide hf_hub_download reference of sae_lens by a resolver of its *)
(* own while sae_lens loads the SAE, and puts back what it found.  It also *)
(* replaces the shape lookup of sae_lens, which it never puts back.        *)
(* _ensure_loaded takes no lock, so two first calls load at once           *)
(* (SteeringBackend reaches that).  Paths are members of a small set;      *)
(* sae_lens is external: a fixed list of requests, in order.               *)
(***************************************************************************)
EXTENDS Naturals, Sequences, FiniteSets

CONSTANTS
  Loaders,      \* the threads that may run load_gemma_it_target
  Overlap,      \* TRUE: their loads may overlap
  Requests,     \* the files sae_lens asks hf_hub_download for, in order
  Lookups,      \* the indexes of those it asks for through its shape lookup
  Optional,     \* those whose absence it tolerates (config.json)
  Real          \* the genuine hf_hub_download, and the network

File == {Requests[i] : i \in DOMAIN Requests}

ASSUME LoaderConstants ==
  /\ Overlap \in BOOLEAN
  /\ Requests \in Seq(File) /\ Requests # <<>> /\ Lookups \subseteq DOMAIN Requests
  /\ Real \notin Loaders

VARIABLES
  snapshot,     \* the files of the ratified SAE under sae_path
  hub,          \* psl.hf_hub_download: Real, or the loader whose local_only it is
  shapes,       \* psl.get_safetensors_tensor_shapes: "genuine", or the "local" one
  step,         \* where each load is
  original,     \* the reference it saved
  next,         \* the index of its next request
  captured,     \* resolved_files: what its own resolver has served, to anyone
  served,       \* who served its requests
  outcome       \* "none", "loaded" or "raised"

vars == <<snapshot, hub, shapes, step, original, next, captured, served, outcome>>

Steps == {"out", "validated", "saved", "inside", "leaving"}

Init ==
  /\ snapshot \in SUBSET File
  /\ hub = Real /\ shapes = "genuine"
  /\ step = [l \in Loaders |-> "out"] /\ original = [l \in Loaders |-> Real]
  /\ next = [l \in Loaders |-> 1]
  /\ captured = [l \in Loaders |-> {}] /\ served = [l \in Loaders |-> {}]
  /\ outcome = [l \in Loaders |-> "none"]

Goto(l, s) == step' = [step EXCEPT ![l] = s]
Leave(l, o) == Goto(l, "out") /\ outcome' = [outcome EXCEPT ![l] = o]

\* The offline flag, the paths, both snapshot identities and the registry id are
\* checked and the model is loaded; nothing of sae_lens is touched yet.
Enter(l) ==
  /\ step[l] = "out"
  /\ Overlap \/ (\A k \in Loaders : step[k] = "out")
  /\ \/ Goto(l, "validated") /\ outcome' = [outcome EXCEPT ![l] = "none"]
     \/ Leave(l, "raised")
  /\ next' = [next EXCEPT ![l] = 1]
  /\ captured' = [captured EXCEPT ![l] = {}] /\ served' = [served EXCEPT ![l] = {}]
  /\ UNCHANGED <<snapshot, hub, shapes, original>>

\* _patch_gemma3_safetensors_shape_lookup, for good, and then
\* _capture_sae_download_paths: `original = psl.hf_hub_download` ...
Save(l) ==
  /\ step[l] = "validated"
  /\ shapes' = "local"
  /\ original' = [original EXCEPT ![l] = hub]
  /\ Goto(l, "saved")
  /\ UNCHANGED <<snapshot, hub, next, captured, served, outcome>>

\* ... and `psl.hf_hub_download = local_only`.
Install(l) ==
  /\ step[l] = "saved"
  /\ hub' = l
  /\ Goto(l, "inside")
  /\ UNCHANGED <<snapshot, shapes, original, next, captured, served, outcome>>

\* Mutant of Recorded: a file is recorded when it is asked for.
RecordedOnAsking(h, file) == h # Real

\* capture.append: local_only records what it finds in the snapshot.
Recorded(h, file) == h # Real /\ file \in snapshot

\* Mutant of ServedBy: what the snapshot lacks is asked of the genuine function.
ServedByFallingBack(h, file) == IF file \in snapshot THEN {h} ELSE {h, Real}

\* local_only never calls the function it replaces.
ServedBy(h, file) == {h}

\* The answer h gives: a file of the snapshot, or an error, which sae_lens can do
\* with if the file is optional; the genuine function answers as it likes.
MayGoOn(h, file) == h = Real \/ file \in snapshot \cup Optional
MayRaise(h, file) == h = Real \/ file \notin snapshot \cup Optional

\* SAE.from_pretrained asks whatever psl.hf_hub_download is now; its own shape lookup,
\* while nobody has replaced it, reads over HTTP and asks nobody.
Ask(l) ==
  LET file == Requests[next[l]]
      asked == IF next[l] \in Lookups /\ shapes = "genuine" THEN Real ELSE hub
  IN  /\ step[l] = "inside" /\ outcome[l] = "none" /\ next[l] <= Len(Requests)
      /\ served' = [served EXCEPT ![l] = @ \cup ServedBy(asked, file)]
      /\ captured' = [k \in Loaders |-> IF k = asked /\ Recorded(asked, file)
                                        THEN captured[k] \cup {file} ELSE captured[k]]
      /\ \/ /\ MayGoOn(asked, file)
            /\ next' = [next EXCEPT ![l] = @ + 1] /\ UNCHANGED <<step, outcome>>
         \/ /\ MayRaise(asked, file)
            /\ Goto(l, "leaving") /\ outcome' = [outcome EXCEPT ![l] = "raised"]
            /\ UNCHANGED next
      /\ UNCHANGED <<snapshot, hub, shapes, original>>

\* from_pretrained returned, or broke over a file it did get.
ReturnFromSaeLens(l) ==
  /\ step[l] = "inside"
  /\ Goto(l, "leaving")
  /\ \/ next[l] > Len(Requests) /\ UNCHANGED outcome
     \/ outcome' = [outcome EXCEPT ![l] = "raised"]
  /\ UNCHANGED <<snapshot, hub, shapes, original, next, captured, served>>

\* Mutant of Restore: no `finally`; a load that broke restores nothing.
RestoreIfLoaded(l) ==
  /\ step[l] = "leaving"
  /\ IF outcome[l] = "none" THEN hub' = original[l] ELSE UNCHANGED hub
  /\ \/ outcome[l] = "none" /\ captured[l] # {} /\ Leave(l, "loaded")
     \/ Leave(l, "raised")
  /\ UNCHANGED <<snapshot, shapes, original, next, captured, served>>

\* `finally: _restore_sae_download_paths(original)`, then the validators over the
\* captured files: zero files, or a file of no ratified place, refuse the load.
Restore(l) ==
  /\ step[l] = "leaving"
  /\ hub' = original[l]
  /\ \/ outcome[l] = "none" /\ captured[l] # {} /\ Leave(l, "loaded")
     \/ Leave(l, "raised")
  /\ UNCHANGED <<snapshot, shapes, original, next, captured, served>>

Next ==
  \E l \in Loaders :
    Enter(l) \/ Save(l) \/ Install(l) \/ Ask(l) \/ ReturnFromSaeLens(l) \/ Restore(l)

Spec == Init /\ [][Next]_vars

-------------------------------------------------------------------------------
TypeOK ==
  /\ snapshot \subseteq File
  /\ hub \in Loaders \cup {Real} /\ shapes \in {"genuine", "local"}
  /\ step \in [Loaders -> Steps] /\ original \in [Loaders -> Loaders \cup {Real}]
  /\ next \in [Loaders -> 1..(Len(Requests) + 1)]
  /\ captured \in [Loaders -> SUBSET File]
  /\ served \in [Loaders -> SUBSET (Loaders \cup {Real})]
  /\ outcome \in [Loaders -> {"none", "loaded", "raised"}]

\* "Caller MUST restore ... whether or not the load succeeded": between loads the
\* process has the genuine hf_hub_download back.  (The shape lookup it has not.)
RestoredBetweenLoads == (\A l \in Loaders : step[l] = "out") => hub = Real

\* "network_resolution_attempted": False, which the provenance of a successful load
\* says unconditionally: none of its requests reached the genuine hf_hub_download, nor
\* the network by the shape lookup.
ProvenanceIsTrue == \A l \in Loaders : outcome[l] = "loaded" => Real \notin served[l]

\* resolved_files: what the validators approve is all that the load was served, and
\* all of it by its own resolver.
ValidatedFilesAreItsOwn ==
  \A l \in Loaders : outcome[l] = "loaded" =>
    served[l] = {l} /\ captured[l] = File \cap snapshot

\* Why serial loads are safe: the reference is the loader's own exactly inside, and
\* what it has captured is what it has asked for and found.
OneLoad == \A l, k \in Loaders : step[l] # "out" /\ step[k] # "out" => l = k
Patched ==
  /\ \A l \in Loaders : step[l] \in {"inside", "leaving"} => hub = l
  /\ \A l \in Loaders : step[l] \in {"saved", "inside", "leaving"} => original[l] = Real /\ shapes = "local"
  /\ (\A l \in Loaders : step[l] \notin {"inside", "leaving"}) => hub = Real
Asked(l) == {Requests[i] : i \in 1..(next[l] - 1)}
Served(l) ==
  /\ served[l] \subseteq {l} /\ (next[l] > 1 => served[l] = {l})
  /\ outcome[l] # "raised" => captured[l] = Asked(l) \cap snapshot
  /\ step[l] \in {"validated", "saved"} => outcome[l] = "none"
  /\ step[l] = "leaving" /\ outcome[l] = "none" => next[l] = Len(Requests) + 1
  /\ step[l] \in {"validated", "saved", "inside", "leaving"} => outcome[l] # "loaded"
  /\ outcome[l] = "loaded" => next[l] = Len(Requests) + 1
LoaderInv == TypeOK /\ OneLoad /\ Patched /\ \A l \in Loaders : Served(l)

===============================================================================
