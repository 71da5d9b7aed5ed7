------------------------- MODULE MCProvenanceVerifier -------------------------
(***************************************************************************)
(* The shape of provenance/source_import.json: a seed (the application), a *)
(* canonical mirror (a schema module, the inventory, the runner and the    *)
(* vectors) and a runtime mirror of one function.  As in that manifest,    *)
(* the inventory has a source commit of its own, and the schema is on the  *)
(* surface that the inventory lists.                                       *)
(***************************************************************************)
EXTENDS ProvenanceVerifier

MCNames == {"hook"}
MCSegments == {"body", "changed body"}
Sources == {"src/app", "src/schema", "src/inventory", "src/runner", "src/vectors", "src/hooks"}
Here == {"app", "schema", "inventory", "runner", "vectors", "hooks", "new"}
MCPaths == Sources \cup Here

\* "stub" is a module without the function, "{" neither Python nor JSON; an inventory
\* without the surface, and a schema that does not conform.
MCContents ==
  {"app", "app 2", "schema", "schema 2", "inventory", "empty inventory", "runner", "vectors", "hooks",
   "hooks and more", "hooks 2", "stub", "{"}
MCSegment ==
  [c \in MCContents |-> [n \in MCNames |->
     CASE c \in {"hooks", "hooks and more"} -> "body" [] c = "hooks 2" -> "changed body" [] OTHER -> None]]
MCBroken == {"{"}

\* The pack was frozen at "c1", and the inventory stamped at "c2".
MCCommits == {"c1", "c2"}
MCOwnCommits == {"own"}
MCBlob ==
  [k \in MCCommits \cup MCOwnCommits |-> [p \in MCPaths |->
     CASE k = "own" -> IF p \in {"app", "schema"} THEN p ELSE None
       [] p = "src/app" -> "app"          [] p = "src/schema" -> "schema"
       [] p = "src/runner" -> "runner"    [] p = "src/vectors" -> "vectors"
       [] p = "src/hooks" -> "hooks"
       [] p = "src/inventory" -> IF k = "c2" THEN "inventory" ELSE "empty inventory"
       [] OTHER -> None]]
MCSurface == [c \in MCContents |-> IF c = "inventory" THEN {"src/schema"} ELSE {}]
MCListed == [c \in MCContents |-> IF c = "vectors" THEN {"resolve", "publish"} ELSE {}]
MCConforming == {"runner"} \X {"resolve", "publish"} \X {"schema"}
                  \cup {<<"runner", "resolve", "schema 2">>}

File(to, hash) == [source |-> "src/" \o to, dest |-> to, name |-> None, commit |-> None, hash |-> hash]
App == File("app", "app")
Schema == File("schema", "schema")
Inventories == [File("inventory", "inventory") EXCEPT !.commit = "c2"]
Hook == [File("hooks", "body") EXCEPT !.name = "hook"]

Seed(entries) ==
  [class |-> "HISTORICAL_SEED", commit |-> "own", entries |-> entries, roots |-> {"app", "new"}, scaffolding |-> {}]
Canonical(entries) ==
  [class |-> "CANONICAL_MIRROR", commit |-> "c1", roots |-> {"schema", "inventory", "runner", "vectors"},
   entries |-> entries \cup {Inventories, File("runner", "runner"), File("vectors", "vectors")},
   scaffolding |-> {}]
Runtime(entries, scaffolding) ==
  [class |-> "RUNTIME_CODE_MIRROR", commit |-> "c1", entries |-> entries, roots |-> {"hooks", "new"},
   scaffolding |-> scaffolding]

\* The manifest as it is; the schema moved to the seed; a file declared as scaffolding;
\* the whole module recorded instead of the function; the hash of changed bytes; a class
\* nobody knows.
MCManifests ==
  {<<Seed({App}), Canonical({Schema}), Runtime({Hook}, {})>>,
   <<Seed({App, Schema}), Canonical({}), Runtime({Hook}, {})>>,
   <<Seed({App, Schema}), Canonical({Schema}), Runtime({Hook}, {})>>,
   <<Seed({App}), Canonical({Schema}), Runtime({Hook}, {"new"})>>,
   <<Seed({App}), Canonical({Schema}), Runtime({File("hooks", "hooks")}, {})>>,
   <<Seed({App}), Canonical({[Schema EXCEPT !.hash = "schema 2"]}), Runtime({Hook}, {})>>,
   <<Seed({App}), [Canonical({Schema}) EXCEPT !.class = "unrecognized"]>>}

\* At first the tree is as imported.
MCTrees == {[p \in MCPaths |-> IF p \in {"app", "schema", "inventory", "runner", "vectors", "hooks"}
                                 THEN p ELSE None]}
===============================================================================
