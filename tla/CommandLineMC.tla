--------------------------- MODULE CommandLineMC ---------------------------
(* A write, a blob and an export whose package is asked for under the same  *)
(* name; either may be asked for under a name of SQLite's, and the package  *)
(* under that of its descriptor.                                            *)
EXTENDS CommandLine
CONSTANTS write, blob, export, bundle, descriptor, sidecar, here, there

MCCommand == [c \in Calls |-> CASE c = write -> "write" [] c = blob -> "read-blob" [] c = export -> "export"]
MCChoices == [c \in Calls |-> CASE c = write -> {<<>>}
                                [] c = blob -> {<<bundle>>, <<sidecar>>}
                                [] c = export -> {<<bundle, descriptor>>, <<bundle, bundle>>}]
MCDirectory == [n \in Names |-> IF n = bundle THEN here ELSE there]
=============================================================================
