--------------------------- MODULE MCRoleCatalogue ---------------------------
(* An instance of RoleCatalogue: v1 comes with the product, v2 is newer. *)
EXTENDS RoleCatalogue

CONSTANTS v1, v2, path, level, repo, port

Doc(needs, settings) == [needs |-> needs, settings |-> settings]

MCDocs == {Doc({}, {path}), Doc({repo}, {path, level}), Doc({repo, port}, {path, level})}
MCFiles == [v \in {v1, v2} |-> IF v = v1 THEN Doc({}, {path}) ELSE None]
=============================================================================
