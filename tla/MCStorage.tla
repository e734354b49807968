----------------------------- MODULE MCStorage -----------------------------
(* Small instances of Storage for TLC. *)
EXTENDS Storage

Build(n, p, d, i, b) == [nvs |-> n, progressive |-> p, duplicate |-> d, inhibit |-> i, big |-> b]

\* EEPROM: two sections with the overwrite inhibited, two sections with progressive
\* import and export of data larger than the buffer, a single section, and data
\* that does not fit the buffer it needs.  Flash: with the overwrite inhibited.
MCBuilds == {Build(FALSE, FALSE, TRUE, TRUE, FALSE), Build(FALSE, TRUE, TRUE, FALSE, TRUE),
             Build(FALSE, FALSE, FALSE, FALSE, FALSE), Build(FALSE, FALSE, TRUE, FALSE, TRUE),
             Build(TRUE, FALSE, FALSE, TRUE, FALSE)}

\* Two sections.
TwoSections == {Build(FALSE, FALSE, TRUE, FALSE, FALSE)}
=============================================================================
