------------------------------ MODULE MCConfig ------------------------------
(* LegacyImport on the pairs of ImportCases, and ConfigFile on the files of   *)
(* ConfigCases.                                                               *)
EXTENDS LegacyImport

Cases == INSTANCE ConfigCases
Pairs == INSTANCE ImportCases

MCFiles   == Cases!AllFiles
MCImports == Pairs!AllPairs
=============================================================================
