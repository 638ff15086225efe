---------------------------- MODULE MCRecordFile ----------------------------
(* Small instances of RecordFile for TLC.                                  *)
EXTENDS RecordFile

TwoEntries == <<"a", "b">>
ThreeEntries == <<"a", "b", "c">>
OneEntry == <<"a">>

=============================================================================
