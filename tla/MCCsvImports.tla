---------------------------- MODULE MCCsvImports ----------------------------
(* A small instance of CsvImports: one file whose lines part ways in the
   worker and one with a quoted line break. *)
EXTENDS CsvImports, TLC

CONSTANTS u1, u2, u3

MCUploads == {u1, u2, u3}
MCBodies == {<<"valid", "long">>, <<"valid", "split">>}
MCJobs == MCUploads \cup (MCUploads \X {1, 2})
=============================================================================
