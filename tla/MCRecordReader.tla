---------------------------- MODULE MCRecordReader ----------------------------
(* Small files for RecordReader.                                           *)
EXTENDS RecordReader

\* A batch with header and trailer, details around a comment, an empty line.
SmallFiles == {<<"header", "detail", "trailer">>,
               <<"detail", "comment", "detail">>,
               <<"detail", "empty", "gtrail">>,
               <<"ghead", "detail", "detail">>}
=============================================================================
