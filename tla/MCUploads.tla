------------------------------- MODULE MCUploads -------------------------------
(* A small instance of Uploads for TLC. *)
EXTENDS Uploads

\* A conversation of a mail with a tax form and a picture and of a mail without
\* attachments, and a mail with more files than the server takes.
TheKind == [body |-> "text", picture |-> "other", tax |-> "tax", cover |-> "text",
            form |-> "pdf", bad |-> "broken",
            slip |-> "tax"]
TheFiles == [forms |-> <<"body", "picture", "tax">>, answer |-> <<"cover">>,
             large |-> <<"cover", "form", "form", "form">>]
TheThread == [forms |-> 1, answer |-> 1, large |-> 2]

\* What RecordedOnce in UploadsProofs asks of the mails.
ASSUME FilesDistinct

TheSettings ==
  {\* executions that overlap, and calls that fail
   [overlap |-> 2, workers |-> 1, faults |-> 0, failures |-> 1, loose |-> 0, resends |-> 0],
   \* executions that overlap, and one that dies, or a request does
   [overlap |-> 2, workers |-> 1, faults |-> 1, failures |-> 0, loose |-> 0, resends |-> 0],
   \* deaths and failing calls
   [overlap |-> 1, workers |-> 1, faults |-> 2, failures |-> 1, loose |-> 0, resends |-> 0],
   \* other clients beside the script
   [overlap |-> 1, workers |-> 1, faults |-> 0, failures |-> 1, loose |-> 1, resends |-> 0],
   \* notices sent again, one after the other with a death, and at the same time
   [overlap |-> 1, workers |-> 1, faults |-> 1, failures |-> 1, loose |-> 0, resends |-> 2],
   [overlap |-> 1, workers |-> 2, faults |-> 0, failures |-> 2, loose |-> 0, resends |-> 2]}
=============================================================================
