------------------------------ MODULE MCEncoder ------------------------------
(* Encoder over records that just fit, and just do not, in buffers of two   *)
(* widths of length.                                                        *)
EXTENDS Encoder

Topic(registered, reply, lifecycle) ==
  [url |-> 2, registered |-> registered, reply |-> reply, lifecycle |-> lifecycle]

TheTopics ==
  [pos |-> Topic(TRUE, FALSE, FALSE), mission |-> Topic(TRUE, FALSE, TRUE),
   answer |-> Topic(TRUE, TRUE, FALSE), half |-> Topic(FALSE, TRUE, FALSE)]

ThePuts ==
  {Field("integer", 1, 5), Field("integer", 0, 5), Field("string", 2, 3),
   Field("double", 3, 0), Field("message", 4, 0)}

=============================================================================
