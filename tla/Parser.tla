------------------------------- MODULE Parser --------------------------------
(***************************************************************************)
(* The script parser, and how it and its like read values: a behaviour is  *)
(* about texts (Script), or about the reading of one value (Values), of a  *)
(* session that has no calls of the parser.                                *)
(***************************************************************************)
EXTENDS Script, Values

ParserInit ==
  /\ Init
  /\ IF session.calls = {} THEN \E what \in Readings : reading = NewReading(what)
     ELSE reading = NotReading

ParseText == reading.step = "off" /\ Next /\ UNCHANGED reading
ParseValue == reading.step # "off" /\ ReadValue /\ UNCHANGED vars

ParserSpec == ParserInit /\ [][ParseText \/ ParseValue]_<<vars, reading>>
=============================================================================
