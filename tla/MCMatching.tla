---------------------------- MODULE MCMatching ----------------------------
(* Instances of Matching for TLC. *)
EXTENDS Matching

MCLetters == {<<"a">>, <<".">>, Star}

\* What a value prints as.
PlainValues == {<<>>, << <<"u">> >>, << <<"v">>, <<"w">> >>}

MCTemplates ==
    {<<>>,
     << <<"t">>, Hole("event"), Hole("summary")>>,
     <<Hole("x"), Hole("name"), Hole("x"), Hole("gone")>>}
=============================================================================
