----------------------------- MODULE MCAcceptable -----------------------------
(* Acceptable for TLC: the headers with which the values that are preferred are compared *)
(* with those that RFC 2616 has acceptable.                                              *)
EXTENDS Acceptable

Keys == {"Accept", "Accept-Charset", "Accept-Encoding", "Accept-Language", "Te"}
Part == [name : {"*", "en", "en-gb", "iso-8859-1", "identity"}, qs : {<<>>, <<0>>, <<5>>}]
SomeHeaders == [key : Keys, parts : BoundedSeq(Part, 2)]
SomeFamily == [en |-> {"en-gb", "en-us"}]
SomePrefixes == <<"en">>
SomeValues == <<"en", "en-gb", "en-us", "identity", "iso-8859-1", "*">>
=============================================================================
