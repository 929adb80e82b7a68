------------------------------ MODULE MCReaders ------------------------------
(***************************************************************************)
(* Small values for Readers.  Balances and signatures are read as none, as *)
(* enough and as more; the traces are all that are short and some that are *)
(* cut and subsampled; the captures differ from a usual one in two         *)
(* neighbouring fields; an account is laid out in cells to the base four.  *)
(***************************************************************************)
EXTENDS Readers, Sequences

CONSTANTS r1, r2, w1, w2, n1, n2

\* A curve that turns back twice.
MCCurve == <<0, 2, 5, 3, 5, 1>>
MCAnchors == <<0, 4, 2>>
MCWindows == <<1, 2>>
MCOutlines ==
  UNION {[1 .. n -> {0, 2, 5, Junk}] : n \in 1 .. 4}
    \cup {s \in [1 .. 6 -> {0, 5, Junk}] : s[1] = 0 /\ s[5] # s[6]}

Usual ==
  [reset |-> 0, features |-> <<1>>, evidence |-> <<>>, f0 |-> <<>>, accel |-> <<>>,
   audio |-> <<>>, rate |-> <<>>, signals |-> <<>>, study |-> <<>>, timing |-> 0]

Option(S) == {<<>>} \cup {<<x>> : x \in S}
Vectors == Option({<<>>, <<0>>, <<1>>, <<NegativeZero>>})
Strings == Option({<<>>, <<1>>})
Bit == {0, 1}

MCRequests ==
  {[Usual EXCEPT !.f0 = f, !.accel = a] : f \in Vectors, a \in Vectors}
    \cup {[Usual EXCEPT !.audio = a, !.rate = r] : a \in Strings, r \in Option(Bit)}
    \cup {[Usual EXCEPT !.features = f, !.evidence = e] :
             f \in {<<>>, <<1, 1>>, <<NonFinite>>},
             e \in Option([projection : {1}, schema : Bit,
                           features : {<<>>, <<0>>, <<NegativeZero>>}])}
    \cup {[Usual EXCEPT !.reset = b, !.timing = t] : b \in Bit, t \in Bit}
    \cup {[Usual EXCEPT !.signals = <<[v |-> 1, env |-> e, automation |-> a, capture |-> <<>>]>>] :
             e \in Strings,
             a \in Option([webdriver : {0}, tells : {<<>>, << <<1>> >>, << <<>>, <<>> >>}])}
    \cup {[Usual EXCEPT !.signals = <<[v |-> 1, env |-> <<>>, automation |-> a, capture |-> c]>>] :
             a \in Option([webdriver : {1}, tells : {<<>>}]),
             c \in Option([virtual : Bit, flatness : Option({1}),
                           centroid : Option({0, NegativeZero})])}
    \cup {[Usual EXCEPT !.study =
              <<[token |-> t, record |-> r, class |-> 0, schema |-> 1, projection |-> 2]>>] :
             t \in {<<>>, <<1>>, <<1, 1>>}, r \in {<<>>, <<1>>}}

MCTag == <<2, 1>>
MCIdentities == [verified : {-1, 5}, trust : {0, 3}, recent : [1 .. 2 -> {-1, 0, 1, 7}]]
MCCredentials ==
  [name : {<<>>, <<0>>, <<2, 1>>}, signers : UNION {[1 .. n -> {<<0>>, <<1>>, <<2>>}] : n \in 0 .. 3}]
==============================================================================
