------------------------------ MODULE MCVersion ------------------------------
(* Model-checking instance of Version.                                     *)
EXTENDS Version

\* Majors 0, 1 and 2: a major step must outweigh any minor, patch, tweak.
MCMajors == {0, 1, 2}

\* Minor, patch and tweak: 0, 1 and the largest two-digit value.
MCComponents == {0, 1, 99}

\* NVCV_VERSION_API definitions: below, inside and above the supported
\* 0.0 .. 0.3, with one to four arguments, and the patch level 0.3.1.
MCApiDefs == {<<0>>, <<1>>, <<1, 0>>, <<0, 3, 0>>, <<0, 3, 1>>, <<0, 1, 0, 0>>}
               \cup {<<0, m>> : m \in 0..4}

=============================================================================
