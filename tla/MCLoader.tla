------------------------------ MODULE MCLoader ------------------------------
(* A kernel of two cells; three cells of .bss lie where the payload is.      *)
EXTENDS Loader

MCKernel == <<7, 8>>
Codes == {<<7>>, <<7, 8, 9>>}
DataLines == {<<97, Newline>>, <<97, 98, Newline>>, <<Newline>>, <<97, 98, 99, 100, Newline>>}
Datas == {<<0>>} \cup {l \o <<0>> : l \in DataLines} \cup {l \o m \o <<0>> : l, m \in DataLines}
MCPacked == {<<c, d>> : c \in Codes, d \in Datas}
MCBss == {24, 25}
MCSizes == {2, 3}
=============================================================================
