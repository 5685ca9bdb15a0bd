------------------------------ MODULE MCCoding ------------------------------
EXTENDS Coding

\* The corrupt inputs: the largest five-byte strings a uint32 decoder takes,
\* a five-byte string whose last byte carries bits 32..34, and six bytes.
MCCorrupt == {<<255, 255, 255, 255, 15>>, <<128, 128, 128, 128, 16>>,
              <<255, 255, 255, 255, 127>>, <<128, 128, 128, 128, 128, 1>>}
MCNoCorrupt == {<<>>}
=============================================================================
