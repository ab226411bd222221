---------------------------- MODULE MCShortcode ----------------------------
\* Instances of Shortcode for TLC.
EXTENDS Shortcode

\* short_code_xor_key as pkg/config.go sets it: 0xdeadbeefcafebabe.
DefaultKey == <<190, 186, 254, 202, 239, 190, 173, 222>>

\* Blocks from 1 and 1000 on, across 2^16, 2^31, 2^32, 2^47, and up to 2^63.
Edges ==
    << <<1, 0, 0, 0, 0, 0, 0, 0>>,
       <<232, 3, 0, 0, 0, 0, 0, 0>>,
       <<206, 255, 0, 0, 0, 0, 0, 0>>,
       <<206, 255, 255, 127, 0, 0, 0, 0>>,
       <<206, 255, 255, 255, 0, 0, 0, 0>>,
       <<206, 255, 255, 255, 255, 127, 0, 0>>,
       <<156, 255, 255, 255, 255, 255, 255, 127>> >>

\* 14950443 and 17602917, which a service with so many URLs gets to.
FirstPair ==
    << <<43, 32, 228, 0, 0, 0, 0, 0>>, <<101, 153, 12, 1, 0, 0, 0, 0>> >>
============================================================================
