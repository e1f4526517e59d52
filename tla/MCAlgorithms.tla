----------------------------- MODULE MCAlgorithms -----------------------------
(***************************************************************************)
(* The inputs on which TLC checks the algorithms.                          *)
(***************************************************************************)
EXTENDS Algorithms

\* with the GUID, up to the 255 bytes that fit; most around the end of a block
MCKeyLengths == {1, 15, 16, 18, 19, 20, 24, 27, 28, 29, 82, 83, 84, 91, 92, 93,
                 147, 148, 155, 156, 157, 218, 219}

MCFrameLengths == {0, 1, 2, 3, 4, 5, 124, 125, 126, 127, 128, 65534, 65535,
                   65536, 65537, 1048575, 1048576, 1048577}

MCMasks == {<<0, 0, 0, 0>>, <<1, 2, 4, 8>>, <<255, 128, 7, 90>>}

\* in tenths, around none, one, and the most
MCTenths == {-2147483647, -10, -1, 0, 1, 9, 10, 11, 19, 20, 123, 2999, 3000, 3010,
             49989, 49990, 49999, 50000, 50001, 50009, 50010, 10000009, 2147483647}

\* every bound of a range with its neighbours, and the ends of int
MCNumbers == {-2147483647, -5000, -1, 0, 1, 2, 49, 50, 51, 99, 100, 101, 299, 300,
              301, 4095, 4096, 4097, 4999, 5000, 5001, 59999, 60000, 60001, 86399,
              86400, 86401, 999999, 1000000, 1000001, 10000009, 2147483647}
=============================================================================
