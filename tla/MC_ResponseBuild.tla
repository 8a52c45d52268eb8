--------------------------- MODULE MC_ResponseBuild ---------------------------
EXTENDS ResponseBuild

\* A compression pointer to offset 12 (the name of the sample response),
\* the root, and names of odd and even length.
MCNames == {<<192, 12>>, <<0>>, <<1, 97, 0>>, <<3, 119, 119, 119, 0>>, <<>>}

\* 300, four distinct bytes, and the high bit set.
MCTtls == {<<0, 0, 1, 44>>, <<1, 2, 3, 4>>, <<255, 0, 0, 128>>}

MCIps == {<<93, 184, 216, 34>>, <<10, 0, 0, 1>>}

\* The start of the sample query, and a question of the sample query.
MCPackets == {<<18, 52, 1, 0, 0, 1, 0, 0>>, <<3, 119, 119, 119, 0, 0, 1, 0, 1>>}
================================================================================
