----------------------------- MODULE MCSstChain -----------------------------
(* Small scenes for checking SstChain. *)
EXTENDS SstChain, TLC

MCPixel    == {1, 2}
MCRefPixel == {1, 2}

\* Missing, cold, warm; bit 1 of cloud_flags is of no concern.
Scene1(lat) == [s8 : {NaN, 1, 4}, s9 : {NaN, 3, 4}, flags : {0, 1, 2}, lat : lat]
MCScenes == {s \in [MCPixel -> Scene1({0, 3}) \cup [s8 : {4}, s9 : {4}, flags : {0}, lat : {NaN}]] :
               s[1].lat \in {0, NaN} /\ s[2].lat = 3}

Reference1(lat) == [sst : {NaN, 3, 6}, quality : {2, 3}, lat : lat]
MCReferences == {r \in [MCRefPixel -> Reference1({-2, 1, 4}) \cup [sst : {4}, quality : {3}, lat : {NaN}]] :
                   r[1].lat = 1 /\ r[2].lat # 1}
=============================================================================
