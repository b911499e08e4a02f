----------------------------- MODULE MCServices -----------------------------
(***************************************************************************)
(* Values of the constants for the run of Services: playlists in which a    *)
(* channel has several entries, one of them without a URL, and sources that *)
(* give a channel different URLs; sizes and pages a reader may ask for, out  *)
(* of range on both sides; a guide channel with a tvg-id and one without.   *)
(***************************************************************************)
EXTENDS Services

TelefeSD == Extinf("telefe.ar", "AR", "telefe", "SD")
TelefeHD == Extinf("telefe.ar", "AR", "telefe", "HD")
Cine == Extinf("cine", Absent, "cine", "")
Note == Other("comment", Absent)
Url(u) == Other("url", u)

MainList == <<Cine, TelefeSD, Url("sd"), TelefeHD, Note, Url("hd")>>
OtherList == <<TelefeHD, Url("hd2"), Cine, Url("cine"), TelefeSD, Url("sd")>>
MCPlaylists == {MainList, OtherList}
MCStreamOf == [u \in {"sd", "hd", "hd2", "cine"} |->
                  CASE u = "hd" -> "works" [] u = "hd2" -> "down" [] u = "sd" -> "slow"
                    [] OTHER -> "mute"]

MCAskedSizes == {-1, 0, 1, 2, 3, 9}
MCAskedPages == {-1, 0, 1, 2, 9}

MCTvgOf == [c \in GuideChannels |-> IF c = "telefe" THEN "telefe.ar" ELSE "cine"]
MCExternalIdOf == [c \in GuideChannels |-> IF c = "telefe" THEN "AR:telefe" ELSE "cine"]
=============================================================================
