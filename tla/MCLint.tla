------------------------------- MODULE MCLint -------------------------------
(***************************************************************************)
(* Files of up to three pieces under three paths: a recipe and a layer     *)
(* configuration of a complete layer, and a file outside every layer, on   *)
(* which the suppressions and the fixes are tried.                         *)
(***************************************************************************)
EXTENDS Lint

q == "\""

Piece(lines, faults, needs, gives, repeats) ==
  [lines |-> lines, faults |-> faults, needs |-> needs, gives |-> gives, repeats |-> repeats]

Fault(lines, faults) == Piece(lines, faults, {}, {}, {})

Assign(name, value) == name \o <<" ", "=", " ", q>> \o value \o <<q>>

Never(rule, when) == <<rule, "never", when>>

RecipePieces == {
  Piece(<<Assign(<<"SUMMARY">>, <<"a", " ", "b">>)>>,
        {<<1, "BBT003">>}, {}, {"SUMMARY"}, {<<"BBT016", "SUMMARY">>}),
  Piece(<<Assign(<<"LICENSE">>, <<"MIT">>) \o <<" ">>>>,
        {<<1, "BBT001">>}, {<<"BBT022", "checksum", "always">>}, {"LICENSE"},
        {<<"BBT016", "LICENSE">>}),
  Piece(<<Assign(<<"LIC_FILES_CHKSUM">>, <<"file", ":", "/", "/", "x", ";", "md5", "=", "<32>">>)>>,
        {}, {}, {"checksum"}, {<<"BBT016", "LIC_FILES_CHKSUM">>}),
  Piece(<<Assign(<<"PN">>, <<"other">>), Assign(<<"PV", ":", "arm">>, <<"9">>)>>,
        {<<1, "BBT020">>}, {}, {}, {<<"BBT016", "PN">>}),
  Fault(<<Assign(<<"SRC_URI", ":", "append">>,
                 <<"git", ":", "/", "/", "x", ";", "branch", "=", "m">>),
          Assign(<<"SRC_URI", ":", "append">>,
                 <<"$", "{", "@", "f", "(", "'", "x", "'", " ", "git", ":", "/", "/", "y", ")", "}", " ",
                   "https", ":", "/", "/", "x", ";", "md5sum", "=", "<64>", ";", "a", "=", "1", ";",
                   "a", "=", "2">>)>>,
        {<<1, "BBT015">>, <<2, "BBT023">>, <<2, "BBT028">>}),
  Fault(<<Assign(<<"FILESEXTRAPATHS", ":", "prepend">>, <<"x">>),
          <<"SRCREV", " ", "?", "=", " ", q, "$", "{", "AUTOREV", "}", q>>>>,
        {<<1, "BBT014">>, <<2, "BBT004">>}),
  Piece(<<<<"inherit", " ", "c", " ", "$", "{", "@", "f", "(", " ", "lost", " ", "c", ")", "}",
            " ", "\\">>, <<" ", "lost", " ", "#", "c">>>>,
        {<<2, "BBT007">>}, {}, {}, {<<"BBT005", "c">>, <<"BBT005", "lost">>}),
  Piece(<<<<"require", " ", "gone", " ", "two", " ", "loop">>, <<"include", " ", "#", "c">>,
          <<"require", " ", "$", "{", "PN", "}", "inc">>>>,
        {<<1, "BBT006">>, <<1, "BBT008">>, <<1, "BBT010">>, <<2, "BBT018">>}, {},
        {"DESCRIPTION", "f"}, {}),
  Piece(<<<<"PACKAGECONFIG", " ", "?", "=", " ", q, "f", " ", "g", q>>,
          <<"PACKAGECONFIG", "[", "g", "]", " ", "?", "=", " ", q, ",", ",", ",", ",", ",", ",", q>>>>,
        {<<2, "BBT025">>}, {<<"BBT024", "f", "always">>}, {}, {}),
  Piece(<<Assign(<<"PACKAGES">>, <<"p">>)>>,
        {}, {}, {"PACKAGES"}, {<<"BBT016", "PACKAGES">>, <<"BBT027", "p">>}),
  Piece(<<Assign(<<"FILES", ":", "q">>, <<"x">>), Assign(<<"RDEPENDS", ":", "q", "-", "d">>, <<"x">>),
          Assign(<<"PACKAGES_DYNAMIC", ":", "arm">>, <<"^", "q", "-", ".", "*">>)>>,
        {}, {Never("BBT026", "PACKAGES"), Never("BBT037", "OVERRIDES")}, {}, {}),
  Piece(<<Assign(<<"OVERRIDES">>, <<"arm", ":", "mips">>)>>,
        {}, {}, {"OVERRIDES"}, {<<"BBT016", "OVERRIDES">>}),
  Piece(<<<<"do_x", "(", ")", " ", "{">>, <<" ", "if", " ", "a", ";", " ", "then">>, <<" ", "done">>,
          <<"}">>, <<"def", " ", "g", "(", "a", ")", ":">>, <<" ", "return", " ", "a", "]">>>>,
        {<<3, "BBT034">>, <<6, "BBT035">>}, {}, {}, {<<"BBT017", "do_x">>})}

LayerPieces == {
  Piece(<<<<"BBFILE_COLLECTIONS", " ", "+", "=", " ", q, "core", q>>>>, {},
        {<<"BBT030", "pattern", "always">>, <<"BBT031", "priority", "always">>,
         <<"BBT033", "compat", "always">>},
        {"collections"}, {<<"BBT029", "core">>}),
  Piece(<<<<"BBFILE_PATTERN_", "core", " ", ":", "=", " ", q, "^", q>>>>, {}, {},
        {"pattern"}, {<<"BBT016", "pattern">>}),
  Piece(<<<<"BBFILE_PRIORITY_", "core", " ", "=", " ", "-", "5", " ", "#", "c">>>>, {}, {},
        {"priority"}, {<<"BBT016", "priority">>}),
  Piece(<<<<"LAYERSERIES_COMPAT_", "core", " ", "?", "=", " ", q, q>>,
          <<"LAYERDEPENDS_", "core", " ", "+", "=", " ", q, "core", " ", "gone", " ", "(", "x", ")", q>>>>,
        {}, {Never("BBT033", "collections"), Never("BBT032", "collections")}, {}, {}),
  Fault(<<<<"INHERIT", " ", "+", "=", " ", q, "lost", " ", "c", " ", "two", q>>,
          <<"INHERIT", ":", "remove", " ", "+", "=", " ", q, "lost", q>>>>,
        {<<1, "BBT007">>, <<1, "BBT009">>})}

Suppress(command, rule) ==
  <<"#", " ", "bbtidy", ":", " ">> \o command \o <<"[", rule, "]", " ", "-", "-", " ", "r">>

LoosePieces == {
  Fault(<<<<"A", " ", "?", "=", " ", q, "x", q, " ", "\t">>>>, {<<1, "BBT001">>}),
  Fault(<<<<"B", " ", "?", "=", " ", q, "x", q, " ">> \o Suppress(<<"ignore">>, "BBT001") \o <<" ">>>>,
        {<<1, "BBT001">>}),
  Fault(<<Suppress(<<"ignore", "-", "next", "-", "line">>, "BBT004")>>, {}),
  Fault(<<Suppress(<<"ignore", "-", "next", "-", "line">>, "BBT001") \o <<" ">>>>, {<<1, "BBT001">>}),
  Piece(<<Assign(<<"SRCREV">>, <<"$", "{", "AUTOREV", "}">>)>>, {<<1, "BBT004">>}, {}, {},
        {<<"BBT016", "SRCREV">>}),
  Fault(<<Suppress(<<"disable", "-", "file">>, "BBT016")>>, {}),
  Fault(<<<<"#", " ", "bbtidy", ":", " ", "ignore", "[", "BBT001", "]", " ">>,
          Suppress(<<"ignore">>, "BBT038")>>, {<<1, "BBT001">>}),
  Piece(<<<<"do_x", "(", ")", "{">>, <<"cat", "<", "<", "E">>, <<"E", " ">>, <<"'">>, <<"E">>, <<"}">>>>,
        {<<3, "BBT001">>}, {}, {}, {<<"BBT017", "do_x">>}),
  Fault(<<<<"D", "?", "=", q, "x", " ", "\\", " ">>, <<" ", "y", q>>>>, {<<1, "BBT001">>}),
  Fault(<<<<"F", "=", q, "x">>>>, {}),
  Fault(<<<<"inherit", " ">> \o Suppress(<<"ignore">>, "BBT018")>>, {<<1, "BBT018">>})}

MCPieces == [recipe |-> RecipePieces, layer |-> LayerPieces, loose |-> LoosePieces]

Path(recipe, layer, inLayer, contexts, needs) ==
  [recipe |-> recipe, layer |-> layer, indexed |-> inLayer, complete |-> inLayer,
   contexts |-> contexts, name |-> <<"app">>, version |-> <<"1">>, needs |-> needs]

MCPaths == [
  recipe |-> Path(TRUE, FALSE, TRUE, <<"Recipe">>,
                  {<<"BBT011", "SUMMARY", "always">>, <<"BBT012", "DESCRIPTION", "always">>,
                   <<"BBT013", "LICENSE", "always">>}),
  layer  |-> Path(FALSE, TRUE, TRUE, <<"Global">>, {<<"BBT029", "collections", "always">>}),
  loose  |-> Path(FALSE, FALSE, FALSE, <<"Recipe", "Global">>, {})]

Candidate(file, rank) == [file |-> file, rank |-> rank]

MCWorkspace == [
  files   |-> (<<"two">> :> <<Candidate("two.a", 1), Candidate("two.b", 1)>>)
           @@ (<<"loop">> :> <<Candidate("loop", 1), Candidate("gone.b", 0)>>)
           @@ (<<"app", "inc">> :> <<Candidate("app.inc", 1)>>)
           @@ (<<"more">> :> <<Candidate("more", 1)>>),
  classes |-> [Recipe |-> <<"c">> :> <<Candidate("c", 1), Candidate("c.b", 0)>>,
               Global |-> (<<"c">> :> <<Candidate("c", 1)>>)
                       @@ (<<"two">> :> <<Candidate("two.a", 1), Candidate("two.b", 1)>>)],
  leadsBack |-> {<<"loop", "Recipe">>, <<"two.b", "Recipe">>},
  sources |-> ("app.inc" :> [assigns  |-> {<<"DESCRIPTION">>},
                             includes |-> {[target |-> <<"more">>, all |-> FALSE]}])
           @@ ("more" :> [assigns  |-> {<<"PACKAGECONFIG", "[", "f", "]">>},
                          includes |-> {[target |-> <<"app", "inc">>, all |-> TRUE]}]),
  collections |-> {<<"core">>}]

Setting(profile, failOn, fix, show, final) ==
  [profile |-> profile, enable |-> {}, disable |-> {}, severity |-> <<>>,
   failOn |-> failOn, fix |-> fix, show |-> show, final |-> final]

StrictSetting == Setting("Strict", "warning", TRUE, FALSE, FALSE)

RaisedSetting ==
  [Setting("Recommended", "error", TRUE, FALSE, TRUE)
     EXCEPT !.enable = {"BBT016"}, !.severity = "BBT004" :> "error" @@ "BBT016" :> "info"]

ShownSetting == [Setting("Essential", "never", FALSE, TRUE, TRUE) EXCEPT !.disable = {"BBT001"}]

ContradictorySetting ==
  [Setting("Strict", "info", FALSE, FALSE, TRUE)
     EXCEPT !.enable = {"BBT001"}, !.disable = {"BBT001"}]

MCSettings == [
  recipe |-> {StrictSetting},
  layer  |-> {StrictSetting, RaisedSetting},
  loose  |-> {StrictSetting, RaisedSetting, ShownSetting, ContradictorySetting}]

=============================================================================
