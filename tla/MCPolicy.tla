------------------------------ MODULE MCPolicy ------------------------------
(***************************************************************************)
(* An instance of Policy for TLC.                                          *)
(***************************************************************************)
EXTENDS Policy

MCCommands == {<<>>, <<"cat">>, <<"/", "bin", "/", "cat">>, <<"rm">>, <<"cat", ";">>, <<"/", "cat", "/">>, <<"..">>}
MCArguments == {<<"/", "root">>, <<"srv", "/", "root">>, <<"/", "home", "/", "u", "/", ".ssh">>,
                <<"~", "/", ".ssh">>, <<"/", "tmp">>, <<"/", "..", "/", "root">>, <<"&">>, <<>>}
MCDefaultWhiteList == <<<<"cat">>>>
MCWhiteLists == {MCDefaultWhiteList, <<<<"rm">>, <<"..">>>>}
MCDefaultDenyList == <<<<"/", "root">>, <<"/", ".ssh">>>>
MCDenyLists == {MCDefaultDenyList, <<<<".ssh">>>>, <<<<"~", "/", ".ssh">>>>, <<<<"~">>>>}
MCDirectories == {<<"/", "tmp">>}
MCHomes == {<<"/", "home", "/", "u">>}
=============================================================================
