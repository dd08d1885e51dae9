----------------------------- MODULE MCLocalize -----------------------------
(* A site with a building, a lit scene, and what each may have wrong.         *)
EXTENDS Localize, TLC

F(is, type, refs) == [is |-> is, type |-> type, refs |-> refs]
Model(is) == F(is, "model", <<>>)
R(kind, path) == [kind |-> kind, path |-> path, was |-> path]

MCName == STRING
MCClassOf == "LuxPreset" :> <<"lux", "preset.gd">>
\* path="res://C:/, path="C:/, and a share of another machine, which no pattern knows.
MCDrives == {"C:", "bare C:", "//host"}
MCListed == {"C:", "bare C:"}
MCQuoted == {"bare C:"}
MCWalkScenes == {"site_walk.tscn"}
MCLayers == {"site_dressing.tscn"}
MCSkinReads == {"door.glb"}
MCHashed(name, is) == name \o "." \o is

\* Two shells of one name, a scene that names the second, a base of a taken name.
MCDisk ==
    (<<"C:", "a", "shell.glb">> :> Model("shellA"))
    @@ (<<"C:", "b", "shell.glb">> :> Model("shellB"))
    @@ (<<"C:", "a", "part.tscn">> :> F("part", "scene", <<Res(<<"C:", "b", "shell.glb">>)>>))
    @@ (<<"C:", "a", "site_base.glb">> :> Model("baseDisk"))
    @@ (<<"bare C:", "a", "shell.glb">> :> Model("shellA"))
    @@ (<<"//host", "shell.glb">> :> Model("shellB"))

\* The scripts of a tool: one that names another by its class and may name a directory.
Lux(root, day, night) ==
    (<<"lux", "root.gd">> :> F("root", "script", <<R("class", <<"LuxPreset">>)>> \o root))
    @@ (<<"lux", "preset.gd">> :> F("preset", "script", <<Res(<<"addons", "lux", "util.gd">>)>>))
    @@ (<<"lux", "util.gd">> :> F("util", "script", <<>>))
    @@ (<<"lux", "presets", "day.tres">> :> F("day", "scene", day))
    @@ (<<"lux", "presets", "night.tres">> :> F("night", "scene", night))

PresetRef == <<Res(<<"addons", "lux", "preset.gd">>)>>
DirRef == <<Res(<<"addons", "lux", "presets">>)>>

Nothing == <<>>
Site(refs) == <<"site.tscn">> :> F("site", "scene", refs)
Lights(refs) == Lit :> F("lit", "scene", refs)
Walk == (<<"site_walk.tscn">> :> F("walk", "scene", <<R("rel", <<"lot_site_walk.gd">>), Res(<<"lot_player.gd">>)>>))
        @@ (<<"lot_site_walk.gd">> :> F("setup", "script", <<>>))
        @@ (<<"lot_player.gd">> :> F("player", "script", <<>>))
Qa == (<<"site_navqa.tscn">> :> F("navqa", "scene", <<Res(<<"lot_navqa_setup.gd">>)>>))
      @@ (<<"lot_navqa_setup.gd">> :> F("qa", "script", <<Res(<<"addons", "nav", "director.gd">>)>>))
Shared == <<"shared.tscn">> :> F("shared", "scene",
    <<Res(<<"bare C:", "a", "shell.glb">>), Res(<<"//host", "shell.glb">>)>>)
Garbled == <<"garbled.tscn">> :> F("garbled", "opaque", <<Res(<<"C:", "a", "shell.glb">>)>>)
Unparsed == <<"unparsed.json">> :> F("unparsed", "opaque", <<R("text", <<"bare C:", "gone.glb">>)>>)
Played == <<"play.json">> :> F("play", "data", <<R("text", <<"bare C:", "gone.glb">>)>>)

\* A building staged as a root of its own.
Building(extra) ==
    (<<"lot", "b", "site.tscn">> :> F("building", "scene",
        <<Res(<<"site_base.glb">>), Res(<<"art", "zoo", "wall.glb">>), Res(<<"art", "zoo", "door.glb">>)>> \o extra))
    @@ (<<"lot", "b", "site_base.glb">> :> Model("baseB"))
    @@ (<<"lot", "b", "art", "zoo", "wall.glb">> :> Model("wallB"))
    @@ (<<"lot", "b", "art", "zoo", "door.glb">> :> Model("doorB"))
Skin == <<"lot", "b", "skin.gd">> :> F("skin", "script", <<Res(<<"lot", "b", "art", "zoo", "wall.glb">>)>>)
RootBase == <<"site_base.glb">> :> Model("baseSite")
RootArt == <<"art", "zoo", "door.glb">> :> Model("doorSite")

A(name) == Res(<<"C:", "a", name>>)
Plain == Site(<<>>)
TwoShells == Site(<<A("shell.glb"), Res(<<"C:", "b", "shell.glb">>)>>)
Parts == Site(<<A("part.tscn"), A("shell.glb"), A("site_base.glb")>>)
Stands == Site(<<R("rel", <<"lot", "b", "site.tscn">>), Res(<<"C:", "gone.glb">>)>>)
Bare == Lights(<<Res(<<"addons", "lux", "root.gd">>), Res(<<"shell.glb">>)>>)
Whole == Lights(<<Res(<<"site.tscn">>), Res(<<"addons", "lux", "root.gd">>)>>)
Dressed == Walk @@ (<<"site_dressing.tscn">> :> F("dressing", "scene", <<Res(<<"lot_player.gd">>)>>))
Staged == Building(<<>>) @@ RootBase
Homonyms == Building(<<A("shell.glb")>>) @@ RootBase @@ RootArt
Skinned == Building(<<Res(<<"addons", "lux", "util.gd">>)>>) @@ RootBase @@ Skin

Input(pkg, tools, broken, strip, godot) ==
    [package |-> pkg, disk |-> MCDisk, addons |-> tools, unreadable |-> broken,
     strip |-> strip, godot |-> godot]

\* What is repaired, by every tool and by none, with and without an engine.
Repairs ==
    {Input(site @@ lamp @@ lot, tools, {}, TRUE, godot) :
        site \in {Plain, TwoShells, Parts, Stands}, lamp \in {Nothing, Bare, Whole},
        lot \in {Nothing, Homonyms}, tools \in {<<>>, Lux(DirRef, PresetRef, <<>>)}, godot \in BOOLEAN}
    \cup {Input(site @@ lot, tools, {}, TRUE, TRUE) :
        site \in {Plain, Parts}, lot \in {Staged, Skinned}, tools \in {<<>>, Lux(DirRef, PresetRef, <<>>)}}

\* What is stripped, whether or not that was asked for.
Strips ==
    {Input(site @@ other, tools, {}, strip, FALSE) :
        site \in {Nothing, Plain, TwoShells}, other \in {Dressed, Walk @@ Qa @@ Played},
        tools \in {<<>>, Lux(DirRef, PresetRef, <<>>)}, strip \in BOOLEAN}

\* A file that cannot be read, and a directory whose files name it.
Failures ==
    {Input(site @@ lamp, tools, broken, TRUE, FALSE) :
        site \in {TwoShells, Parts}, lamp \in {Bare, Whole},
        tools \in {Lux(DirRef, PresetRef, <<>>), Lux(DirRef, DirRef, DirRef), Lux(<<>>, PresetRef, <<>>)},
        broken \in {{}, {<<"lux", "presets", "day.tres">>}, {<<"lux", "util.gd">>, <<"C:", "b", "shell.glb">>}}}

\* What the fixer has no pattern for, cannot decode or fails to copy.
Foreign ==
    {Input(site @@ other @@ lot, tools, broken, TRUE, FALSE) :
        site \in {Plain, TwoShells}, other \in {Shared, Garbled, Unparsed}, lot \in {Nothing, Homonyms},
        tools \in {<<>>, Lux(DirRef, PresetRef, <<>>)},
        broken \in {{}, {<<"C:", "a", "shell.glb">>}, {<<"bare C:", "a", "shell.glb">>}}}
    \cup {Input(Plain @@ Bare, (<<"lux", "preset.gd">> :> F("preset", "opaque", <<>>))
                               @@ Lux(DirRef, PresetRef, <<>>), {}, TRUE, FALSE),
          Input(Plain @@ Staged @@ (<<"names.cfg">> :> F("names", "opaque", <<R("text", <<"wall.glb">>)>>)),
                <<>>, {}, TRUE, TRUE)}

MCInputs == Repairs \cup Strips \cup Failures \cup Foreign
=============================================================================
