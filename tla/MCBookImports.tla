---------------------------- MODULE MCBookImports ----------------------------
(* A small instance of BookImports: a folder and an archive with a manifest,  *)
(* and an upload of each kind that is refused; two backups of one project,    *)
(* and one whose database names a file that is missing.                       *)
EXTENDS BookImports

Text(p, n, guess) ==
    [path |-> p, kind |-> "text", plain |-> TRUE, declared |-> 1, size |-> 1, packed |-> 1,
     guess |-> guess, parts |-> n]
Upload(kind, entries) == 
    [kind |-> kind, entries |-> entries, manifest |-> "none", files |-> <<>>, chapters |-> <<>>]

Book    == Upload("folder", <<Text(1, 2, "manuscript")>>)
Folder  == Upload("folder", <<Text(1, 1, "manuscript"), Text(2, 1, "other")>>)
Archive == [Upload("zip", <<Text(2, 1, "manuscript"), Text(1, 1, "manuscript"),
                            [Text(3, 1, "other") EXCEPT !.kind = "directory", !.declared = 0, !.size = 0]>>)
            EXCEPT !.files = [p \in {1} |-> [category |-> "manuscript", selected |-> FALSE]],
                   !.chapters = [c \in {<<2, 1>>} |-> 0]]
Bomb    == Upload("zip", <<[Text(1, 1, "manuscript") EXCEPT !.declared = 2, !.size = 2, !.packed = 0]>>)
Liar    == Upload("zip", <<[Text(1, 1, "manuscript") EXCEPT !.size = 2]>>)
Twice   == Upload("folder", <<Text(1, 1, "manuscript"), Text(1, 1, "other")>>)
Broken  == [Book EXCEPT !.manifest = "broken"]
Huge    == Upload("folder", <<[Text(1, 1, "manuscript") EXCEPT !.size = 3]>>)
SmallUploads == {Book, Folder, Archive, Bomb, Liar, Twice, Broken, Huge}

Backup(h) ==
    [hash |-> h, project |-> "restored", files |-> {"project.db", "project.json", "asset"},
     listed |-> <<{"project.db", "project.json", "asset"}>>, distinct |-> TRUE, integrity |-> TRUE,
     owners |-> {"restored"}, described |-> "restored", assets |-> {"asset"}, sources |-> {},
     work |-> {h, "analyzing"}]
SmallArchives == {Backup("running"), Backup("succeeded"),
                  [Backup("queued") EXCEPT !.files = @ \ {"asset"}, !.listed = None]}
==============================================================================
