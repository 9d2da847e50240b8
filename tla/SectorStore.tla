----------------------------- MODULE SectorStore -----------------------------
(***************************************************************************)
(* What an Aaru image promises to the program that writes it, without any  *)
(* of the format: a table from sector addresses to contents, of which the  *)
(* file holds the copy made by the last close that succeeded.  A crash     *)
(* loses what was written since that copy and nothing else; an image that  *)
(* was never closed cannot be opened.                                      *)
(***************************************************************************)

CONSTANTS
    Address,    \* The sectors of the medium, negative and overflow included
    Content,    \* What a sector can hold
    Blank,      \* What a sector that was never written holds
    NoImage     \* There is no image a reader could open

VARIABLES
    image,      \* The table the program sees
    durable,    \* The table a reader would find in the file
    session     \* "open" while a writer has the image, then how that ended

storeVars == <<image, durable, session>>

Table == [Address -> Content]

StoreTypeOK ==
    /\ image \in Table \cup {NoImage}
    /\ durable \in Table \cup {NoImage}
    /\ session \in {"open", "closed", "lost"}

StoreInit ==
    /\ image = [a \in Address |-> Blank]
    /\ durable = NoImage
    /\ session = "open"

(* The program writes one sector. *)
OneSectorChanged(old, new) ==
    \E a \in Address :
        /\ new[a] \in Content
        /\ new = [old EXCEPT ![a] = new[a]]

Write ==
    /\ session = "open"
    /\ UNCHANGED session
    /\ OneSectorChanged(image, image')
    /\ UNCHANGED durable

(* The file gets the whole table in one step; a close ends the session, a  *)
(* close that fails after that step leaves it open.                        *)
Commit ==
    /\ session = "open"
    /\ session' \in {"open", "closed"}
    /\ durable' = image
    /\ UNCHANGED image

(* A close that succeeds with nothing to write: only a crash may lose what *)
(* the program wrote.                                                      *)
Close ==
    /\ session = "open"
    /\ session' = "closed"
    /\ image = durable
    /\ UNCHANGED <<image, durable>>

(* The program dies or abandons the image. *)
Crash ==
    /\ session = "open"
    /\ session' = "lost"
    /\ image' = durable
    /\ UNCHANGED durable

(* The image is opened again for writing. *)
Resume ==
    /\ session # "open"
    /\ session' = "open"
    /\ durable # NoImage
    /\ UNCHANGED <<image, durable>>

(* A new image is created over the file. *)
Create ==
    /\ session # "open"
    /\ session' = "open"
    /\ image' = [a \in Address |-> Blank]
    /\ durable' = NoImage

StoreNext ==
    \/ Write
    \/ Commit
    \/ Close
    \/ Crash
    \/ Resume
    \/ Create

StoreSpec == StoreInit /\ [][StoreNext]_storeVars
=============================================================================
