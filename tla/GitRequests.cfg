SPECIFICATION Spec
CONSTANTS
    ReposFolder <- MCReposFolder
    MaxGitPathSegments = 3
    MaxLinks = 6
    Families <- MCFamilies
INVARIANTS TypeOK ServedInside WalkDecides AdvertisedIsServed SwitchesObeyed ClientsServed LineIsCommand
