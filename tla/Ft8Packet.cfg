SPECIFICATION Spec
CONSTANTS
  Characters <- MCCharacters
  Callsigns <- MCCallsigns
  Locators <- MCLocators
  Hashes <- MCHashes
  Residue <- MCResidue
INVARIANTS SentIsPacket StandardReadable TextReadable NeverMistaken
