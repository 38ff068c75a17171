SPECIFICATION SdpSpec
CONSTANT Offers <- MCOffers
INVARIANTS CandidatesAreUsed AnswerMirrorsOffer 
